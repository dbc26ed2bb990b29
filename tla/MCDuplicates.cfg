SPECIFICATION SpecKnown
CONSTANTS
  r1 = r1
  r2 = r2
  r3 = r3
  acme = acme
  bill = bill
  note = note
  k1 = k1
  BlankKey = BlankKey
  NoKey = NoKey
  NoVendor = NoVendor
  Docs = {bill}
  Vendors = {acme}
  Keys = {k1}
  Requests = {r1, r2}
  VendorOf <- MCVendorOf
  ExactDuplicate <- MCDuplicate
  CandidateLimit = 3
  Calls = {"create", "ingest", "process", "reprocess", "transition", "delete"}
  Targets = {"approved", "held"}
  Autos = {FALSE}
SYMMETRY MCSymmetry
CHECK_DEADLOCK FALSE
INVARIANTS
  DuplicatesNeverBothApproved
