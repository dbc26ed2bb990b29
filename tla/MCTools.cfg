SPECIFICATION Spec
CONSTANTS
  None = None
  NoTerm = NoTerm
  Names <- NamesDef
  LegalSuffixes = {"ltd", "inc", "group"}
  Likeness <- LikenessDef
  Threshold = 85
  NumberKey <- NumberKeyDef
  Tolerance = 5
  Bills <- BillsDef
  Masters <- MastersDef
  Lookbacks = {None, 90}
  Requests <- RequestsDef
  Required <- RequiredDef
  Fields <- FieldsDef
  Thresholds <- ThresholdsDef
  Uploads <- UploadsDef
  Singles <- SinglesDef
  Schemas <- SchemasDef
  Cleaned <- CleanSchemaForGemini
  MaxFiles = 3
  MaxPdfPages = 3
  MaxImages = 4
  i1 = i1
  i2 = i2
  i3 = i3
  NoDate = NoDate
  Invoices = {i1, i2, i3}
  DaysToDue <- DaysToDueDef
  Month <- MonthDef
  VendorName <- VendorNameDef
  Priced = {i2, i3}
  Refused = {i2}
  Discounted = {i3}
  DecidedAs = {"auto_approve"}
  ReviewedAs = {"rejected"}
  PageSize = 1
  Filters <- FiltersDef
CHECK_DEADLOCK FALSE
INVARIANTS
  DuplicateIsMutual
  CopyIsCaught
  TermsAddUp
  CompletenessMonotone
  SendsFirstImages
  ProviderAgrees
  SchemaIsPlain
  ReportsAddUp
  PagesMissNothing
