SPECIFICATION Spec
CONSTANTS
  ScanTimeOut = 1
  Star = "*"
  Dot = "."
  Colon = ":"
  Blank = " "
  PkgSize = 35
  KeyLen = 2
  BlockSize = 3
  Columns <- OneColumnEach
  MaxObjects = 4
  MaxEvents = 2
  MaxNodes = 4
  AttrNames = {"x", "y"}
  AttrValues = {"1", "x"}
  MaxText = 4
  CharBits = 3
  ShortBits = 4
  IntBits = 6
  LongBits = 8
  OctetMax = 3
INVARIANTS
  MonthsRight
  IndexesRight
  ReceiveRight
  PartsRight
  FieldsRight
  NumbersRight
  ConfigurationRight
  XmlRight
  DatasetsSound
PROPERTY ImplementsForest
CHECK_DEADLOCK FALSE
