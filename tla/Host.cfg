\* Two processes and an execution they compete for; three executions, of which
\* one is retained; three streams, where two may be open; two roots.
SPECIFICATION Spec
CONSTANTS
  None = None
  Parts = {"processes", "history", "network", "root", "packages"}
  Processes = {1, 2}
  Logged = {"e1"}
  MaxSize = 1
  Buffer = 1
  Executions = {1, 2, 3}
  Subjects = {"subject"}
  SubjectOf <- OneSubject
  Retention = 1
  LogCap = 1
  MaxMarkers = 0
  Streams = {1, 2, 3}
  MaxOpen = 2
  MaxRecords = 2
  MaxBytes = 1
  Roots = {"default", "other"}
  First = "default"
  MaxEdits = 1
  Ids = {"system"}
  WithBackend = {"system"}
  Fixture <- FirstVersions
  Versions = {1, 2, 3}
  Incompatible = {3}
  MaxRetired = 2
CONSTRAINT InOrder
INVARIANTS
  TypeOK
  CapturesApart
  ExitsSettle
  HistoryKept
  ConnectionsAreRecorded
  RootKept
  PackagesKept
PROPERTIES
  LedgerImplemented
CHECK_DEADLOCK FALSE
