\* Two jobs and a request; a process, a session and a browser session, each
\* with all that may happen to it.
SPECIFICATION FairSpec
CONSTANTS
  None = None
  Nobody = Nobody
  Parts = {"jobs", "processes", "shells", "web"}
  Jobs = {"j1", "j2"}
  Policies = {"skip", "allow"}
  Editors = {"e1"}
  Generations = {"g1", "g2"}
  Runs = {"r1", "r2"}
  Processes = {"q1"}
  Executions = {"x1"}
  MaxSize = 2
  Buffer = 2
  Terminals = {"t1"}
  MaxTerminals = 1
  MaxChunks = 2
  Sessions = {"s1"}
  Tickets = {"k1"}
  PluginTickets = {"p1"}
  Sockets = {"w1"}
  Asks = {"a1"}
  MaxSessions = 1
INVARIANTS
  TypeOK
  JobsApart
  FeedIsComplete
PROPERTIES
  ReloadReturns
  ProcessesSettle
  DeadSessionEnds
  SocketsEnd
CHECK_DEADLOCK FALSE
