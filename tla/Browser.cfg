\* The bounds of each component are explained in the README.
SPECIFICATION Spec
CONSTANTS
  Parts = {"web", "publications", "socket", "exchanges", "channels",
           "apps", "terminal", "remote", "guacamole", "docker", "compose"}
  Nobody = Nobody
  Sessions = {"s1", "s2", "s3"}
  Logins = {}
  PluginTickets = {"x1"}
  Connections = {"w1"}
  Asks = {}
  MaxSessions = 2
  Owners = {"o1", "o2"}
  Publications = {"p1", "p2"}
  Runtimes = {"r1"}
  Gateways = {"g1"}
  Tickets = {"t1", "t2"}
  Browsers = {"b1", "b2"}
  Paths <- Nested
  Bases = {"configured", "pinned"}
  MaxGateways = 1
  MaxTickets = 2
  Streams = {"n1"}
  Loop = "loop"
  Events = "events"
  MaxRequests = 2
  MaxEvents = 1
  MaxWrites = 2
  MaxQueued = 1
  Requests = {1}
  MaxExchanges = 1
  Chunk = 2
  Window = 2
  Slots = 2
  MaxBody = 3
  Channels = {1, 2}
  MaxWebSockets = 1
  Credit = 2
  Queue = 1
  MaxSent = 1
  MaxRead = 1
  Marks = {"m1", "m2", "m3"}
  Gates = {"g1", "g2"}
  MaxApps = 2
  MaxGates = 1
  Tabs = {"t1", "t2", "t3"}
  MaxTabs = 2
  Feeds = {"f1", "f2", "f3"}
  Scopes = {"d1", "d2"}
  MaxTargets = 1
  MaxClients = 2
  MaxScopes = 1
  MaxWords = 2
  PeekSize = 3
  Limit = 9
  Names = {"n"}
  Legacy = {"n"}
  External = {"ext"}
  Shells = {"s"}
  MaxStarts = 2
  Projects = {"p"}
  Clients = {"c1", "c2"}
INVARIANTS
  TypeOK
  WebSessionsKept
  PublicationsKept
  SocketInOrder
  
  PluginsTidy
  ReadsOneInstruction
PROPERTIES
  DockerApart
CHECK_DEADLOCK FALSE
