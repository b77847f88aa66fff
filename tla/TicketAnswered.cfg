\* One session, which may expire while a request holds the mutex of its table.
SPECIFICATION FairSpec
CONSTANTS
  Nobody = Nobody
  Sessions = {"s1"}
  Tickets = {"k1"}
  PluginTickets = {"x1"}
  Sockets = {"w1"}
  Requests = {"q1"}
  Kinds <- MCKinds
  LockedKinds = {"application"}
  MaxSessions = 1
PROPERTIES
  TicketAnswered
CHECK_DEADLOCK FALSE
