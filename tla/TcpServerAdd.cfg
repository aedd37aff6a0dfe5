\* One user adds one service.
CONSTANTS
  Users = {u1, u2}
  None = None
  Cases <- OneAdds
  Ports = {1}
  MaxServers = 1
  MaxSocks = 2
  MaxThreads = 1
  MaxConns = 0
  u1 = u1
  u2 = u2
SPECIFICATION FairSpec
PROPERTIES
  AddedIsListened
CHECK_DEADLOCK FALSE
