\* Print service: two callers of two messages, a ring of three slots.
\* Delayed sets: a user that keeps asking, in a table of three slots.
\* Pipes: a child that writes twice to each of its streams.
\* Relays: two calls, sides that send three bytes, buffers of two.
CONSTANTS
  Clients = {c1, c2}
  NoThread = NoThread
  NoMsg = NoMsg
  N = 3
  Slack = 1
  MaxPolls = 2
  MaxMsgs = 2
  Users = {u1}
  Asks <- SoonAndLater
  r1 = r1
  r2 = r2
  MaxItems = 3
  NoUser = NoUser
  MaxChunks = 2
  BufLen = 2
  MaxSent = 3
  MaxRelays = 2
  WithTimeout = TRUE
SPECIFICATION AllSpec
INVARIANTS
  RingIsWhole
  EachOnceInOrder
  SetsKept
  PipesKept
  RelayKept
PROPERTIES
  ImplementsLogService
  FlushedBeforeGone
  PrintEnds
  SetsEnd
  PipesEnd
  RelayEnds
CHECK_DEADLOCK FALSE
