\* SQL: two threads, two connections, two queries, three faults.
\* Modbus: two masters of one device, three requests, two connections.
\* TCP: three bytes each way, buffers of two, blocks of three.
\* Serial: four characters, a buffer of two.  Strings: texts of two letters,
\* four operations.
\* Rows: three cells, a buffer of four, two errors.
CONSTANTS
  BUF = 4
  SqCells <- SomeCells
  MaxCells = 3
  MaxErrors = 2
  SqThreads = {t1, t2}
  SqCons = {1, 2}
  ServerTypes = {"mysql", "postgres"}
  MaxSqCalls = 2
  MaxSqFaults = 3
  Masters = {1, 2}
  Numbers = 2
  Functions = {"read", "write multiple", "unknown"}
  MaxRequests = 3
  MaxCons = 2
  TxThreads = {w1, w2}
  Total = 3
  LineEnds = {2}
  RBuf = 2
  XBuf = 2
  BlockSizes = {3}
  MaxBlocks = 2
  SrTotal = 4
  SrLineEnds = {2, 3}
  BufSize = 2
  Wanted = {1, 2}
  MaxZeros = 1
  Texts <- SomeTexts
  MaxText = 2
  MaxOps = 4
SPECIFICATION AllSpec
INVARIANTS
  
  
  StreamKept
  LinesKept
  TextsKept
CHECK_DEADLOCK FALSE
