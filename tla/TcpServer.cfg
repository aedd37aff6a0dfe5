\* Services: two users of two slots and two ports, stopped once.
\* Sockets: numbers 0 to 2, two peers, three datagrams.
\* Files: two threads, three loads and saves, two deaths, a write to a
\* full disk.
\* TFTP: files of one to four blocks, numbers of blocks of two bits.
\* SMTP: two recipients, texts of four lines, two timeouts.
\* FTP: two files, five calls, two timeouts.
\* HTTP: two requests, a timeout, a connection that is closed.
CONSTANTS
  Users = {u1, u2}
  None = None
  Cases <- UsualCases
  Ports = {1, 2}
  MaxServers = 2
  MaxSocks = 2
  MaxThreads = 2
  MaxConns = 1
  u1 = u1
  u2 = u2
  Fds = {0, 1, 2}
  Peers <- TwoPeers
  MaxDatagrams = 3
  MaxSends = 2
  XmlThreads = {1, 2}
  MaxXmlEdits = 2
  MaxXmlSaves = 3
  MaxXmlCrashes = 2
  MaxXmlFull = 1
  TftpFiles <- SomeFiles
  ErrorCodes = {1, 3}
  BlockMod = 4
  Recipients = 2
  Mails <- SomeMails
  MaxLate = 2
  FilePartsOf <- TwoFiles
  MaxCalls = 5
  MaxLateAnswers = 2
  MaxRequests = 2
  MaxHttpLate = 1
  MaxHttpLost = 1
SPECIFICATION AllSpec
INVARIANTS
  
  TcpSocketsKept
  
  DialoguesKept

  
CHECK_DEADLOCK FALSE
