\* Two binds and two connections; two requests to quit; two threads that log;
\* three versions of the file; a certificate valid for six units of time.
SPECIFICATION ProcessSpec
CONSTANTS
  Bind = {b1, b2}
  Conn = {c1, c2}
  Admin = {a1}
  None = None
  QuitReq = {q1, q2}
  MaxSignals = 2
  Logger = {"t1", "t2"}
  LineLimit = 2
  GroupSize = 2
  MaxLines = 2
  Ask <- MCAsk
  LContents = {"plain", "rich", "tcp", "twice", "empty", "garbled"}
  LFile <- MCFile
  MaxVersions = 3
  User = {u1}
  Identity <- Me
  Peers <- MCPeers
  Wanted <- MCWanted
  Ttl = 6
  Skew = 1
  Period = 2
  FetchTime = 1
  EndOfDays = 12
INVARIANTS GracefulUntilDeadline LinesFlushedInOrder  
PROPERTIES  ReadyMeansConfigured  WaitersGoOn
CHECK_DEADLOCK FALSE
