\* Two connections and channels of one, so that a second connection to the
\* same side finds its channel full. Bounds: QueueCap is 1 where the code has 64.
\* The system may stop: once closed it has nothing left to do.
SPECIFICATION FairSpec
CONSTANTS
  Conn = {c1, c2}
  Byte <- MCByte
  Methods <- MCMethods
  Handshake <- MCHandshake
  SniffLimit <- MCSniffLimit
  Streams <- MCStreams
  QueueCap = 1
CHECK_DEADLOCK FALSE
INVARIANTS
  TypeOK
  QueuesExact
  NoOverread
PROPERTIES
  ImplementsHandover
  ShutdownUnwinds
  SniffEnds
  WebNotBlocked
