CONSTANTS
  None = None
  fileA = fileA
  fileB = fileB
  clientA = clientA
  clientB = clientB
  reader = reader
  NumConns = 3
  NumFds = 2
  Ports = {80, 81}
  KernelPort = 81
  Peers <- Clients
  R2Syn = 0
  R2Data = 0
  MaxSockets = 2
  MaxStrays = 1
  RX_N = 4
  TX_N = 2
  E1000_BATCH_LIMIT = 2
  MaxPackets = 7
  Senders = {1, 2}
  MaxFrames = 4
  Readers = {reader}
  RingSize = 4
  MaxKeys = 3
  Sectors = 7
  Table <- SomeTable
  MaxCmd = 2
  MaxLen = 3
  FailsAt = "first"
  MaxFd = 3
  NumStd = 1
  NumHandles = 2
  NumSocks = 2
  Files = {fileA, fileB}
  Size <- SomeSizes
  PosBits = 3
  Offsets <- SomeOffsets
  Whences = {0, 1}
  Null = Null
  DupSocks = 1
  DupFiles = {fileA}
  DupOffsets = {1}
  DupWhences = {0}
  SeqBits = 6
  Isn = 60
  TxBuf = 4
  TxMss = 2
  TxRetries = 1
  WriteLen = 6
  Windows = {0, 2, 4}
  TxOutcomes = {"delivered", "lost", "failed"}
  OldAcks = 1
  RxBits = 6
  RxIsn = 60
  RxBuf = 8
  RxMss = 3
  RxSlots = 2
  RxStream = 12
  RxMaxLen = 4
  RxBack = 3
  UDP_SLOTS = 3
  UDP_RXBUF = 5
  Header = 1
  UdpPorts = {53}
  DnsPorts = {49152, 49153}
  Resolvers = {1, 2}
  UdpHeader = 2
  LenBits = 4
  Lengths = {1, 3, 4}
  Fat <- SomeFat
  FatFiles <- SomeFatFiles
  EntriesPer = 2
  SecSize = 2
  Spc = 2
  CacheSlots = 2
  MaxRead = 5
  MaxOff = 12
SPECIFICATION AllSpec
SYMMETRY ClientSymmetry
CHECK_DEADLOCK FALSE
INVARIANTS
  ResourcesHeld
  ReadsFile
  Transferred
  DeliveredOnce
  NoStuckModifier
  HandledOnce
  SentAsWritten
  OwnDatagrams
  StreamIntact
  WindowHonoured
  StreamSent
PROPERTIES
  ListenersKept
  PendingHasListener
  AcceptedHeld
  OwnFiles
  BacklogKept
  WindowRespected
