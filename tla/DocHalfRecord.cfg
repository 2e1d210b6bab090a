SPECIFICATION MCSpec
CONSTANTS
  Nil = Nil
  MaxMessageLen = 1
  Mode = "reassemble"
  UpstreamFragmentSize = 1
  DownstreamFragmentSize = 1
  FramedMtuOverride = 3
  StripFramedMtu = FALSE
  IoMayFail = FALSE
  Unit = {"a"}
  Address = {ap}
  Station = {alice}
  Authenticator = {r1, r2}
  ServerState = {"s"}
  AttrValue = {2, 3}
  Datagrams <- MCDatagrams
  ServerReplies <- MCServerReplies
  MaxMinted = 2
  MaxTrips = 2
  MaxWire = 1
  MaxSessions = 1
  MaxBuffer = 2
PROPERTIES
  NoHalfRecord
CHECK_DEADLOCK FALSE
