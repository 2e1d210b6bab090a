SPECIFICATION Spec
CONSTANTS
  Nil = Nil
  MaxMessageLen = 4
  Mode = "reassemble"
  UpstreamFragmentSize = 2
  DownstreamFragmentSize = 1
  FramedMtuOverride = Nil
  StripFramedMtu = TRUE
  IoMayFail = TRUE
  Stations = {alice}
  Scripts <- OneScript
  FlightCount = 4
  FirstIds = {250}
  PeerFragmentSize = 1
  ServerFragmentSize = 2
  ApMtu = 1
  CallingSent = TRUE
  ServerMayReject = FALSE
  MaxLosses = 0
  MaxRetransmissions = 1
  MaxTimeouts = 0
  MaxRestarts = 0
  MaxFaults = 1
  MaxAttempts = 0
INVARIANTS
  KeysBound
