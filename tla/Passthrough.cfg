SPECIFICATION FairSpec
CONSTANTS
  Nil = Nil
  MaxMessageLen = 4
  Mode = "passthrough"
  UpstreamFragmentSize = 2
  DownstreamFragmentSize = 1
  FramedMtuOverride = 4
  StripFramedMtu = TRUE
  IoMayFail = FALSE
  Stations = {alice}
  Scripts <- AllScripts
  FlightCount = 4
  FirstIds = {250}
  PeerFragmentSize = 2
  ServerFragmentSize = 4
  ApMtu = 2
  CallingSent = TRUE
  ServerMayReject = FALSE
  MaxLosses = 0
  MaxRetransmissions = 0
  MaxTimeouts = 0
  MaxRestarts = 0
  MaxFaults = 0
  MaxAttempts = 0
INVARIANTS
  RoundTripsExact
  FitsApLink
PROPERTIES
  TunnelSpec
  Completes
