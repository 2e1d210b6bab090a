SPECIFICATION FairSpec
CONSTANTS
  Nil = Nil
  MaxMessageLen = 4
  Mode = "reassemble"
  UpstreamFragmentSize = 2
  DownstreamFragmentSize = 1
  FramedMtuOverride = 2
  StripFramedMtu = FALSE
  IoMayFail = FALSE
  Stations = {alice}
  Scripts <- AllScripts
  FlightCount = 4
  FirstIds = {0, 250}
  PeerFragmentSize = 1
  ServerFragmentSize = 4
  ApMtu = 1
  CallingSent = TRUE
  ServerMayReject = FALSE
  MaxLosses = 0
  MaxRetransmissions = 0
  MaxTimeouts = 0
  MaxRestarts = 0
  MaxFaults = 0
  MaxAttempts = 0
INVARIANTS
  IdentifiersMatch
  RoundTripsExact
  FitsApLink
PROPERTIES
  TunnelSpec
  Completes
