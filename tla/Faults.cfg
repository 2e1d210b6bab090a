SPECIFICATION FairSpec
CONSTANTS
  Nil = Nil
  MaxMessageLen = 4
  Mode = "reassemble"
  UpstreamFragmentSize = 2
  DownstreamFragmentSize = 1
  FramedMtuOverride = Nil
  StripFramedMtu = TRUE
  IoMayFail = FALSE
  Stations = {alice, bob}
  Scripts <- OneScript
  FlightCount = 4
  FirstIds = {1}
  PeerFragmentSize = 1
  ServerFragmentSize = 2
  ApMtu = 1
  CallingSent = TRUE
  ServerMayReject = TRUE
  MaxLosses = 1
  MaxRetransmissions = 0
  MaxTimeouts = 1
  MaxRestarts = 1
  MaxFaults = 3
  MaxAttempts = 0
INVARIANTS
  AdmissionHonest
  LeaksBounded
  RoundTripsExact
  KeysBound
PROPERTIES
  TunnelSpec
  ThreadReturns
