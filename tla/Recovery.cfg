SPECIFICATION FairSpec
CONSTANTS
  Nil = Nil
  MaxMessageLen = 4
  Mode = "reassemble"
  UpstreamFragmentSize = 1
  DownstreamFragmentSize = 1
  FramedMtuOverride = Nil
  StripFramedMtu = TRUE
  IoMayFail = FALSE
  Stations = {alice, bob}
  Scripts <- ShortScript
  FlightCount = 2
  FirstIds = {1}
  PeerFragmentSize = 1
  ServerFragmentSize = 1
  ApMtu = 1
  CallingSent = FALSE
  ServerMayReject = FALSE
  MaxLosses = 1
  MaxRetransmissions = 1
  MaxTimeouts = 1
  MaxRestarts = 1
  MaxFaults = 1
  MaxAttempts = 2
INVARIANTS
  AdmissionHonest
  RoundTripsExact
  LeaksBounded
  StationsSeparate
PROPERTIES
  Completes
