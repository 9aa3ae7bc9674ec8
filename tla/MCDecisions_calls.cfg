SPECIFICATION Spec
CONSTANTS
  Dumps <- DumpsOfFive
  Listings <- AllListings
  Serials <- ThreeSerials
  Pins <- PinsOfFour
  Digests <- HexDigests
  Roots <- BuildTools
  Outcomes <- SinkResults
  DigestLen = 2
CHECK_DEADLOCK FALSE
INVARIANTS
  VersionOfPackage ConnectedAsListed AcceptedAsPinned NewestTool
  FanoutDelivers
