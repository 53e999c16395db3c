SPECIFICATION ConnectionSpec
CONSTANTS
  Calls = {k1, k2}
  StreamIDs = {0, 1, 2}
  NoCall = NoCall
  NewTypes = {"int", "list", "0x40"}
  NewNames = {"int", "geo", "GeoType", "vector", "org.apache.cassandra.db.marshal.GeoType",
              "org.apache.cassandra.db.marshal.VectorType"}
  MaxRegistrations = 2
  maxFrameSize = 180
  CustomNames <- MCCustomNames
  Requests <- AllRequests
  Responses <- AllResponses
  Streams <- MCStreams
  Cases <- MCCases
  maxSegmentPayloadSize = 31
  Bodies <- MCBodies
  MaxFrames = 2
  Flips = {129}
CHECK_DEADLOCK FALSE
INVARIANTS
  OwnResponse StreamsAccounted
  RoundTrip NoNeedlessError NamesResolve RequestUnderstood ResponseUnderstood FramesIntact
PROPERTY CloseCompletes
