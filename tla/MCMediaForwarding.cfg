SPECIFICATION FairSpec
CONSTANTS
  Ports = {20000, 65535}
  FirstPorts = {20000}
  EventPayloads = {0, 97}
  DTMFPayloadType = 101
  H248DTMFPayloadType = 102
  H248DTMFModes = {"rfc4733", "inband"}
  MaxUpdates = 2
  MaxFlight = 1
  Nil = Nil
INVARIANTS
  TypeOK
  EventsTranslated
  EventsRecognised
PROPERTIES
  PeersConverge
