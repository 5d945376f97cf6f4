SPECIFICATION FairSpec
CONSTANTS
  Writers = {"server"}
  MaxPayload = 3
  MaxPackets = 4
  WINDOW = 5
INVARIANTS TypeOK AtomicPackets
PROPERTIES ImplementsChannel
CHECK_DEADLOCK FALSE
