SPECIFICATION Spec
INVARIANTS TypeOK RingWhole DecoysByOwnDevice DecoysDie DecoysFit DecoysAsAsked
PROPERTIES EveryPacketAnswered
CONSTANTS
  CommandLines <- MCCommandLines
  Length <- MCLength
  HostTtls <- MCHostTtls
  Ports <- MCPorts
  Names <- MCNames
  MaxIndex = 3
  Faults = TRUE
