SPECIFICATION MCSpec
INVARIANT RaisedToEstimate
CONSTANTS
  CommandLines <- MCCommandLines
  Length <- MCLength
  HostTtls = {54, 244}
  Ports = {5060}
  Names = {"wan"}
  MaxIndex = 2
  Faults = FALSE
