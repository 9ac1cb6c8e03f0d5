SPECIFICATION Spec
CONSTANTS
  Nodes <- Two
  BurnIn = 2
  Expiry = 3
  MaxFaults = 0
  MaxDeaths = 1
PROPERTY OneMaster
