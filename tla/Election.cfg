SPECIFICATION Spec
CONSTANTS
  Nodes <- Two
  BurnIn = 2
  Expiry = 3
  MaxFaults = 4
  MaxDeaths = 1
INVARIANTS
  TypeOK
  AtMostOneMaster
PROPERTY MastersSettle
