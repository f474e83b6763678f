\* Three servers, rings of two, and any number of samples.
CONSTANTS
  Servers = {1, 2, 3}
  RTTs = {1, 4}
  MaxSamples = 2
  DecayNum = 4
  DecayDen = 5
SPECIFICATION Spec
INVARIANTS TypeOK AverageInRange OrderConsistent
PROPERTIES KeepsRecent
