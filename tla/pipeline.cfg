SPECIFICATION Spec
CONSTANTS
  Specs <- SoundSpecs
  UserEnvs <- SomeEnvs
  MaxRuns = 2
INVARIANTS TypeOK InputReady Delivered NeverFromTorn HandoffKept HonestLabels
PROPERTIES IsVertical
CHECK_DEADLOCK FALSE
