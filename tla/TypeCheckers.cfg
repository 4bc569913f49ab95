CONSTANTS
  Families <- MCFamilies
  JSONValues <- Values
  Levels = {"BACKWARD", "BACKWARD_TRANSITIVE", "FORWARD", "FORWARD_TRANSITIVE", "FULL", "FULL_TRANSITIVE"}
  MaxVersions = 3
  Depth = 2
SPECIFICATION Spec
CHECK_DEADLOCK FALSE
INVARIANTS
  AvroPromiseKept
  ProtobufPromiseKept
  
  RefusesRightly
