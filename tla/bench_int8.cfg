SPECIFICATION Spec
CONSTANTS
  Types = {"INT8"}
  Shapes <- Seventeen
INVARIANT ValidationRight
CHECK_DEADLOCK FALSE
