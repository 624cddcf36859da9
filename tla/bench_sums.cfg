SPECIFICATION Spec
CONSTANTS
  Types = {"INT8", "INT", "FLOAT", "DOUBLE"}
  Shapes <- Small
INVARIANT ValidationRight
CHECK_DEADLOCK FALSE
