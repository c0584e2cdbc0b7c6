SPECIFICATION Spec
CONSTANTS
  Models = {m1, m2}
  None = None
PROPERTIES
  OneJobAtATime
  ImplementsContract
