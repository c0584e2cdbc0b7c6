SPECIFICATION Spec
CONSTANTS
  Engines = {koboldcpp, tabbyapi, prism}
  Kobold = koboldcpp
  Models = {m1, m2}
  None = None
INVARIANTS
  ReleasedMeansFree
  LoadsAlone
  ServesTarget
