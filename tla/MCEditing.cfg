SPECIFICATION Spec
CONSTANTS
  c1 = c1
  c2 = c2
  c3 = c3
  s1 = s1
  s2 = s2
  u1 = u1
  Nobody = Nobody
  Calls <- MCCalls
  Sessions = {s1, s2}
  SessionOf <- MCSessionOf
  ToolsOf <- MCToolsOf
  Saves = {u1}
SYMMETRY Symmetry
INVARIANTS
  EditingTypeOK
PROPERTIES
  NoStaleWrite
  EditsSerialised
CHECK_DEADLOCK FALSE
