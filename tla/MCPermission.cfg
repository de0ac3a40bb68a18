SPECIFICATION Spec
CONSTANTS
  edit = edit
  shell = shell
  loop = loop
  other = other
  s1 = s1
  s2 = s2
  f1 = f1
  f2 = f2
  all = all
  src = src
  doc = doc
  Requests <- MCRequests
  Sessions = {s1, s2}
  Repliers = {f1, f2}
  Patterns <- MCPatterns
  Covers <- MCCovers
  SessionOf <- MCSessionOf
  PatternsOf <- MCPatternsOf
  AlwaysOf <- MCAlwaysOf
  RuleOf <- MCRuleOf
  Detached = {edit, shell, other}
  Stored = {}
INVARIANTS PermissionTypeOK WaiterAnswerable NothingUnasked RejectStopsSession CoveredIsResolved
SYMMETRY MCSymmetry
CHECK_DEADLOCK FALSE
