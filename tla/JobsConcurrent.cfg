SPECIFICATION Spec
CONSTANTS
  None = None
  j1 = j1
  j2 = j2
  e1 = e1
  e2 = e2
  g1 = g1
  g2 = g2
  g3 = g3
  r1 = r1
  r2 = r2
  r3 = r3
  Jobs = {j1}
  Policies = {"skip"}
  Editors = {e1, e2}
  Generations = {g1, g2, g3}
  Runs = {r1}
INVARIANTS
  ReplacedLoopsStop
