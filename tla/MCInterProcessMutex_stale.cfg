SPECIFICATION Spec
CONSTANTS
  Proc = {p1, p2, p3, p4}
  Nobody = Nobody
  Rounds = 2
  Attempts = 2
  MaxDeaths = 1
SYMMETRY Symmetry
INVARIANT
  MutualExclusion
