CONSTANTS
  Handles = {h1, h2}
  Windows = {w1, w2}
  Maps = {1, 2, 3}
SPECIFICATION Spec
SYMMETRY Symmetry
INVARIANTS TypeOK NoStaleReader NotBothActiveAndClosed
