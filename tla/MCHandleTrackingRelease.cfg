CONSTANTS
  Handles = {h1, h2}
  Windows = {w1, w2}
  Maps = {1, 2, 3}
SPECIFICATION Spec
PROPERTY ReleaseSparesOthers
