SPECIFICATION Spec
CONSTANTS
  Keys = {k1, k2, k3, k4}
  Handles = {h1, h2, h3}
  Capacities = {0, 1, 2}
  NoNode = NoNode
SYMMETRY Symmetry
CHECK_DEADLOCK FALSE
INVARIANT RefsCountHandles
PROPERTY Bounded
