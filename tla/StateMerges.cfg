\* Vecs, reducers and aggregators, whose writes are merged.
SPECIFICATION Spec
CONSTANTS
  ValueStates = {}
  MapStates = {}
  VecStates = {vec}
  ReducerStates = {red}
  AggregatorStates = {agg}
  UnitStates = {vec, red, agg}
  Deployments <- MergeDeployments
  ItemKeys = {0}
  Namespaces = {0}
  MaxKey = 0
  MaxValue = 1
  MaxLen = 2
  MaxAdded = 3
  MaxOperands = 2
  OverflowChecks = TRUE
  None = None
  val = val
  map = map
  unitmap = unitmap
  vec = vec
  red = red
  agg = agg
PROPERTY ImplementsKeyedState
CHECK_DEADLOCK FALSE
