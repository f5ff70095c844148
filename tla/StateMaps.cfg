\* Values and maps, one of them without item key and namespace; namespaces at
\* the end of the range of a byte.
SPECIFICATION Spec
CONSTANTS
  ValueStates = {val}
  MapStates = {map, unitmap}
  VecStates = {}
  ReducerStates = {}
  AggregatorStates = {}
  UnitStates = {val, unitmap}
  Deployments <- MapDeployments
  ItemKeys = {1}
  Namespaces = {254, 255}
  MaxKey = 1
  MaxValue = 0
  MaxLen = 2
  MaxAdded = 2
  MaxOperands = 2
  OverflowChecks = TRUE
  None = None
  val = val
  map = map
  unitmap = unitmap
  vec = vec
  red = red
  agg = agg
INVARIANTS UsableOnceRegistered RegistrationSucceeds ListNamesEntries
 
CHECK_DEADLOCK FALSE
