SPECIFICATION MeteredSpec
CONSTANTS
  Capacities = {0, 1, 2, 4}
  Operations = {"value_set", "map_get", "map_iter"}
  Durations = {0, 1, 3}
  MaxPushed = 6
  MaxIterators = 2
INVARIANTS KeepsNewest SummaryIsRight
CHECK_DEADLOCK FALSE
