\* All strategies, two channels, the second one remote with failing sends, and
\* the smallest pool that the constructors accept.
SPECIFICATION Spec
CONSTANTS
    Strategies = {"Forward", "Broadcast", "RoundRobin", "KeyBy", "Mute"}
    N = 2
    Remote = {2}
    Capacity = 3
    BufferSize = 2
    MaxKey = 3
    Keys = {1, 5}
    U64 = 8
    SerErrors = {"BufferError", "Other"}
    MaxAdds = 4
INVARIANTS TypeOK EveryEventOnceInOrder OneHolder MarkersEndMessages
PROPERTIES  MarkersArrive
CHECK_DEADLOCK FALSE
