------------------------------ MODULE Metered ------------------------------
(* The Metered backend (arcon_state/src/metered): it passes every operation on *)
(* to the backend inside and keeps how long each took, in a buffer that starts *)
(* over when it is full.                                                       *)
EXTENDS Naturals, FiniteSetsExt, SequencesExt

CONSTANTS
    Capacities,    \* what ARCON_SB_METRICS_LEN may be
    Operations,    \* the operations that a run calls
    Durations,
    MaxPushed,     \* bound: data points pushed
    MaxIterators   \* bound: iterators at a time

VARIABLES phase,       \* "closed", "open" or "panicked"
          num_pushed, storage,
          iterators    \* the iterators that the caller has, by operation

metered == <<phase, num_pushed, storage, iterators>>

\* The operations by the receiver they take, &self or &mut self, and the ones
\* that answer with an iterator whose next is measured too.
BackendOps ==
    [reads |-> {"checkpoint"},
     writes |-> {"register_value_handle", "register_map_handle", "register_vec_handle",
                 "register_reducer_handle", "register_aggregator_handle"},
     iters |-> {}]
ValueOps ==
    [reads |-> {"value_get"}, writes |-> {"value_clear", "value_set", "value_fast_set"},
     iters |-> {}]
MapOps ==
    [reads |-> {"map_get", "map_contains", "map_len", "map_is_empty"},
     writes |-> {"map_clear", "map_fast_insert", "map_insert", "map_insert_all",
                 "map_remove", "map_fast_remove"},
     iters |-> {"map_iter", "map_keys", "map_values"}]
VecOps ==
    [reads |-> {"vec_get", "vec_len", "vec_is_empty"},
     writes |-> {"vec_clear", "vec_append", "vec_set", "vec_add_all"},
     iters |-> {"vec_iter"}]
ReducerOps ==
    [reads |-> {"reducer_get"}, writes |-> {"reducer_clear", "reducer_reduce"}, iters |-> {}]
AggregatorOps ==
    [reads |-> {"aggregator_get"}, writes |-> {"aggregator_clear", "aggregator_aggregate"},
     iters |-> {}]
NextName ==
    [map_iter |-> "map_iter::next", map_keys |-> "map_keys::next",
     map_values |-> "map_values::next", vec_iter |-> "vec_iter::next"]
AllOps == {BackendOps, ValueOps, MapOps, VecOps, ReducerOps, AggregatorOps}

Reads == Operations \cap UNION {ops.reads : ops \in AllOps}
Writes == Operations \cap UNION {ops.writes : ops \in AllOps}
Iters == Operations \cap UNION {ops.iters : ops \in AllOps}

ASSUME MeteredAssumption ==
    /\ Capacities \subseteq Nat /\ Durations \subseteq Nat
    /\ MaxPushed \in Nat /\ MaxIterators \in Nat
    /\ Operations = Reads \cup Writes \cup Iters

-----------------------------------------------------------------------------
Min2(a, b) == IF a < b THEN a ELSE b
Max2(a, b) == IF a > b THEN a ELSE b

\* The start of a measurement is told by how many there were before it.
DataPoint(operation, duration, start) ==
    [operation |-> operation, start |-> start, duration |-> duration]
NoPoint == DataPoint("", 0, 0)
\* Metrics::new; the index of a boxed slice starts at 0.
NewMetrics(cap) == [i \in 0 .. (cap - 1) |-> NoPoint]

MeteredInit == phase = "closed" /\ num_pushed = 0 /\ storage = NewMetrics(0) /\ iterators = <<>>

\* A mutant: the oldest entry is the last to be overwritten.
SlotBehind(cap, n) == IF n < cap THEN n ELSE cap - 1
Slot(cap, n) == n % cap

Capacity == Cardinality(DOMAIN storage)
Push(operation, duration) ==
    /\ num_pushed < MaxPushed
    /\ storage' = [storage EXCEPT ![Slot(Capacity, num_pushed)] =
                      DataPoint(operation, duration, num_pushed)]
    /\ num_pushed' = num_pushed + 1

\* new_from_initial_measurement, for create, restore and restore_or_create: an
\* error of the backend inside is passed on, and the first data point does not
\* fit in a buffer without room.
Open(operation, cap, duration) ==
    /\ phase = "closed"
    /\ phase' = IF cap = 0 THEN "panicked" ELSE "open"
    /\ storage' = IF cap = 0 THEN NewMetrics(0)
                  ELSE [NewMetrics(cap) EXCEPT ![Slot(cap, 0)] = DataPoint(operation, duration, 0)]
    /\ num_pushed' = Min2(cap, 1)
    /\ UNCHANGED iterators

\* measure and measure_mut; Rust allows no &mut self while an iterator lives.
Measure(operation, duration) ==
    /\ phase = "open"
    /\ operation \in Writes => iterators = <<>>
    /\ Push(operation, duration)
    /\ UNCHANGED <<phase, iterators>>
\* The backend inside may answer with an error instead of an iterator.
OpenIterator(operation, duration) ==
    /\ phase = "open" /\ Len(iterators) < MaxIterators
    /\ Push(operation, duration)
    /\ iterators' \in {iterators, Append(iterators, operation)}
    /\ UNCHANGED phase
NextItem(k, duration) ==
    /\ phase = "open"
    /\ Push(NextName[iterators[k]], duration)
    /\ UNCHANGED <<phase, iterators>>
DropIterator(k) ==
    /\ iterators' = RemoveAt(iterators, k)
    /\ UNCHANGED <<phase, num_pushed, storage>>

\* was_restored, start_session and session_drop_hook are not measured.
MeteredNext ==
    \/ \E d \in Durations :
         \/ \E op \in {"create", "restore", "restore_or_create"}, cap \in Capacities : Open(op, cap, d)
         \/ \E op \in Reads \cup Writes : Measure(op, d)
         \/ \E op \in Iters : OpenIterator(op, d)
         \/ \E k \in DOMAIN iterators : NextItem(k, d)
    \/ \E k \in DOMAIN iterators : DropIterator(k)

MeteredSpec == MeteredInit /\ [][MeteredNext]_metered

-----------------------------------------------------------------------------
\* Deref: the entries that have been written.
Entries ==
    IF num_pushed > Capacity THEN [i \in 1 .. Capacity |-> storage[i - 1]]
    ELSE [i \in 1 .. num_pushed |-> storage[i - 1]]

NoSummary == [count |-> 0, min |-> 0, avg |-> 0, max |-> 0]
\* A mutant: the new duration weighs as much as all the others.
AddToSummary2(s, d) ==
    [count |-> s.count + 1, min |-> IF s.count = 0 THEN d ELSE Min2(s.min, d),
     avg |-> (s.avg + d) \div 2, max |-> Max2(s.max, d)]
\* The loop of summary; the average is computed in integers each time.
AddToSummary(s, d) ==
    [count |-> s.count + 1, min |-> IF s.count = 0 THEN d ELSE Min2(s.min, d),
     avg |-> (s.avg * s.count + d) \div (s.count + 1), max |-> Max2(s.max, d)]
Summary(operation) ==
    FoldLeft(LAMBDA s, dp : AddToSummary(s, dp.duration), NoSummary,
             SelectSeq(Entries, LAMBDA dp : dp.operation = operation))

-----------------------------------------------------------------------------
\* "When full it'll start overwriting the oldest entries" (Metrics): the entries
\* are the newest data points, as many as there are or as fit.
KeepsNewest ==
    {Entries[i].start : i \in DOMAIN Entries}
        = (num_pushed - Min2(num_pushed, Capacity)) .. (num_pushed - 1)

\* The summary counts the entries of each operation, its minimum and maximum are
\* theirs, and its average is between them and at most count / 2 below the
\* true one, although it is rounded down with every entry (Metrics::summary).
SummaryIsRight ==
    \A op \in {Entries[i].operation : i \in DOMAIN Entries} :
        LET s == Summary(op)
            these == {i \in DOMAIN Entries : Entries[i].operation = op}
            sum == FoldLeft(LAMBDA a, i : a + Entries[i].duration, 0, SetToSeq(these))
        IN  /\ s.count = Cardinality(these)
            /\ s.min = Min({Entries[i].duration : i \in these})
            /\ s.max = Max({Entries[i].duration : i \in these})
            /\ s.min <= s.avg /\ s.avg <= s.max
            /\ s.avg * s.count <= sum
            /\ 2 * (sum - s.avg * s.count) <= s.count * (s.count - 1)
=============================================================================
