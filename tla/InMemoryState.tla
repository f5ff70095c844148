---------------------------- MODULE InMemoryState ----------------------------
(* The InMemory backend (arcon_state/src/in_memory): a table of bytes per      *)
(* registered state id, values kept as they are, nothing kept by a checkpoint. *)
EXTENDS StateKeys

VARIABLES data,       \* data[h]: bytes -> value, for the registered handles
          reply       \* the last operation and its answer

vars == <<data, reply>>

\* InMemory::create, restore and restore_or_create: an empty backend.
Init == data = EmptyTable /\ reply = <<None, "none", None>>

\* Handle::activate panics for a handle that is not registered.
Registered(h) == h \in DOMAIN data

Reads(h, op, answer) == reply' = <<h, op, answer>> /\ UNCHANGED data
Writes(h, table, op, answer) ==
    /\ data' = [data EXCEPT ![h] = table]
    /\ reply' = <<h, op, answer>>

Register(h) ==
    /\ data' = [i \in DOMAIN data \cup {h} |->
                   IF i \in DOMAIN data THEN data[i] ELSE EmptyTable]
    /\ UNCHANGED reply

-----------------------------------------------------------------------------
ValueClear(h, mk) ==
    Writes(h, Without(data[h], {SerializeMetakeys(mk)}), "clear", mk)
ValueGet(h, mk) == Reads(h, "get", Lookup(data[h], SerializeMetakeys(mk)))
ValueSet(h, mk, v) ==
    Writes(h, With(data[h], SerializeMetakeys(mk), v),
           "set", Lookup(data[h], SerializeMetakeys(mk)))
ValueFastSet(h, mk, v) ==
    Writes(h, With(data[h], SerializeMetakeys(mk), v), "fast_set", None)

MapClear(h, mk) ==
    Writes(h, Without(data[h], WithPrefix(data[h], SerializeMetakeys(mk))), "clear", mk)
MapGet(h, mk, k) == Reads(h, "get", Lookup(data[h], SerializeMetakeysAndKey(mk, k)))
MapFastInsert(h, mk, k, v) ==
    Writes(h, With(data[h], SerializeMetakeysAndKey(mk, k), v), "fast_insert", None)
MapInsert(h, mk, k, v) ==
    Writes(h, With(data[h], SerializeMetakeysAndKey(mk, k), v),
           "insert", Lookup(data[h], SerializeMetakeysAndKey(mk, k)))
\* One map_fast_insert after the other.
MapInsertAll(h, mk, i, v, j, w) ==
    LET first == With(data[h], SerializeMetakeysAndKey(mk, i), v)
    IN  Writes(h, With(first, SerializeMetakeysAndKey(mk, j), w), "insert_all", None)
MapRemove(h, mk, k) ==
    LET key == SerializeMetakeysAndKey(mk, k)
    IN  Writes(h, Without(data[h], {key}), "remove", Lookup(data[h], key))
MapFastRemove(h, mk, k) ==
    Writes(h, Without(data[h], {SerializeMetakeysAndKey(mk, k)}), "fast_remove", None)
MapContains(h, mk, k) ==
    Reads(h, "contains", SerializeMetakeysAndKey(mk, k) \in DOMAIN data[h])

\* The entries whose key starts with the metakeys, the key read behind them.
Found(h, mk) == WithPrefix(data[h], SerializeMetakeys(mk))
MapIter(h, mk) ==
    Reads(h, "iter", {<<KeyAfter(Len(mk), b), data[h][b]>> : b \in Found(h, mk)})
MapKeys(h, mk) == Reads(h, "keys", {KeyAfter(Len(mk), b) : b \in Found(h, mk)})
MapValues(h, mk) ==
    Reads(h, "values", CountOf({<<b, data[h][b]>> : b \in Found(h, mk)}))
MapLen(h, mk) == Reads(h, "len", Cardinality(Found(h, mk)))
MapIsEmpty(h, mk) == Reads(h, "is_empty", Found(h, mk) = {})

\* entry(key).or_insert_with(Vec::new)
VecAt(h, mk) ==
    IF SerializeMetakeys(mk) \in DOMAIN data[h]
    THEN data[h][SerializeMetakeys(mk)] ELSE <<>>
VecClear(h, mk) ==
    Writes(h, Without(data[h], {SerializeMetakeys(mk)}), "clear", mk)
VecAppend(h, mk, v) ==
    Writes(h, With(data[h], SerializeMetakeys(mk), Append(VecAt(h, mk), v)), "append", None)
VecGet(h, mk) == Reads(h, "get", VecAt(h, mk))
VecIter(h, mk) == Reads(h, "iter", VecAt(h, mk))
VecSet(h, mk, s) == Writes(h, With(data[h], SerializeMetakeys(mk), s), "set", None)
VecAddAll(h, mk, s) ==
    Writes(h, With(data[h], SerializeMetakeys(mk), VecAt(h, mk) \o s), "add_all", None)
VecLen(h, mk) == Reads(h, "len", Len(VecAt(h, mk)))
VecIsEmpty(h, mk) == Reads(h, "is_empty", VecAt(h, mk) = <<>>)

ReducerClear(h, mk) ==
    Writes(h, Without(data[h], {SerializeMetakeys(mk)}), "clear", mk)
ReducerGet(h, mk) == Reads(h, "get", Lookup(data[h], SerializeMetakeys(mk)))
ReducerReduce(h, mk, v) ==
    LET key == SerializeMetakeys(mk)
        old == Lookup(data[h], key)
    IN  Writes(h, With(data[h], key, IF old = None THEN v ELSE Reduce(old, v)),
               "reduce", None)

AccumulatorAt(h, mk) ==
    IF SerializeMetakeys(mk) \in DOMAIN data[h]
    THEN data[h][SerializeMetakeys(mk)] ELSE CreateAccumulator
AggregatorClear(h, mk) ==
    Writes(h, Without(data[h], {SerializeMetakeys(mk)}), "clear", mk)
AggregatorGet(h, mk) == Reads(h, "get", AccumulatorAt(h, mk))
AggregatorAggregate(h, mk, v) ==
    Writes(h, With(data[h], SerializeMetakeys(mk), Add(AccumulatorAt(h, mk), v)),
           "aggregate", None)

-----------------------------------------------------------------------------
ValueOps(h, mk) ==
    \/ ValueClear(h, mk)
    \/ ValueGet(h, mk)
    \/ \E v \in Values : ValueSet(h, mk, v) \/ ValueFastSet(h, mk, v)

MapOps(h, mk) ==
    \/ MapClear(h, mk) \/ MapIter(h, mk) \/ MapKeys(h, mk)
    \/ MapValues(h, mk) \/ MapLen(h, mk) \/ MapIsEmpty(h, mk)
    \/ \E k \in Keys :
         \/ MapGet(h, mk, k) \/ MapContains(h, mk, k)
         \/ MapRemove(h, mk, k) \/ MapFastRemove(h, mk, k)
         \/ \E v \in Values : MapInsert(h, mk, k, v) \/ MapFastInsert(h, mk, k, v)
    \/ \E i, j \in Keys : \E v, w \in Values : MapInsertAll(h, mk, i, v, j, w)

VecOps(h, mk) ==
    \/ VecClear(h, mk) \/ VecGet(h, mk) \/ VecIter(h, mk)
    \/ VecLen(h, mk) \/ VecIsEmpty(h, mk)
    \/ \E v \in Values : Len(VecAt(h, mk)) < MaxLen /\ VecAppend(h, mk, v)
    \/ \E s \in Lists :
         \/ VecSet(h, mk, s)
         \/ Len(VecAt(h, mk) \o s) <= MaxLen /\ VecAddAll(h, mk, s)

ReducerOps(h, mk) ==
    \/ ReducerClear(h, mk)
    \/ ReducerGet(h, mk)
    \/ \E v \in Values : ReducerReduce(h, mk, v)

AggregatorOps(h, mk) ==
    \/ AggregatorClear(h, mk)
    \/ AggregatorGet(h, mk)
    \/ \E v \in Values :
         Len(AccumulatorAt(h, mk)) < MaxAdded /\ AggregatorAggregate(h, mk, v)

\* checkpoint keeps nothing and answers Ok.
Checkpoint == reply' = <<None, "checkpoint", None>> /\ UNCHANGED data

\* The process starts again: restore_or_create finds nothing to restore.
Restart == data' = EmptyTable /\ reply' = <<None, "none", None>>

Step ==
    \/ \E h \in Handles : Registered(h) /\ \E mk \in Metakeys(h) :
         \/ h \in ValueStates /\ ValueOps(h, mk)
         \/ h \in MapStates /\ MapOps(h, mk)
         \/ h \in VecStates /\ VecOps(h, mk)
         \/ h \in ReducerStates /\ ReducerOps(h, mk)
         \/ h \in AggregatorStates /\ AggregatorOps(h, mk)
    \/ Checkpoint
    \/ Restart

-----------------------------------------------------------------------------
\* What an operator can see of the tables, as KeyedState describes it.
ContentIn(tables, h, mk) ==
    LET table == IF h \in DOMAIN tables THEN tables[h] ELSE EmptyTable
    IN  CASE h \in MapStates ->
               [k \in Keys |-> Lookup(table, SerializeMetakeysAndKey(mk, k))]
          [] h \in ValueStates \cup ReducerStates ->
               Lookup(table, SerializeMetakeys(mk))
          [] OTHER -> IF SerializeMetakeys(mk) \in DOMAIN table
                      THEN table[SerializeMetakeys(mk)] ELSE <<>>
=============================================================================
