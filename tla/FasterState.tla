----------------------------- MODULE FasterState -----------------------------
(* The Faster backend (arcon_state/src/faster): one key space for all states,  *)
(* the state's id being part of the key. Vecs, reducers and aggregators are    *)
(* changed by read-modify-writes that FASTER (external) applies; on a key that *)
(* is not there it stores the modification itself. Maps have a list of their   *)
(* keys beside their entries when the feature slower_faster is on.             *)
EXTENDS StateKeys

CONSTANT SlowerFaster   \* feature slower_faster

VARIABLES db,         \* bytes -> [op, data]: raw bytes, FasterVecOps, FasterAgg
          registered, \* the handles whose registered flag is set
          checkpoint, \* the store of the last checkpoint
          panicked,   \* the process has panicked
          reply       \* the last operation and its answer

vars == <<db, registered, checkpoint, panicked, reply>>

Init ==
    /\ db = EmptyTable
    /\ registered = {}
    /\ checkpoint = EmptyTable
    /\ panicked = FALSE
    /\ reply = <<None, "none", None>>

Rec(op, data) == [op |-> op, data |-> data]

Panics ==
    /\ panicked' = TRUE
    /\ UNCHANGED <<db, registered, checkpoint, reply>>
Writes(h, table, op, answer) ==
    /\ db' = table
    /\ reply' = <<h, op, answer>>
    /\ UNCHANGED <<registered, checkpoint, panicked>>
Reads(h, op, answer) == Writes(h, db, op, answer)

\* get, put and remove of a raw value.
Get(key) == IF key \in DOMAIN db THEN db[key].data ELSE None
Put(table, key, bytes) == With(table, key, Rec("Raw", bytes))

-----------------------------------------------------------------------------
\* FasterVecOps: what is stored, read as a vec; Remove is "always a bug".
IsVec(rec) == rec.op \in {"Value", "Push", "PushIfAbsent"}
AsVec(rec) == IF rec.op = "Value" THEN rec.data ELSE <<rec.data>>

\* A mutant: vec_push instead of vec_push_if_absent.
VecRmwPushing(res, modification) ==
    CASE modification.op = "Value" -> res \o modification.data
      [] modification.op \in {"Push", "PushIfAbsent"} -> Append(res, modification.data)
      [] modification.op = "Remove" -> RemoveFirst(res, modification.data)

VecRmw(res, modification) ==
    CASE modification.op = "Value" -> res \o modification.data
      [] modification.op = "Push" -> Append(res, modification.data)
      [] modification.op = "PushIfAbsent" ->
            IF modification.data \in ToSet(res) THEN res
            ELSE Append(res, modification.data)
      [] modification.op = "Remove" -> RemoveFirst(res, modification.data)

\* FASTER: the modification of an absent key is stored as it is.
RmwVec(table, key, modification) ==
    With(table, key,
         IF key \in DOMAIN table
         THEN Rec("Value", VecRmw(AsVec(table[key]), modification))
         ELSE modification)
CanRmwVec(table, key) == key \in DOMAIN table => IsVec(table[key])

\* get_vec
CanGetVec(key) == key \in DOMAIN db => IsVec(db[key])
GetVec(key) == IF key \in DOMAIN db THEN AsVec(db[key]) ELSE None
ListOf(key) == IF key \in DOMAIN db THEN AsVec(db[key]) ELSE <<>>

\* FasterAgg: the registered function of the handle combines old and new.
ReduceFn(old, new) == Serialize(Reduce(Deserialize(old), Deserialize(new)))
AggregateFn(old, new) ==
    LET acc == IF Head(old) = ACCUMULATOR_MARKER THEN ReadAccumulator(old)
               ELSE Add(CreateAccumulator, Deserialize(Tail(old)))
    IN  AccumulatorBytes(
            IF Head(new) = ACCUMULATOR_MARKER
            THEN MergeAccumulators(acc, ReadAccumulator(new))
            ELSE Add(acc, Deserialize(Tail(new))))

Aggregate(h, key, new) ==
    With(db, key,
         IF key \notin DOMAIN db THEN Rec("Modify", new)
         ELSE Rec("Value", IF h \in ReducerStates THEN ReduceFn(db[key].data, new)
                           ELSE AggregateFn(db[key].data, new)))

-----------------------------------------------------------------------------
Decoded(bytes) == IF bytes = None THEN None ELSE Deserialize(bytes)
Key(h, mk) == SerializeIdAndMetakeys(h, mk)
EntryKey(h, mk, k) == SerializeIdMetakeysAndKey(h, mk, k)

ValueClear(h, mk) == Writes(h, Without(db, {Key(h, mk)}), "clear", mk)
ValueGet(h, mk) == Reads(h, "get", Decoded(Get(Key(h, mk))))
ValueSet(h, mk, v) ==
    Writes(h, Put(db, Key(h, mk), Serialize(v)), "set", Decoded(Get(Key(h, mk))))
ValueFastSet(h, mk, v) ==
    Writes(h, Put(db, Key(h, mk), Serialize(v)), "fast_set", None)

MapGet(h, mk, k) == Reads(h, "get", Decoded(Get(EntryKey(h, mk, k))))
MapContains(h, mk, k) == Reads(h, "contains", Get(EntryKey(h, mk, k)) # None)

\* The entry, and with slower_faster the list of keys, which panics if what is
\* stored for it is no list.
Inserted(table, h, mk, k, v) ==
    LET put == Put(table, EntryKey(h, mk, k), Serialize(v))
    IN  IF SlowerFaster
        THEN RmwVec(put, Key(h, mk), Rec("PushIfAbsent", EntryKey(h, mk, k)))
        ELSE put
ListUsable(h, mk) == SlowerFaster => CanRmwVec(db, Key(h, mk))

MapFastInsert(h, mk, k, v) ==
    IF ListUsable(h, mk)
    THEN Writes(h, Inserted(db, h, mk, k, v), "fast_insert", None)
    ELSE Panics
MapInsert(h, mk, k, v) ==
    IF ListUsable(h, mk)
    THEN Writes(h, Inserted(db, h, mk, k, v), "insert", Decoded(Get(EntryKey(h, mk, k))))
    ELSE Panics
MapInsertAll(h, mk, i, v, j, w) ==
    IF ListUsable(h, mk)
    THEN Writes(h, Inserted(Inserted(db, h, mk, i, v), h, mk, j, w), "insert_all", None)
    ELSE Panics

Removed(h, mk, k) ==
    LET removed == Without(db, {EntryKey(h, mk, k)})
    IN  IF SlowerFaster
        THEN RmwVec(removed, Key(h, mk), Rec("Remove", EntryKey(h, mk, k)))
        ELSE removed
MapRemove(h, mk, k) ==
    IF ListUsable(h, mk)
    THEN Writes(h, Removed(h, mk, k), "remove", Decoded(Get(EntryKey(h, mk, k))))
    ELSE Panics
MapFastRemove(h, mk, k) ==
    IF ListUsable(h, mk) THEN Writes(h, Removed(h, mk, k), "fast_remove", None)
    ELSE Panics

\* What goes over all entries needs the list of keys.
CanScan(h, mk) == SlowerFaster /\ CanGetVec(Key(h, mk))
KeysOf(h, mk) == ToSet(ListOf(Key(h, mk)))

MapClear(h, mk) ==
    IF CanScan(h, mk)
    THEN Writes(h, Without(db, {Key(h, mk)} \cup KeysOf(h, mk)), "clear", mk)
    ELSE Panics
MapIter(h, mk) ==
    IF CanScan(h, mk)
    THEN Reads(h, "iter", {<<KeyAfter(Len(mk) + 1, b), Deserialize(Get(b))>> : b \in KeysOf(h, mk)})
    ELSE Panics
MapKeys(h, mk) ==
    IF CanScan(h, mk)
    THEN Reads(h, "keys", {KeyAfter(Len(mk) + 1, b) : b \in KeysOf(h, mk)})
    ELSE Panics
MapValues(h, mk) ==
    IF CanScan(h, mk)
    THEN Reads(h, "values",
               CountOf({<<i, Deserialize(Get(ListOf(Key(h, mk))[i]))>> :
                           i \in 1 .. Len(ListOf(Key(h, mk)))}))
    ELSE Panics
MapLen(h, mk) ==
    IF CanScan(h, mk) THEN Reads(h, "len", Len(ListOf(Key(h, mk)))) ELSE Panics
MapIsEmpty(h, mk) ==
    IF CanScan(h, mk) THEN Reads(h, "is_empty", ListOf(Key(h, mk)) = <<>>) ELSE Panics

Items(h, mk) ==
    LET list == ListOf(Key(h, mk)) IN [i \in 1 .. Len(list) |-> Deserialize(list[i])]
Encoded(s) == [i \in 1 .. Len(s) |-> Serialize(s[i])]

VecClear(h, mk) == Writes(h, Without(db, {Key(h, mk)}), "clear", mk)
VecAppend(h, mk, v) ==
    Writes(h, RmwVec(db, Key(h, mk), Rec("Push", Serialize(v))), "append", None)
VecGet(h, mk) == Reads(h, "get", Items(h, mk))
VecIter(h, mk) == Reads(h, "iter", Items(h, mk))
VecSet(h, mk, s) ==
    Writes(h, With(db, Key(h, mk), Rec("Value", Encoded(s))), "set", None)
VecAddAll(h, mk, s) ==
    Writes(h, RmwVec(db, Key(h, mk), Rec("Value", Encoded(s))), "add_all", None)
VecLen(h, mk) == Reads(h, "len", Len(ListOf(Key(h, mk))))
VecIsEmpty(h, mk) == Reads(h, "is_empty", ListOf(Key(h, mk)) = <<>>)

ReducerClear(h, mk) == Writes(h, Without(db, {Key(h, mk)}), "clear", mk)
ReducerGet(h, mk) == Reads(h, "get", Decoded(Get(Key(h, mk))))
ReducerReduce(h, mk, v) ==
    Writes(h, Aggregate(h, Key(h, mk), Serialize(v)), "reduce", None)

AggregatorClear(h, mk) == Writes(h, Without(db, {Key(h, mk)}), "clear", mk)
\* aggregator_get asserts that what it reads is an accumulator.
AggregatorGet(h, mk) ==
    LET stored == Get(Key(h, mk)) IN
    IF stored = None THEN Reads(h, "get", CreateAccumulator)
    ELSE IF Head(stored) = ACCUMULATOR_MARKER
    THEN Reads(h, "get", ReadAccumulator(stored))
    ELSE Panics
AggregatorAggregate(h, mk, v) ==
    Writes(h, Aggregate(h, Key(h, mk), <<VALUE_MARKER>> \o Serialize(v)), "aggregate", None)

-----------------------------------------------------------------------------
\* Sets the flag and, for reducers and aggregators, aggregate_fns.
Register(h) ==
    /\ ~ panicked
    /\ registered' = registered \cup {h}
    /\ UNCHANGED <<db, checkpoint, panicked, reply>>

Checkpoint ==
    /\ checkpoint' = db
    /\ reply' = <<None, "checkpoint", None>>
    /\ UNCHANGED <<db, registered, panicked>>

\* The process ends, at any point; restore_or_create recovers the checkpoint.
Restart ==
    /\ db' = checkpoint
    /\ registered' = {}
    /\ panicked' = FALSE
    /\ reply' = <<None, "none", None>>
    /\ UNCHANGED checkpoint

ValueOps(h, mk) ==
    \/ ValueClear(h, mk)
    \/ ValueGet(h, mk)
    \/ \E v \in Values : ValueSet(h, mk, v) \/ ValueFastSet(h, mk, v)

MapOps(h, mk) ==
    \/ MapClear(h, mk) \/ MapIter(h, mk) \/ MapKeys(h, mk)
    \/ MapValues(h, mk) \/ MapLen(h, mk) \/ MapIsEmpty(h, mk)
    \/ \E k \in Keys :
         \/ MapGet(h, mk, k) \/ MapContains(h, mk, k)
         \/ MapRemove(h, mk, k) \/ MapFastRemove(h, mk, k)
         \/ \E v \in Values : MapInsert(h, mk, k, v) \/ MapFastInsert(h, mk, k, v)
    \/ \E i, j \in Keys : \E v, w \in Values : MapInsertAll(h, mk, i, v, j, w)

VecOps(h, mk) ==
    LET held == Len(ListOf(Key(h, mk))) IN
    \/ VecClear(h, mk) \/ VecGet(h, mk) \/ VecIter(h, mk)
    \/ VecLen(h, mk) \/ VecIsEmpty(h, mk)
    \/ \E v \in Values : held < MaxLen /\ VecAppend(h, mk, v)
    \/ \E s \in Lists :
         \/ VecSet(h, mk, s)
         \/ held + Len(s) <= MaxLen /\ VecAddAll(h, mk, s)

ReducerOps(h, mk) ==
    \/ ReducerClear(h, mk)
    \/ ReducerGet(h, mk)
    \/ \E v \in Values : ReducerReduce(h, mk, v)

\* What a stored aggregate stands for: a modification adds one value.
AccumulatorOf(rec) ==
    IF Head(rec.data) = ACCUMULATOR_MARKER THEN ReadAccumulator(rec.data)
    ELSE Add(CreateAccumulator, Deserialize(Tail(rec.data)))
Aggregated(table, key) ==
    IF key \in DOMAIN table THEN AccumulatorOf(table[key]) ELSE CreateAccumulator

AggregatorOps(h, mk) ==
    \/ AggregatorClear(h, mk)
    \/ AggregatorGet(h, mk)
    \/ \E v \in Values :
         /\ Len(Aggregated(db, Key(h, mk))) < MaxAdded
         /\ AggregatorAggregate(h, mk, v)

Step ==
    \/ ~ panicked /\ \E h \in registered : \E mk \in Metakeys(h) :
         \/ h \in ValueStates /\ ValueOps(h, mk)
         \/ h \in MapStates /\ MapOps(h, mk)
         \/ h \in VecStates /\ VecOps(h, mk)
         \/ h \in ReducerStates /\ ReducerOps(h, mk)
         \/ h \in AggregatorStates /\ AggregatorOps(h, mk)
    \/ ~ panicked /\ Checkpoint
    \/ Restart

-----------------------------------------------------------------------------
ContentIn(table, h, mk) ==
    LET key == Key(h, mk)
        raw(b) == IF b \in DOMAIN table THEN Deserialize(table[b].data) ELSE None
    IN  CASE h \in MapStates -> [k \in Keys |-> raw(EntryKey(h, mk, k))]
          [] h \in ValueStates \cup ReducerStates -> raw(key)
          [] h \in VecStates ->
               LET list == IF key \in DOMAIN table THEN AsVec(table[key]) ELSE <<>>
               IN  [i \in 1 .. Len(list) |-> Deserialize(list[i])]
          [] OTHER -> Aggregated(table, key)

\* With slower_faster a map's entries and its list of keys never diverge: the
\* list names each entry once and nothing else (map_insert, map_remove,
\* vec_push_if_absent).
ListNamesEntries ==
    SlowerFaster => \A h \in MapStates : \A mk \in Metakeys(h) :
        CanGetVec(Key(h, mk)) =>
            /\ KeysOf(h, mk) = {EntryKey(h, mk, k) : k \in Keys} \cap DOMAIN db
            /\ Len(ListOf(Key(h, mk))) = Cardinality(KeysOf(h, mk))
=============================================================================
