------------------------------ MODULE SledState ------------------------------
(* The Sled backend (arcon_state/src/sled): one tree of bytes per state id,     *)
(* opened by whatever touches it first; merges are applied at once. With the    *)
(* feature sled_checkpoints a checkpoint is a dump file that restore parses,    *)
(* without it there is none.                                                    *)
EXTENDS StateKeys

CONSTANT SledCheckpoints    \* feature sled_checkpoints

VARIABLES trees,      \* trees[name]: bytes -> bytes, the open trees
          registered, \* the handles whose registered flag is set
          export,     \* SLED_EXPORT of the last checkpoint, as what was written
          reply       \* the last operation and its answer

vars == <<trees, registered, export, reply>>

Init ==
    /\ trees = EmptyTable
    /\ registered = {}
    /\ export = <<>>
    /\ reply = <<None, "none", None>>

\* Sled::tree: open_tree creates a tree that is not there.
Tree(h) == IF h \in DOMAIN trees THEN trees[h] ELSE EmptyTable

Writes(h, table, op, answer) ==
    /\ trees' = With(trees, h, table)
    /\ reply' = <<h, op, answer>>
    /\ UNCHANGED <<registered, export>>
Reads(h, op, answer) == Writes(h, Tree(h), op, answer)

Get(h, key) == Lookup(Tree(h), key)

-----------------------------------------------------------------------------
\* The merge operators: the value there is, or None, and the new operand.
VecMerge(existent, new) ==
    IF existent = None THEN new
    ELSE <<Head(existent) + Head(new)>> \o Tail(existent) \o Tail(new)

ReducerMerge(existent, new) ==
    IF existent = None THEN new
    ELSE Serialize(Reduce(Deserialize(existent), Deserialize(new)))

AggregatorMerge(existent, new) ==
    LET start ==
            IF existent = None THEN CreateAccumulator
            ELSE IF Head(existent) = ACCUMULATOR_MARKER THEN ReadAccumulator(existent)
            ELSE Add(CreateAccumulator, Deserialize(Tail(existent)))
    IN  AccumulatorBytes(
            IF Head(new) = ACCUMULATOR_MARKER
            THEN MergeAccumulators(start, ReadAccumulator(new))
            ELSE Add(start, Deserialize(Tail(new))))

Merge(h, key, operand) ==
    With(Tree(h), key,
         CASE h \in VecStates -> VecMerge(Get(h, key), operand)
           [] h \in ReducerStates -> ReducerMerge(Get(h, key), operand)
           [] h \in AggregatorStates -> AggregatorMerge(Get(h, key), operand))

\* remove_prefix: one batch that removes every key of the scan.
RemovePrefix(h, prefix) == Without(Tree(h), WithPrefix(Tree(h), prefix))

-----------------------------------------------------------------------------
Decoded(bytes) == IF bytes = None THEN None ELSE Deserialize(bytes)

ValueClear(h, mk) ==
    Writes(h, Without(Tree(h), {SerializeMetakeys(mk)}), "clear", mk)
ValueGet(h, mk) == Reads(h, "get", Decoded(Get(h, SerializeMetakeys(mk))))
ValueSet(h, mk, v) ==
    Writes(h, With(Tree(h), SerializeMetakeys(mk), Serialize(v)),
           "set", Decoded(Get(h, SerializeMetakeys(mk))))
ValueFastSet(h, mk, v) ==
    Writes(h, With(Tree(h), SerializeMetakeys(mk), Serialize(v)), "fast_set", None)

MapClear(h, mk) == Writes(h, RemovePrefix(h, SerializeMetakeys(mk)), "clear", mk)
MapGet(h, mk, k) ==
    Reads(h, "get", Decoded(Get(h, SerializeMetakeysAndKey(mk, k))))
MapFastInsert(h, mk, k, v) ==
    Writes(h, With(Tree(h), SerializeMetakeysAndKey(mk, k), Serialize(v)),
           "fast_insert", None)
MapInsert(h, mk, k, v) ==
    LET key == SerializeMetakeysAndKey(mk, k)
    IN  Writes(h, With(Tree(h), key, Serialize(v)), "insert", Decoded(Get(h, key)))
\* One batch.
MapInsertAll(h, mk, i, v, j, w) ==
    LET first == With(Tree(h), SerializeMetakeysAndKey(mk, i), Serialize(v))
    IN  Writes(h, With(first, SerializeMetakeysAndKey(mk, j), Serialize(w)),
               "insert_all", None)
MapRemove(h, mk, k) ==
    LET key == SerializeMetakeysAndKey(mk, k)
    IN  Writes(h, Without(Tree(h), {key}), "remove", Decoded(Get(h, key)))
MapFastRemove(h, mk, k) ==
    Writes(h, Without(Tree(h), {SerializeMetakeysAndKey(mk, k)}), "fast_remove", None)
MapContains(h, mk, k) ==
    Reads(h, "contains", SerializeMetakeysAndKey(mk, k) \in DOMAIN Tree(h))

Found(h, mk) == WithPrefix(Tree(h), SerializeMetakeys(mk))
MapIter(h, mk) ==
    Reads(h, "iter", {<<KeyAfter(Len(mk), b), Deserialize(Get(h, b))>> : b \in Found(h, mk)})
MapKeys(h, mk) == Reads(h, "keys", {KeyAfter(Len(mk), b) : b \in Found(h, mk)})
MapValues(h, mk) ==
    Reads(h, "values", CountOf({<<b, Deserialize(Get(h, b))>> : b \in Found(h, mk)}))
MapLen(h, mk) == Reads(h, "len", Cardinality(Found(h, mk)))
MapIsEmpty(h, mk) == Reads(h, "is_empty", Found(h, mk) = {})

\* vec_get checks the length it read against the items it read.
ReadVec(bytes) ==
    IF bytes = None THEN <<>>
    ELSE IF Len(ReadItems[Tail(bytes)]) = Head(bytes) THEN ReadItems[Tail(bytes)]
    ELSE "assertion failed"
VecLength(bytes) == IF bytes = None THEN 0 ELSE Head(bytes)

VecClear(h, mk) ==
    Writes(h, Without(Tree(h), {SerializeMetakeys(mk)}), "clear", mk)
VecAppend(h, mk, v) ==
    Writes(h, Merge(h, SerializeMetakeys(mk), VecBytes(<<v>>)), "append", None)
VecGet(h, mk) == Reads(h, "get", ReadVec(Get(h, SerializeMetakeys(mk))))
VecIter(h, mk) ==
    LET bytes == Get(h, SerializeMetakeys(mk))
    IN  Reads(h, "iter", IF bytes = None THEN <<>> ELSE ReadItems[Tail(bytes)])
VecSet(h, mk, s) ==
    Writes(h, With(Tree(h), SerializeMetakeys(mk), VecBytes(s)), "set", None)
VecAddAll(h, mk, s) ==
    Writes(h, Merge(h, SerializeMetakeys(mk), VecBytes(s)), "add_all", None)
VecLen(h, mk) == Reads(h, "len", VecLength(Get(h, SerializeMetakeys(mk))))
VecIsEmpty(h, mk) ==
    Reads(h, "is_empty", VecLength(Get(h, SerializeMetakeys(mk))) = 0)

ReducerClear(h, mk) ==
    Writes(h, Without(Tree(h), {SerializeMetakeys(mk)}), "clear", mk)
ReducerGet(h, mk) == Reads(h, "get", Decoded(Get(h, SerializeMetakeys(mk))))
ReducerReduce(h, mk, v) ==
    Writes(h, Merge(h, SerializeMetakeys(mk), Serialize(v)), "reduce", None)

\* aggregator_get asserts that what it reads is an accumulator.
ReadAggregate(bytes) ==
    IF bytes = None THEN CreateAccumulator
    ELSE IF Head(bytes) = ACCUMULATOR_MARKER THEN ReadAccumulator(bytes)
    ELSE "assertion failed"

AggregatorClear(h, mk) ==
    Writes(h, Without(Tree(h), {SerializeMetakeys(mk)}), "clear", mk)
AggregatorGet(h, mk) ==
    Reads(h, "get", ReadAggregate(Get(h, SerializeMetakeys(mk))))
AggregatorAggregate(h, mk, v) ==
    Writes(h, Merge(h, SerializeMetakeys(mk), <<VALUE_MARKER>> \o Serialize(v)),
           "aggregate", None)

-----------------------------------------------------------------------------
\* The merge operators are set on the tree, which that opens.
Register(h) ==
    /\ registered' = registered \cup {h}
    /\ trees' = IF h \in ValueStates \cup MapStates THEN trees
                ELSE With(trees, h, Tree(h))
    /\ UNCHANGED <<export, reply>>

\* The dump: the number of trees, and for each its type, its name, the number
\* of its entries, filled in after them, and each entry as two pieces of bytes.
DumpTree(name, table) ==
    LET keys == SetToSeq(DOMAIN table)
    IN  <<"tree", name, Len(keys)>>
            \o FlattenSeq([i \in 1 .. Len(keys) |-> <<2, keys[i], table[keys[i]]>>])
Dump(ts) ==
    LET names == SetToSeq(DOMAIN ts)
    IN  <<Len(names)>>
            \o FlattenSeq([i \in 1 .. Len(names) |-> DumpTree(names[i], ts[names[i]])])

\* parse_dumped_sled_export, read front to back.
ParseDump(file) ==
    LET start[i \in Nat] ==
            IF i = 1 THEN 2 ELSE start[i - 1] + 3 + 3 * file[start[i - 1] + 2]
        Entries(i) == 1 .. file[start[i] + 2]
        KeyAt(i, j) == file[start[i] + 3 * j + 1]
        TreeAt(i) ==
            [key \in {KeyAt(i, j) : j \in Entries(i)} |->
                file[start[i] + 3 * (CHOOSE j \in Entries(i) : KeyAt(i, j) = key) + 2]]
        Number(name) == CHOOSE i \in 1 .. file[1] : file[start[i] + 1] = name
    IN  [name \in {file[start[i] + 1] : i \in 1 .. file[1]} |-> TreeAt(Number(name))]

Checkpoint ==
    /\ export' = IF SledCheckpoints THEN Dump(trees) ELSE export
    /\ reply' = <<None, "checkpoint", None>>
    /\ UNCHANGED <<trees, registered>>

\* restore_or_create: the live path is removed; a dump is imported if there is one.
Restart ==
    /\ trees' = IF export = <<>> THEN EmptyTable ELSE ParseDump(export)
    /\ registered' = {}
    /\ reply' = <<None, "none", None>>
    /\ UNCHANGED export

-----------------------------------------------------------------------------
ValueOps(h, mk) ==
    \/ ValueClear(h, mk)
    \/ ValueGet(h, mk)
    \/ \E v \in Values : ValueSet(h, mk, v) \/ ValueFastSet(h, mk, v)

MapOps(h, mk) ==
    \/ MapClear(h, mk) \/ MapIter(h, mk) \/ MapKeys(h, mk)
    \/ MapValues(h, mk) \/ MapLen(h, mk) \/ MapIsEmpty(h, mk)
    \/ \E k \in Keys :
         \/ MapGet(h, mk, k) \/ MapContains(h, mk, k)
         \/ MapRemove(h, mk, k) \/ MapFastRemove(h, mk, k)
         \/ \E v \in Values : MapInsert(h, mk, k, v) \/ MapFastInsert(h, mk, k, v)
    \/ \E i, j \in Keys : \E v, w \in Values : MapInsertAll(h, mk, i, v, j, w)

VecOps(h, mk) ==
    LET held == VecLength(Get(h, SerializeMetakeys(mk))) IN
    \/ VecClear(h, mk) \/ VecGet(h, mk) \/ VecIter(h, mk)
    \/ VecLen(h, mk) \/ VecIsEmpty(h, mk)
    \/ \E v \in Values : held < MaxLen /\ VecAppend(h, mk, v)
    \/ \E s \in Lists :
         \/ VecSet(h, mk, s)
         \/ held + Len(s) <= MaxLen /\ VecAddAll(h, mk, s)

ReducerOps(h, mk) ==
    \/ ReducerClear(h, mk)
    \/ ReducerGet(h, mk)
    \/ \E v \in Values : ReducerReduce(h, mk, v)

AggregatorOps(h, mk) ==
    \/ AggregatorClear(h, mk)
    \/ AggregatorGet(h, mk)
    \/ \E v \in Values :
         /\ Len(ReadAggregate(Get(h, SerializeMetakeys(mk)))) < MaxAdded
         /\ AggregatorAggregate(h, mk, v)

Step ==
    \/ \E h \in registered : \E mk \in Metakeys(h) :
         \/ h \in ValueStates /\ ValueOps(h, mk)
         \/ h \in MapStates /\ MapOps(h, mk)
         \/ h \in VecStates /\ VecOps(h, mk)
         \/ h \in ReducerStates /\ ReducerOps(h, mk)
         \/ h \in AggregatorStates /\ AggregatorOps(h, mk)
    \/ Checkpoint
    \/ Restart

-----------------------------------------------------------------------------
ContentIn(ts, h, mk) ==
    LET table == IF h \in DOMAIN ts THEN ts[h] ELSE EmptyTable
        bytes == Lookup(table, SerializeMetakeys(mk))
    IN  CASE h \in MapStates ->
               [k \in Keys |-> Decoded(Lookup(table, SerializeMetakeysAndKey(mk, k)))]
          [] h \in ValueStates \cup ReducerStates -> Decoded(bytes)
          [] h \in VecStates -> ReadVec(bytes)
          [] OTHER -> ReadAggregate(bytes)

Exported == IF export = <<>> THEN EmptyTable ELSE ParseDump(export)
=============================================================================
