----------------------------- MODULE RocksState -----------------------------
(* The Rocks backend (arcon_state/src/rocks): one column family per state id  *)
(* and bytes in it. A vec append, a reduce and an aggregate only write a      *)
(* merge operand; RocksDB (external) merges operands when it likes, on a read *)
(* at the latest. After a restore the database stays closed until the handles *)
(* of all the column families it has are registered.                          *)
EXTENDS StateKeys

CONSTANTS
    MaxOperands,      \* bound: unmerged operands under one key
    OverflowChecks    \* whether the build panics on integer overflow

VARIABLES db,         \* db[cf]: bytes -> [base, ops], what the live path has
          inner,      \* the backend's state: its kind, unknown_cfs, known_cfs
          checkpoint, \* the column families of the last checkpoint
          reply       \* the last operation and its answer

vars == <<db, inner, checkpoint, reply>>

InitializedInner ==
    [kind |-> "Initialized", unknown_cfs |-> {}, known_cfs |-> {}]

\* Rocks::create on a directory that has the column families of `cfs'.
Created(cfs) ==
    IF cfs = {} THEN InitializedInner
    ELSE [kind |-> "Uninitialized", unknown_cfs |-> cfs, known_cfs |-> {}]

Init ==
    /\ db = EmptyTable
    /\ inner = Created({})
    /\ checkpoint = EmptyTable
    /\ reply = <<None, "none", None>>

IsInitialized == inner.kind = "Initialized"

\* The handles registered since the process started: their registered flag.
Registered ==
    IF IsInitialized THEN DOMAIN db ELSE inner.known_cfs

Panic == inner' = [inner EXCEPT !.kind = "Panicked"]

Reads(h, op, answer) == reply' = <<h, op, answer>> /\ UNCHANGED <<db, inner, checkpoint>>
Writes(h, table, op, answer) ==
    /\ db' = [db EXCEPT ![h] = table]
    /\ reply' = <<h, op, answer>>
    /\ UNCHANGED <<inner, checkpoint>>

-----------------------------------------------------------------------------
\* vec_merge: the lengths are added up, the items joined in order.
VecMerge(operands) ==
    <<FoldLeft(LAMBDA len, op : len + Head(op), 0, operands)>>
        \o FlattenSeq([i \in 1 .. Len(operands) |-> Tail(operands[i])])

ReducerMerge(operands) ==
    Serialize(FoldLeft(LAMBDA acc, op : Reduce(acc, Deserialize(op)),
                       Deserialize(Head(operands)), Tail(operands)))

\* A mutant: an accumulator met after the first operand replaces the result.
AggregatorMergeReplacing(operands) ==
    LET Step(acc, op) ==
            IF Head(op) = ACCUMULATOR_MARKER THEN ReadAccumulator(op)
            ELSE Add(acc, Deserialize(Tail(op)))
    IN  AccumulatorBytes(FoldLeft(Step, CreateAccumulator, operands))

AggregatorMerge(operands) ==
    LET First(op) ==
            IF Head(op) = ACCUMULATOR_MARKER THEN ReadAccumulator(op)
            ELSE Add(CreateAccumulator, Deserialize(Tail(op)))
        Step(acc, op) ==
            IF Head(op) = ACCUMULATOR_MARKER
            THEN MergeAccumulators(acc, ReadAccumulator(op))
            ELSE Add(acc, Deserialize(Tail(op)))
    IN  AccumulatorBytes(FoldLeft(Step, First(Head(operands)), Tail(operands)))

\* The merge operator register_*_handle sets for the column family.
MergeOperator(h, operands) ==
    CASE h \in VecStates -> VecMerge(operands)
      [] h \in ReducerStates -> ReducerMerge(operands)
      [] h \in AggregatorStates -> AggregatorMerge(operands)

\* RocksDB's entries: a full value, or None, and the operands after it.
Put(table, key, value) == With(table, key, [base |-> value, ops |-> <<>>])
Merge(table, key, operand) ==
    With(table, key,
         IF key \in DOMAIN table
         THEN [table[key] EXCEPT !.ops = Append(@, operand)]
         ELSE [base |-> None, ops |-> <<operand>>])
FullMerge(h, entry) ==
    IF entry.ops = <<>> THEN entry.base
    ELSE IF entry.base = None THEN MergeOperator(h, entry.ops)
    ELSE MergeOperator(h, <<entry.base>> \o entry.ops)

GetFrom(table, h, key) ==
    IF key \in DOMAIN table THEN FullMerge(h, table[key]) ELSE None
Get(h, key) == GetFrom(db[h], h, key)

\* The order of the keys of a column family.
Below(s, t) ==
    \/ IsStrictPrefix(s, t)
    \/ \E i \in 1 .. Len(s) : /\ i <= Len(t)
                              /\ s[i] < t[i]
                              /\ SubSeq(s, 1, i - 1) = SubSeq(t, 1, i - 1)

\* A mutant: the range has no end.
RemoveFrom(table, prefix) ==
    Without(table, {k \in DOMAIN table : ~ Below(k, prefix)})

\* remove_prefix: an empty prefix drops the column family and creates it again;
\* otherwise the range up to the prefix with its last byte incremented goes.
PrefixEnd(prefix) ==
    [prefix EXCEPT ![Len(prefix)] = (@ + 1) % (U8Max + 1)]
RemovePrefix(table, prefix) ==
    IF prefix = <<>> THEN EmptyTable
    ELSE Without(table, {k \in DOMAIN table :
                            ~ Below(k, prefix) /\ Below(k, PrefixEnd(prefix))})

-----------------------------------------------------------------------------
Decoded(bytes) == IF bytes = None THEN None ELSE Deserialize(bytes)

ValueClear(h, mk) ==
    Writes(h, Without(db[h], {SerializeMetakeys(mk)}), "clear", mk)
ValueGet(h, mk) == Reads(h, "get", Decoded(Get(h, SerializeMetakeys(mk))))
ValueSet(h, mk, v) ==
    Writes(h, Put(db[h], SerializeMetakeys(mk), Serialize(v)),
           "set", Decoded(Get(h, SerializeMetakeys(mk))))
ValueFastSet(h, mk, v) ==
    Writes(h, Put(db[h], SerializeMetakeys(mk), Serialize(v)), "fast_set", None)

MapClear(h, mk) ==
    LET prefix == SerializeMetakeys(mk) IN
    IF OverflowChecks /\ prefix # <<>> /\ Last(prefix) = U8Max
    THEN Panic /\ UNCHANGED <<db, checkpoint, reply>>
    ELSE Writes(h, RemovePrefix(db[h], prefix), "clear", mk)
MapGet(h, mk, k) ==
    Reads(h, "get", Decoded(Get(h, SerializeMetakeysAndKey(mk, k))))
MapFastInsert(h, mk, k, v) ==
    Writes(h, Put(db[h], SerializeMetakeysAndKey(mk, k), Serialize(v)),
           "fast_insert", None)
MapInsert(h, mk, k, v) ==
    LET key == SerializeMetakeysAndKey(mk, k)
    IN  Writes(h, Put(db[h], key, Serialize(v)), "insert", Decoded(Get(h, key)))
\* One write batch.
MapInsertAll(h, mk, i, v, j, w) ==
    LET first == Put(db[h], SerializeMetakeysAndKey(mk, i), Serialize(v))
    IN  Writes(h, Put(first, SerializeMetakeysAndKey(mk, j), Serialize(w)),
               "insert_all", None)
MapRemove(h, mk, k) ==
    LET key == SerializeMetakeysAndKey(mk, k)
    IN  Writes(h, Without(db[h], {key}), "remove", Decoded(Get(h, key)))
MapFastRemove(h, mk, k) ==
    Writes(h, Without(db[h], {SerializeMetakeysAndKey(mk, k)}), "fast_remove", None)
MapContains(h, mk, k) ==
    Reads(h, "contains", Get(h, SerializeMetakeysAndKey(mk, k)) # None)

\* prefix_iterator_cf: the keys with the prefix of the metakeys' size.
Found(h, mk) == WithPrefix(db[h], SerializeMetakeys(mk))
MapIter(h, mk) ==
    Reads(h, "iter", {<<KeyAfter(Len(mk), b), Deserialize(Get(h, b))>> : b \in Found(h, mk)})
MapKeys(h, mk) == Reads(h, "keys", {KeyAfter(Len(mk), b) : b \in Found(h, mk)})
MapValues(h, mk) ==
    Reads(h, "values", CountOf({<<b, Deserialize(Get(h, b))>> : b \in Found(h, mk)}))
MapLen(h, mk) == Reads(h, "len", Cardinality(Found(h, mk)))
MapIsEmpty(h, mk) == Reads(h, "is_empty", Found(h, mk) = {})

\* vec_get checks the length it read against the items it read.
ReadVec(bytes) ==
    IF bytes = None THEN <<>>
    ELSE IF Len(ReadItems[Tail(bytes)]) = Head(bytes) THEN ReadItems[Tail(bytes)]
    ELSE "assertion failed"
VecLength(bytes) == IF bytes = None THEN 0 ELSE Head(bytes)

VecClear(h, mk) ==
    Writes(h, Without(db[h], {SerializeMetakeys(mk)}), "clear", mk)
VecAppend(h, mk, v) ==
    Writes(h, Merge(db[h], SerializeMetakeys(mk), VecBytes(<<v>>)), "append", None)
VecGet(h, mk) == Reads(h, "get", ReadVec(Get(h, SerializeMetakeys(mk))))
VecIter(h, mk) ==
    LET bytes == Get(h, SerializeMetakeys(mk))
    IN  Reads(h, "iter", IF bytes = None THEN <<>> ELSE ReadItems[Tail(bytes)])
VecSet(h, mk, s) ==
    Writes(h, Put(db[h], SerializeMetakeys(mk), VecBytes(s)), "set", None)
VecAddAll(h, mk, s) ==
    Writes(h, Merge(db[h], SerializeMetakeys(mk), VecBytes(s)), "add_all", None)
VecLen(h, mk) == Reads(h, "len", VecLength(Get(h, SerializeMetakeys(mk))))
VecIsEmpty(h, mk) ==
    Reads(h, "is_empty", VecLength(Get(h, SerializeMetakeys(mk))) = 0)

ReducerClear(h, mk) ==
    Writes(h, Without(db[h], {SerializeMetakeys(mk)}), "clear", mk)
ReducerGet(h, mk) == Reads(h, "get", Decoded(Get(h, SerializeMetakeys(mk))))
ReducerReduce(h, mk, v) ==
    Writes(h, Merge(db[h], SerializeMetakeys(mk), Serialize(v)), "reduce", None)

\* aggregator_get asserts that what it reads is an accumulator.
ReadAggregate(bytes) ==
    IF bytes = None THEN CreateAccumulator
    ELSE IF Head(bytes) = ACCUMULATOR_MARKER THEN ReadAccumulator(bytes)
    ELSE "assertion failed"

AggregatorClear(h, mk) ==
    Writes(h, Without(db[h], {SerializeMetakeys(mk)}), "clear", mk)
AggregatorGet(h, mk) ==
    Reads(h, "get", ReadAggregate(Get(h, SerializeMetakeys(mk))))
AggregatorAggregate(h, mk, v) ==
    Writes(h, Merge(db[h], SerializeMetakeys(mk), <<VALUE_MARKER>> \o Serialize(v)),
           "aggregate", None)

-----------------------------------------------------------------------------
\* Mutants: the database is opened with the first handle; it is never opened.
RegisterEagerly(h) ==
    /\ inner.kind # "Panicked"
    /\ h \notin Registered
    /\ IF IsInitialized THEN db' = With(db, h, EmptyTable) /\ UNCHANGED inner
       ELSE IF inner.known_cfs \cup {h} = DOMAIN db
       THEN inner' = InitializedInner /\ UNCHANGED db
       ELSE Panic /\ UNCHANGED db
    /\ UNCHANGED <<checkpoint, reply>>
RegisterWithoutOpening(h) ==
    /\ inner.kind # "Panicked"
    /\ h \notin Registered
    /\ IF IsInitialized THEN db' = With(db, h, EmptyTable) /\ UNCHANGED inner
       ELSE /\ inner' = [kind |-> "Uninitialized", known_cfs |-> inner.known_cfs \cup {h},
                         unknown_cfs |-> inner.unknown_cfs \ {h}]
            /\ UNCHANGED db
    /\ UNCHANGED <<checkpoint, reply>>

\* register_*_handle: creates the column family, or, while the database is not
\* open, strikes it from the unknown ones and opens it when none is left. The
\* database is opened with exactly the column families it has.
Register(h) ==
    /\ inner.kind # "Panicked"
    /\ h \notin Registered
    /\ LET unknown == inner.unknown_cfs \ {h}
           known == inner.known_cfs \cup {h}
       IN  \/ /\ IsInitialized
              /\ db' = With(db, h, EmptyTable)
              /\ UNCHANGED inner
           \/ /\ ~ IsInitialized /\ unknown # {}
              /\ inner' = [kind |-> "Uninitialized", unknown_cfs |-> unknown,
                           known_cfs |-> known]
              /\ UNCHANGED db
           \/ /\ ~ IsInitialized /\ unknown = {} /\ known = DOMAIN db
              /\ inner' = InitializedInner
              /\ UNCHANGED db
           \/ /\ ~ IsInitialized /\ unknown = {} /\ known # DOMAIN db
              /\ Panic
              /\ UNCHANGED db
    /\ UNCHANGED <<checkpoint, reply>>

\* initialized()? and initialized_mut()? of every operation.
Refused(h) ==
    /\ inner.kind = "Uninitialized"
    /\ h \in Registered
    /\ reply' = <<h, "error", None>>
    /\ UNCHANGED <<db, inner, checkpoint>>

\* RocksDB, external: operands are merged in the background.
PartialMerge(h, key, i) ==
    /\ i < Len(db[h][key].ops)
    /\ LET ops == db[h][key].ops
           merged == MergeOperator(h, SubSeq(ops, i, i + 1))
       IN  db' = [db EXCEPT ![h][key].ops =
                     SubSeq(ops, 1, i - 1) \o <<merged>> \o SubSeq(ops, i + 2, Len(ops))]
    /\ UNCHANGED <<inner, checkpoint, reply>>

Compact(h, key) ==
    /\ db[h][key].ops # <<>>
    /\ db' = [db EXCEPT ![h][key] = [base |-> Get(h, key), ops |-> <<>>]]
    /\ UNCHANGED <<inner, checkpoint, reply>>

\* Rocks::checkpoint; an error while the database is not open.
Checkpoint ==
    /\ IsInitialized
    /\ checkpoint' = db
    /\ reply' = <<None, "checkpoint", None>>
    /\ UNCHANGED <<db, inner>>

\* The process ends, at any point, and restore_or_create starts the next one:
\* the live path is removed and the checkpoint's files copied there.
Restart ==
    /\ db' = checkpoint
    /\ inner' = Created(DOMAIN checkpoint)
    /\ reply' = <<None, "none", None>>
    /\ UNCHANGED checkpoint

-----------------------------------------------------------------------------
CanMerge(h, mk) ==
    SerializeMetakeys(mk) \in DOMAIN db[h]
        => Len(db[h][SerializeMetakeys(mk)].ops) < MaxOperands

ValueOps(h, mk) ==
    \/ ValueClear(h, mk)
    \/ ValueGet(h, mk)
    \/ \E v \in Values : ValueSet(h, mk, v) \/ ValueFastSet(h, mk, v)

MapOps(h, mk) ==
    \/ MapClear(h, mk) \/ MapIter(h, mk) \/ MapKeys(h, mk)
    \/ MapValues(h, mk) \/ MapLen(h, mk) \/ MapIsEmpty(h, mk)
    \/ \E k \in Keys :
         \/ MapGet(h, mk, k) \/ MapContains(h, mk, k)
         \/ MapRemove(h, mk, k) \/ MapFastRemove(h, mk, k)
         \/ \E v \in Values : MapInsert(h, mk, k, v) \/ MapFastInsert(h, mk, k, v)
    \/ \E i, j \in Keys : \E v, w \in Values : MapInsertAll(h, mk, i, v, j, w)

VecOps(h, mk) ==
    LET held == VecLength(Get(h, SerializeMetakeys(mk))) IN
    \/ VecClear(h, mk) \/ VecGet(h, mk) \/ VecIter(h, mk)
    \/ VecLen(h, mk) \/ VecIsEmpty(h, mk)
    \/ \E v \in Values : CanMerge(h, mk) /\ held < MaxLen /\ VecAppend(h, mk, v)
    \/ \E s \in Lists :
         \/ VecSet(h, mk, s)
         \/ CanMerge(h, mk) /\ held + Len(s) <= MaxLen /\ VecAddAll(h, mk, s)

ReducerOps(h, mk) ==
    \/ ReducerClear(h, mk)
    \/ ReducerGet(h, mk)
    \/ \E v \in Values : CanMerge(h, mk) /\ ReducerReduce(h, mk, v)

AggregatorOps(h, mk) ==
    \/ AggregatorClear(h, mk)
    \/ AggregatorGet(h, mk)
    \/ \E v \in Values :
         /\ CanMerge(h, mk)
         /\ Len(ReadAggregate(Get(h, SerializeMetakeys(mk)))) < MaxAdded
         /\ AggregatorAggregate(h, mk, v)

Step ==
    \/ IsInitialized /\ \E h \in Registered : \E mk \in Metakeys(h) :
         \/ h \in ValueStates /\ ValueOps(h, mk)
         \/ h \in MapStates /\ MapOps(h, mk)
         \/ h \in VecStates /\ VecOps(h, mk)
         \/ h \in ReducerStates /\ ReducerOps(h, mk)
         \/ h \in AggregatorStates /\ AggregatorOps(h, mk)
    \/ \E h \in Handles : Refused(h)
    \/ IsInitialized /\ \E h \in DOMAIN db : \E key \in DOMAIN db[h] :
         \/ Compact(h, key)
         \/ \E i \in 1 .. MaxOperands : PartialMerge(h, key, i)
    \/ Checkpoint
    \/ Restart

-----------------------------------------------------------------------------
\* What an operator can see of a column family, as KeyedState describes it.
ContentIn(cfs, h, mk) ==
    LET table == IF h \in DOMAIN cfs THEN cfs[h] ELSE EmptyTable
        bytes == GetFrom(table, h, SerializeMetakeys(mk))
    IN  CASE h \in MapStates ->
               [k \in Keys |-> Decoded(GetFrom(table, h, SerializeMetakeysAndKey(mk, k)))]
          [] h \in ValueStates \cup ReducerStates -> Decoded(bytes)
          [] h \in VecStates -> ReadVec(bytes)
          [] OTHER -> ReadAggregate(bytes)
=============================================================================
