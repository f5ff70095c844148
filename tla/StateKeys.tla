----------------------------- MODULE StateKeys -----------------------------
(* The state handles of arcon_state and the bytes their keys and values are   *)
(* stored under (arcon_state/src/handles.rs, serialization.rs), shared by the *)
(* models of the state backends.                                              *)
EXTENDS Naturals, FiniteSets, SequencesExt

CONSTANTS
    ValueStates, MapStates, VecStates, ReducerStates, AggregatorStates,
                      \* the handles of each state type, by their id
    UnitStates,       \* the handles whose item key and namespace are ()
    ItemKeys,         \* item keys, u8
    Namespaces,       \* namespaces, u8
    MaxKey,           \* bound: the keys of a map are 0 .. MaxKey
    MaxValue,         \* bound: values are 0 .. MaxValue
    MaxLen,           \* bound: the items of a vec
    MaxAdded,         \* bound: the values of an accumulator
    None              \* Option::None

U8Max == 255

Handles ==
    ValueStates \cup MapStates \cup VecStates \cup ReducerStates
        \cup AggregatorStates

ASSUME KeysAssumption ==
    /\ ItemKeys \subseteq 0 .. U8Max
    /\ Namespaces \subseteq 0 .. U8Max
    /\ MaxKey \in 0 .. U8Max
    /\ MaxValue \in 0 .. U8Max
    /\ MaxLen \in Nat /\ MaxAdded \in Nat
    /\ UnitStates \subseteq Handles
    /\ None \notin Nat /\ None \notin Seq(Nat)
\* An id names one state, and that has one type.
ASSUME IdsAssumption ==
    /\ MapStates \cap (ValueStates \cup VecStates \cup ReducerStates
                            \cup AggregatorStates) = {}
    /\ ValueStates \cap (VecStates \cup ReducerStates \cup AggregatorStates) = {}
    /\ VecStates \cap (ReducerStates \cup AggregatorStates) = {}
    /\ ReducerStates \cap AggregatorStates = {}

Keys == 0 .. MaxKey
Values == 0 .. MaxValue
Lists == BoundedSeq(Values, MaxLen)

\* What set_item_key and set_namespace may put into the handle's cells.
Metakeys(h) ==
    IF h \in UnitStates THEN {<<>>} ELSE ItemKeys \X Namespaces

-----------------------------------------------------------------------------
\* prost writes nothing for a field that has its default value.
Payload(n) == IF n = 0 THEN <<>> ELSE <<n>>

\* protobuf::serialize is length-delimited; a reader is left behind the value.
Serialize(n) == <<Len(Payload(n))>> \o Payload(n)
Deserialize(bytes) == IF Head(bytes) = 0 THEN 0 ELSE bytes[2]
Unread(bytes) == SubSeq(bytes, Head(bytes) + 2, Len(bytes))

\* A vec is kept as its length (a usize) and its items, read to the end.
VecBytes(s) == <<Len(s)>> \o FlattenSeq([i \in 1 .. Len(s) |-> Serialize(s[i])])
ReadItems[bytes \in Seq(Nat)] ==
    IF bytes = <<>> THEN <<>>
    ELSE <<Deserialize(bytes)>> \o ReadItems[Unread(bytes)]

\* Accumulators are length-delimited too; a marker tells them from values.
ACCUMULATOR_MARKER == 172
VALUE_MARKER == 0
AccumulatorBytes(acc) == <<ACCUMULATOR_MARKER, Len(acc)>> \o acc
ReadAccumulator(bytes) == SubSeq(bytes, 3, Len(bytes))

\* fixed_bytes: an integer is written as its size_of bytes; the metakeys are u8.
FixedBytes(n) == <<n>>
\* The bytes of the item key and the namespace; () has none.
SerializeMetakeys(mk) ==
    IF mk = <<>> THEN <<>> ELSE FixedBytes(mk[1]) \o FixedBytes(mk[2])
SerializeMetakeysAndKey(mk, k) == SerializeMetakeys(mk) \o Serialize(k)
SerializeIdAndMetakeys(h, mk) == <<h>> \o SerializeMetakeys(mk)
SerializeIdMetakeysAndKey(h, mk, k) == SerializeIdAndMetakeys(h, mk) \o Serialize(k)

\* The user's key: what follows the metakeys in the key of a map's entry.
KeyAfter(size, bytes) == Deserialize(SubSeq(bytes, size + 1, Len(bytes)))

\* The reducer and the aggregator of the backends' common tests.
Reduce(old, new) == IF old >= new THEN old ELSE new
CreateAccumulator == <<>>
Add(acc, value) == Append(acc, value)
MergeAccumulators(fst, snd) == fst \o snd

-----------------------------------------------------------------------------
\* Tables of a backend: partial functions from bytes.
Lookup(table, key) == IF key \in DOMAIN table THEN table[key] ELSE None
With(table, key, value) ==
    [k \in DOMAIN table \cup {key} |-> IF k = key THEN value ELSE table[k]]
Without(table, keys) == [k \in DOMAIN table \ keys |-> table[k]]
WithPrefix(table, prefix) == {k \in DOMAIN table : IsPrefix(prefix, k)}
EmptyTable == [k \in {} |-> None]

\* How often each value is yielded by an iteration over `entries'.
CountOf(entries) ==
    [v \in Values |-> Cardinality({e \in entries : e[2] = v})]
=============================================================================
