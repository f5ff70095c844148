----------------------------- MODULE KeyedState -----------------------------
(* What a state backend promises an operator: every state handle has, for     *)
(* each item key and namespace, contents of its own; an operation works on    *)
(* the contents of the current item key and namespace only and answers from   *)
(* them; a checkpoint keeps the contents and a restart brings them back.      *)
(* The operations are the ones of ActiveHandle (arcon_state/src/handles.rs).  *)
EXTENDS StateKeys

VARIABLES content,    \* content[h][mk], for the states the operator has
          saved,      \* the contents of the last checkpoint
          durable,    \* whether checkpoints are kept at all
          reply       \* the last operation and its answer

vars == <<content, saved, durable, reply>>

Nothing(h) ==
    CASE h \in ValueStates \cup ReducerStates -> None
      [] h \in MapStates -> [k \in Keys |-> None]
      [] OTHER -> <<>>

Fresh(states) == [h \in states |-> [mk \in Metakeys(h) |-> Nothing(h)]]

Init ==
    /\ content \in {Fresh(states) : states \in SUBSET Handles}
    /\ saved = content
    /\ durable \in BOOLEAN
    /\ reply = <<None, "none", None>>

Reads(h, op, answer) ==
    /\ reply' = <<h, op, answer>>
    /\ UNCHANGED <<content, saved, durable>>

Writes(h, mk, new, op, answer) ==
    /\ reply' = <<h, op, answer>>
    /\ content' = [content EXCEPT ![h][mk] = new]
    /\ UNCHANGED <<saved, durable>>

Clear(h, mk) == Writes(h, mk, Nothing(h), "clear", mk)

\* A backend that is not ready yet returns an error and changes nothing.
Refuse(h) == Reads(h, "error", None)

Value(h, mk) ==
    LET c == content[h][mk] IN
    \/ Reads(h, "get", c)
    \/ \E v \in Values : Writes(h, mk, v, "set", c)
    \/ \E v \in Values : Writes(h, mk, v, "fast_set", None)

Map(h, mk) ==
    LET c == content[h][mk]
        entries == {<<k, c[k]>> : k \in {k \in Keys : c[k] # None}}
    IN  \/ \E k \in Keys :
             \/ Reads(h, "get", c[k])
             \/ Reads(h, "contains", c[k] # None)
             \/ Writes(h, mk, [c EXCEPT ![k] = None], "remove", c[k])
             \/ Writes(h, mk, [c EXCEPT ![k] = None], "fast_remove", None)
             \/ \E v \in Values :
                  \/ Writes(h, mk, [c EXCEPT ![k] = v], "insert", c[k])
                  \/ Writes(h, mk, [c EXCEPT ![k] = v], "fast_insert", None)
        \/ \E i, j \in Keys : \E v, w \in Values :
             Writes(h, mk, [[c EXCEPT ![i] = v] EXCEPT ![j] = w], "insert_all", None)
        \/ Reads(h, "iter", entries)
        \/ Reads(h, "keys", {e[1] : e \in entries})
        \/ Reads(h, "values", CountOf(entries))
        \/ Reads(h, "len", Cardinality(entries))
        \/ Reads(h, "is_empty", entries = {})

Vec(h, mk) ==
    LET c == content[h][mk] IN
    \/ \E v \in Values : Writes(h, mk, Append(c, v), "append", None)
    \/ \E s \in Lists : Writes(h, mk, s, "set", None)
    \/ \E s \in Lists : Writes(h, mk, c \o s, "add_all", None)
    \/ Reads(h, "get", c)
    \/ Reads(h, "iter", c)
    \/ Reads(h, "len", Len(c))
    \/ Reads(h, "is_empty", c = <<>>)

Reducer(h, mk) ==
    LET c == content[h][mk] IN
    \/ Reads(h, "get", c)
    \/ \E v \in Values :
         Writes(h, mk, IF c = None THEN v ELSE Reduce(c, v), "reduce", None)

Aggregator(h, mk) ==
    LET c == content[h][mk] IN
    \/ Reads(h, "get", c)
    \/ \E v \in Values : Writes(h, mk, Add(c, v), "aggregate", None)

Operation(h, mk) ==
    \/ Clear(h, mk)
    \/ h \in ValueStates /\ Value(h, mk)
    \/ h \in MapStates /\ Map(h, mk)
    \/ h \in VecStates /\ Vec(h, mk)
    \/ h \in ReducerStates /\ Reducer(h, mk)
    \/ h \in AggregatorStates /\ Aggregator(h, mk)

Checkpoint ==
    /\ reply' = <<None, "checkpoint", None>>
    /\ saved' = IF durable THEN content ELSE saved
    /\ UNCHANGED <<content, durable>>

\* The process starts again from its last checkpoint.
Restart ==
    /\ reply' = <<None, "none", None>>
    /\ content' = saved
    /\ UNCHANGED <<saved, durable>>

Next ==
    \/ \E h \in DOMAIN content : Refuse(h) \/ \E mk \in Metakeys(h) : Operation(h, mk)
    \/ Checkpoint
    \/ Restart

Spec == Init /\ [][Next]_vars
=============================================================================
