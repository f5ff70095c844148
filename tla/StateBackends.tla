--------------------------- MODULE StateBackends ---------------------------
(* An operator and the state backend it is configured with: the operator       *)
(* declares some states, registers their handles when it starts and then works *)
(* on them; the backend is one of BackendTypes. Each of them shows the operator *)
(* the state that KeyedState describes.                                        *)
EXTENDS StateKeys

CONSTANTS
    Deployments,      \* pairs of a backend and the states an operator declares
    MaxOperands,      \* bound: unmerged operands under one key (Rocks)
    OverflowChecks    \* whether the build panics on integer overflow (Rocks)

VARIABLES backend,    \* the backend, with the features it is built with
          declared,   \* the states the operator has
          store,      \* what the backend holds
          registered, \* the handles whose registered flag is set (Sled, Faster)
          saved,      \* the last checkpoint
          status,     \* Rocks: inner; Faster: panicked
          reply       \* the last operation and its answer

vars == <<backend, declared, store, registered, saved, status, reply>>

\* Sled and Faster each with and without their feature.
BackendTypes ==
    {"InMemory", "Rocks", "Sled", "SledCheckpoints", "Faster", "SlowerFaster"}

ASSUME BackendsAssumption ==
    /\ Deployments \subseteq BackendTypes \X SUBSET Handles
    /\ MaxOperands \in Nat \ {0}
    /\ OverflowChecks \in BOOLEAN

InMemory == INSTANCE InMemoryState WITH data <- store
Rocks == INSTANCE RocksState WITH db <- store, inner <- status, checkpoint <- saved
Sled == INSTANCE SledState WITH
    trees <- store, export <- saved, SledCheckpoints <- FALSE
SledDumping == INSTANCE SledState WITH
    trees <- store, export <- saved, SledCheckpoints <- TRUE
Faster == INSTANCE FasterState WITH
    db <- store, checkpoint <- saved, panicked <- status, SlowerFaster <- FALSE
SlowerFaster == INSTANCE FasterState WITH
    db <- store, checkpoint <- saved, panicked <- status, SlowerFaster <- TRUE

Init ==
    /\ \E d \in Deployments : backend = d[1] /\ declared = d[2]
    /\ CASE backend = "InMemory" ->
              InMemory!Init /\ registered = {} /\ saved = EmptyTable /\ status = FALSE
         [] backend = "Rocks" -> Rocks!Init /\ registered = {}
         [] backend \in {"Sled", "SledCheckpoints"} -> Sled!Init /\ status = FALSE
         [] backend \in {"Faster", "SlowerFaster"} -> Faster!Init

\* The operator registers each of its states, and again after a restart.
Register(h) ==
    \/ backend = "InMemory" /\ InMemory!Register(h) /\ UNCHANGED <<registered, saved, status>>
    \/ backend = "Rocks" /\ Rocks!Register(h) /\ UNCHANGED registered
    \/ backend \in {"Sled", "SledCheckpoints"} /\ Sled!Register(h) /\ UNCHANGED status
    \/ backend \in {"Faster", "SlowerFaster"} /\ Faster!Register(h)

\* An operation, a checkpoint or a restart.
Step ==
    \/ backend = "InMemory" /\ InMemory!Step /\ UNCHANGED <<registered, saved, status>>
    \/ backend = "Rocks" /\ Rocks!Step /\ UNCHANGED registered
    \/ backend = "Sled" /\ Sled!Step /\ UNCHANGED status
    \/ backend = "SledCheckpoints" /\ SledDumping!Step /\ UNCHANGED status
    \/ backend = "Faster" /\ Faster!Step
    \/ backend = "SlowerFaster" /\ SlowerFaster!Step

Next ==
    /\ Step \/ \E h \in declared : Register(h)
    /\ UNCHANGED <<backend, declared>>

Spec == Init /\ [][Next]_vars
-----------------------------------------------------------------------------
\* What the operator can see of a store of the backend.
ContentIn(table, h, mk) ==
    CASE backend = "InMemory" -> InMemory!ContentIn(table, h, mk)
      [] backend = "Rocks" -> Rocks!ContentIn(table, h, mk)
      [] backend \in {"Sled", "SledCheckpoints"} -> Sled!ContentIn(table, h, mk)
      [] backend \in {"Faster", "SlowerFaster"} -> Faster!ContentIn(table, h, mk)
Contents(table) ==
    [h \in declared |-> [mk \in Metakeys(h) |-> ContentIn(table, h, mk)]]

Keyed == INSTANCE KeyedState WITH
    content <- Contents(store),
    saved <- Contents(IF backend = "SledCheckpoints" THEN Sled!Exported ELSE saved),
    durable <- backend \notin {"InMemory", "Sled"}

\* Every operation of every backend does to the contents of its own handle, item
\* key and namespace what KeyedState says, and to nothing else, and answers
\* accordingly; a restart brings back exactly what the last checkpoint had, or
\* nothing where the backend keeps none. That covers the merge operators of
\* Rocks and Sled, whichever operands RocksDB merges together and whenever, the
\* range that clears a map in Rocks, the dump file that Sled writes and parses,
\* and the one key space that all states of Faster share (in_memory, rocks, sled
\* and faster, mod.rs and *_ops.rs). An operation that panics changes nothing.
ImplementsKeyedState == Keyed!Spec

\* A restored Rocks backend serves operations as soon as all handles of the
\* operator are registered (create_column_family, initialize).
UsableOnceRegistered ==
    backend = "Rocks" /\ Rocks!Registered = declared =>
        status.kind # "Uninitialized"

\* Registering handles never fails when the checkpoint was taken with every
\* handle registered, as RegistrationToken asks for: a panic leaves no column
\* family unknown.
RegistrationSucceeds ==
    backend = "Rocks" /\ status.kind = "Panicked" /\ status.unknown_cfs # {} =>
        DOMAIN saved \notin {{}, declared}

\* With slower_faster a map's entries and its list of keys never diverge: the
\* list names each entry once and nothing else (map_insert, map_remove,
\* vec_push_if_absent), until a removal is stored in place of the list.
ListNamesEntries == backend = "SlowerFaster" => SlowerFaster!ListNamesEntries
============================================================================
