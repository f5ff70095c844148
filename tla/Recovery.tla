------------------------------ MODULE Recovery ------------------------------
(* Checkpoints and restarts of a whole pipeline: a chain of nodes, each with   *)
(* one input channel, the last with a sink as its operator. The other nodes    *)
(* have an operator that keeps every element in its state and outputs it. The  *)
(* source is the business of the modules that extend this one. A crash ends    *)
(* the process; checkpoint directories and what the sink wrote stay.           *)
EXTENDS Naturals, FiniteSets, FiniteSetsExt, SequencesExt

CONSTANTS
    NumNodes,           \* length of the chain
    SinkKind,           \* "file" or "kafka": LocalFileSink, KafkaSink
    AtomicCheckpoints,  \* Rocks: TRUE; Sled, Faster: the directory comes first
    MaxCrashes,         \* bound: crashes
    None

VARIABLES queue,        \* node -> the events sent to it and not yet handled
          node,         \* node -> what its live state backend has
          saving,       \* node -> whether it is inside save_state
          dirs,         \* node -> epoch -> what checkpoint_{id}_{epoch} has
          file,         \* what the sink has written
          sink_buffer,  \* KafkaSink::buffer, not part of the state
          crashes,      \* crashes so far
          failed        \* a backend could not be restored

nodeVars == <<queue, node, saving, dirs, file, sink_buffer, crashes, failed>>

ASSUME RecoveryAssumption ==
    /\ NumNodes \in Nat \ {0} /\ MaxCrashes \in Nat
    /\ SinkKind \in {"file", "kafka"} /\ AtomicCheckpoints \in BOOLEAN

Nodes == 1 .. NumNodes
Sink == NumNodes

Element(id, ts) == [kind |-> "element", id |-> id, ts |-> ts]
Watermark(ts) == [kind |-> "watermark", ts |-> ts]
Epoch(e) == [kind |-> "epoch", epoch |-> e]

\* The only sequence of the members of S, smallest first (a set with
\* one element).
InOrderOf(S) ==
    {order \in [1 .. Cardinality(S) -> S] :
        \A j, k \in DOMAIN order : j < k => order[j] < order[k]}

\* Node::new on an empty backend.
NewNode == [watermark |-> 0, epoch |-> 0, seen |-> <<>>]

NodesInit ==
    /\ queue = [i \in Nodes |-> <<>>]
    /\ node = [i \in Nodes |-> NewNode]
    /\ saving = [i \in Nodes |-> FALSE]
    /\ dirs = [i \in Nodes |-> <<>>]
    /\ file = <<>> /\ sink_buffer = <<>>
    /\ crashes = 0 /\ failed = FALSE

-----------------------------------------------------------------------------
\* handle_events of node i, one event at a time.
Event(i) == Head(queue[i])
Handles(i, kind) ==
    ~ failed /\ ~ saving[i] /\ queue[i] # <<>> /\ Event(i).kind = kind
Taken(i) == [queue EXCEPT ![i] = Tail(@)]
Forwarded(i, event) ==
    IF i = Sink THEN Taken(i) ELSE [Taken(i) EXCEPT ![i + 1] = Append(@, event)]

\* A mutant: an epoch that was saved before is saved again.
IsDroppedUnlessEpoch(i) ==
    Event(i).kind # "epoch" /\ Event(i).ts <= node[i].watermark
IsDropped(i) ==
    CASE Event(i).kind = "epoch" -> Event(i).epoch <= node[i].epoch
      [] OTHER -> Event(i).ts <= node[i].watermark
DropEvent(i) ==
    /\ \E kind \in {"element", "watermark", "epoch"} : Handles(i, kind)
    /\ IsDropped(i)
    /\ queue' = Taken(i)
    /\ UNCHANGED <<node, saving, dirs, file, sink_buffer, crashes, failed>>

\* LocalFileSink writes the element at once, KafkaSink buffers it.
WriteElement(id) ==
    IF SinkKind = "file"
    THEN file' = Append(file, id) /\ UNCHANGED sink_buffer
    ELSE sink_buffer' = Append(sink_buffer, id) /\ UNCHANGED file
HandleElement(i) ==
    /\ Handles(i, "element") /\ ~ IsDropped(i)
    /\ node' = [node EXCEPT ![i].seen = Append(@, Event(i).id)]
    /\ queue' = Forwarded(i, Event(i))
    /\ IF i = Sink THEN WriteElement(Event(i).id) ELSE UNCHANGED <<file, sink_buffer>>
    /\ UNCHANGED <<saving, dirs, crashes, failed>>

HandleWatermark(i) ==
    /\ Handles(i, "watermark") /\ ~ IsDropped(i)
    /\ node' = [node EXCEPT ![i].watermark = Event(i).ts]
    /\ queue' = Forwarded(i, Event(i))
    /\ UNCHANGED <<saving, dirs, file, sink_buffer, crashes, failed>>

\* The Epoch arm with one input channel: the epoch is complete at once. First
\* handle_epoch of the operator: KafkaSink::commit_buffer.
\* A mutant: the buffer is not written.
CommitNothing == UNCHANGED <<file, sink_buffer>>
CommitBuffer == file' = file \o sink_buffer /\ sink_buffer' = <<>>

\* Then save_state. Rocks removes an old directory and lets the new one appear
\* complete; Sled and Faster create the directory and then fill it.
Put(i, e, contents) ==
    [dirs EXCEPT ![i] = [f \in DOMAIN @ \cup {e} |-> IF f = e THEN contents ELSE @[f]]]
Removed(i, e) == [dirs EXCEPT ![i] = [f \in DOMAIN @ \ {e} |-> @[f]]]
BeginEpoch(i) ==
    LET e == Event(i).epoch IN
    /\ Handles(i, "epoch") /\ ~ IsDropped(i)
    /\ node' = [node EXCEPT ![i].epoch = e]
    /\ IF i = Sink THEN CommitBuffer ELSE UNCHANGED <<file, sink_buffer>>
    /\ dirs' = IF AtomicCheckpoints THEN Removed(i, e) ELSE Put(i, e, None)
    /\ saving' = [saving EXCEPT ![i] = TRUE]
    /\ UNCHANGED <<queue, crashes, failed>>
\* A mutant: the channel stays blocked after the epoch.
FinishStillBlocked(i) ==
    /\ ~ failed /\ saving[i]
    /\ dirs' = Put(i, Event(i).epoch, node[i])
    /\ UNCHANGED <<queue, saving, node, file, sink_buffer, crashes, failed>>
FinishEpoch(i) ==
    /\ ~ failed /\ saving[i]
    /\ dirs' = Put(i, Event(i).epoch, node[i])
    /\ saving' = [saving EXCEPT ![i] = FALSE]
    /\ queue' = Forwarded(i, Event(i))
    /\ UNCHANGED <<node, file, sink_buffer, crashes, failed>>

NodeStep(i) ==
    \/ DropEvent(i) \/ HandleElement(i) \/ HandleWatermark(i)
    \/ BeginEpoch(i) \/ FinishEpoch(i)

-----------------------------------------------------------------------------
\* restore_or_create of every backend, before any event is sent: the last
\* complete checkpoint is the greatest epoch with a directory for every node.
Complete == {e \in DOMAIN dirs[Sink] : \A i \in Nodes : e \in DOMAIN dirs[i]}
\* A mutant: each node takes its own last checkpoint.
LastOwn(i) == Max(DOMAIN dirs[i])
LastComplete(i) == Max(Complete)
Restored(i) == IF Complete = {} THEN NewNode ELSE dirs[i][LastComplete(i)]

\* A crash, and a restart. Everything in flight is lost; on_start then clears
\* the blocked channels and replays the buffer, empty with a single channel.
\* A directory without its contents cannot be restored.
RestartNodes ==
    /\ ~ failed /\ crashes < MaxCrashes
    /\ crashes' = crashes + 1
    /\ queue' = [i \in Nodes |-> <<>>]
    /\ saving' = [i \in Nodes |-> FALSE]
    /\ sink_buffer' = <<>>
    /\ IF \E i \in Nodes : Restored(i) = None
       THEN failed' = TRUE /\ UNCHANGED node
       ELSE node' = [i \in Nodes |-> Restored(i)] /\ UNCHANGED failed
    /\ UNCHANGED <<dirs, file>>

-----------------------------------------------------------------------------
\* Directories of an earlier life never fit badly with new ones: for every epoch
\* that a restart may choose, all nodes have seen the same elements.
CheckpointsFitTogether ==
    \A e \in Complete, i, j \in Nodes :
        (dirs[i][e] # None /\ dirs[j][e] # None) => dirs[i][e].seen = dirs[j][e].seen

\* The sink has no state that is saved: by the time its node saves an epoch,
\* all elements before it are written, so that no restart loses them.
SavedEpochsAreWritten ==
    \A e \in Complete : dirs[Sink][e] # None =>
        \A k \in DOMAIN dirs[Sink][e].seen : Contains(file, dirs[Sink][e].seen[k])
=============================================================================
