---------------------------- MODULE KafkaRecovery ----------------------------
(* The pipeline of Recovery behind a KafkaSource (src/stream/source/kafka.rs): *)
(* after a restart it goes on from the offset it has committed, and numbers    *)
(* its epochs from zero again.                                                 *)
EXTENDS Recovery

CONSTANTS
    MaxTs,        \* bound: timestamps are 1 .. MaxTs
    MaxMessages,  \* bound: messages in the topic's only partition
    Parses,       \* the outcomes of parsing a payload: BOOLEAN or a subset
    batch_size,
    MaxEpoch      \* bound: epochs since a restart

VARIABLES partition,     \* the messages: timestamp, and whether the payload parses
          position,      \* of the consumer: how many messages it has read
          committed,     \* the committed offset, or None
          source,        \* KafkaSource: epoch, offset, max_timestamp
          pc             \* what receive does next

kafkaVars == <<partition, position, committed, source, pc>>
vars == <<nodeVars, kafkaVars>>

ASSUME KafkaAssumption ==
    /\ MaxTs \in Nat \ {0} /\ MaxMessages \in Nat /\ MaxEpoch \in Nat
    /\ batch_size \in Nat \ {0} /\ Parses \subseteq BOOLEAN

NewSource == [epoch |-> 0, offset |-> 0, max_timestamp |-> 0]

\* The consumer group starts at its committed offset; without one the broker's
\* configuration decides.
StartPositions == IF committed = None THEN {0, Len(partition)} ELSE {committed}

Init ==
    /\ NodesInit
    /\ \E n \in 0 .. MaxMessages :
         partition \in [1 .. n -> [ts : 1 .. MaxTs, parses : Parses]]
    /\ position \in {0, Len(partition)}
    /\ committed = None
    /\ source = NewSource /\ pc = "receive"

\* receive: a batch of messages, all of which count for max_timestamp; those
\* that cannot be parsed are not sent and do not move the offset.
ReceiveBatch(n) ==
    LET batch == (position + 1) .. (position + n)
        good == {k \in batch : partition[k].parses}
    IN  /\ pc = "receive" /\ ~ failed
        /\ position + n <= Len(partition)
        /\ source.epoch < MaxEpoch
        /\ position' = position + n
        /\ source' = [source EXCEPT
                         !.offset = IF good = {} THEN @ ELSE Max(good),
                         !.max_timestamp = Max({@} \cup {partition[k].ts : k \in batch})]
        /\ \E order \in InOrderOf(good) : queue' = [queue EXCEPT ![1] =
             @ \o [k \in DOMAIN order |-> Element(order[k], partition[order[k]].ts)]]
        /\ pc' = "epoch"
        /\ UNCHANGED <<partition, committed, node, saving, dirs, file, sink_buffer, crashes, failed>>

\* A mutant: the watermark after the epoch.
EpochFirst == <<Epoch(source.epoch), Watermark(source.max_timestamp)>>
\* output_watermark and new_epoch; commit_epoch comes last and may fail.
EndOfBatch == <<Watermark(source.max_timestamp), Epoch(source.epoch)>>
NewEpoch ==
    /\ pc = "epoch" /\ ~ failed
    /\ queue' = [queue EXCEPT ![1] = @ \o EndOfBatch]
    /\ source' = [source EXCEPT !.epoch = @ + 1]
    /\ pc' = "commit"
    /\ UNCHANGED <<partition, position, committed, node, saving, dirs, file, sink_buffer,
                   crashes, failed>>
CommitEpoch ==
    /\ pc = "commit" /\ ~ failed
    /\ committed' \in {committed, source.offset}
    /\ pc' = "receive"
    /\ UNCHANGED <<nodeVars, partition, position, source>>

Restart ==
    /\ RestartNodes
    /\ source' = NewSource /\ pc' = "receive"
    /\ position' \in StartPositions
    /\ UNCHANGED <<partition, committed>>

Next ==
    \/ \E n \in 1 .. batch_size : ReceiveBatch(n)
    \/ NewEpoch
    \/ CommitEpoch
    \/ \E i \in Nodes : NodeStep(i) /\ UNCHANGED kafkaVars
    \/ Restart

Spec == Init /\ [][Next]_vars

-----------------------------------------------------------------------------
\* No node processes a message twice, although the offset is committed apart
\* from the nodes' checkpoints, a commit may fail, and a batch that does not
\* parse commits an old offset: the watermark of a saved batch covers it.
MessagesAtMostOnce == \A i \in Nodes : IsInjective(node[i].seen)
=============================================================================
