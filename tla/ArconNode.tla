------------------------------ MODULE ArconNode ------------------------------
(****************************************************************************)
(* A Node (stream/node/mod.rs): the kompact component that drives one       *)
(* operator.  It merges the streams of its in_channels: it drops late       *)
(* elements, merges watermarks, aligns epoch barriers (blocking a channel   *)
(* whose barrier has arrived and buffering what follows), saves a           *)
(* checkpoint when every barrier is in, and replays the buffer.             *)
(*                                                                          *)
(* A component runs one handler at a time.  `todo' is what the running      *)
(* handler has still to iterate over: the events of the message it got, or  *)
(* the replayed message_buffer.  A message is received only when it is      *)
(* empty, and each of the other actions is one pass of 'event_loop.         *)
(*                                                                          *)
(* The operator is Map (operator/function/map.rs): it outputs one element   *)
(* with its input's timestamp and ignores watermarks, epochs and timeouts.  *)
(****************************************************************************)
EXTENDS Integers, Sequences, FiniteSets

CONSTANTS
    InChannels,   \* the NodeIDs of in_channels
    Timestamps,   \* the timestamps that elements and watermarks carry
    U64Max,       \* u64::max_value()
    MaxEpoch,     \* bound: epochs a sender starts
    MaxSent,      \* bound: events a sender sends
    MaxBatch,     \* bound: elements in one message (pool_info.buffer_size)
    Lead,         \* how many epochs a sender may be ahead of this node
    SaveMayFail,  \* may backend.checkpoint return an error?
    MayDie        \* may a sender send a Death event?

ASSUME InChannelsAssumption == IsFiniteSet(InChannels) /\ InChannels # {}
ASSUME TimestampsAssumption ==
    U64Max \in Nat /\ Timestamps \subseteq 0..U64Max
ASSUME BoundsAssumption ==
    MaxEpoch \in Nat /\ MaxSent \in Nat /\ MaxBatch \in Nat /\ Lead \in Nat
ASSUME SwitchesAssumption == SaveMayFail \in BOOLEAN /\ MayDie \in BOOLEAN

VARIABLES
    \* NodeState, kept in the state backend
    watermarks, current_watermark, current_epoch, blocked_channels,
    message_buffer,
    \* the running handler
    todo,       \* events the handler still has to iterate over
    replaying,  \* is it inside after_state_save, with `metrics' still borrowed?
    status,     \* "running", "dying" (after suicide), "dead" or "faulty" (panic)
    \* what the node leaves behind
    out,        \* the events given to channel_strategy.add, in order
    saved,      \* the last checkpoint
    save_failed,
    \* the senders, and history of their streams
    sent,       \* how many events each channel has sent
    sent_epoch, \* the last epoch each channel has started
    marker_at,  \* where in its stream each channel put the marker of each epoch
    taken       \* how many events of each channel the node has handled

node == <<watermarks, current_watermark, current_epoch, blocked_channels,
          message_buffer>>
senders == <<sent, sent_epoch, marker_at>>
vars == <<node, todo, replaying, status, out, saved, save_failed, senders, taken>>
-----------------------------------------------------------------------------
(* ArconEvent and the messages that carry it (data/mod.rs).                 *)

NoTimestamp == -1      \* ArconElement.timestamp = None

Element(ts)  == [kind |-> "Element",   val |-> ts]
Watermark(w) == [kind |-> "Watermark", val |-> w]
Epoch(e)     == [kind |-> "Epoch",     val |-> e]
Death        == [kind |-> "Death",     val |-> 0]

Event ==
    {Element(ts) : ts \in Timestamps \cup {NoTimestamp}}
        \cup {Watermark(w) : w \in Timestamps}
        \cup {Epoch(e) : e \in 1..MaxEpoch}
        \cup {Death}

\* An event on its way: its sender, and its place in that sender's stream.
Entry == [sender : InChannels, event : Event, pos : Nat]

\* e.timestamp.unwrap_or(u64::max_value())
EffectiveTs(event) == IF event.val = NoTimestamp THEN U64Max ELSE event.val

\* Every channel strategy flushes its buffer after a Watermark, Epoch or Death,
\* so a message is some elements and at most one such event, at its end.
Batches == UNION {[1..k -> Timestamps \cup {NoTimestamp}] : k \in 0..MaxBatch}

Markers(c) ==
    {Watermark(w) : w \in Timestamps}
        \cup {Epoch(e) : e \in {sent_epoch[c] + 1} \cap 1..MaxEpoch}
        \cup {Death : x \in {1} \cap (IF MayDie THEN {1} ELSE {})}

Elements(tss) == [i \in DOMAIN tss |-> Element(tss[i])]

Messages(c) ==
    {Elements(tss) \o marker :
        tss \in Batches, marker \in {<<>>} \cup {<<x>> : x \in Markers(c)}}
    \ {<<>>}

Entries(c, events) ==
    [i \in 1..Len(events) |->
        [sender |-> c, event |-> events[i], pos |-> sent[c] + i]]
-----------------------------------------------------------------------------
(* Node::new on a backend that restored nothing.                            *)
Init ==
    /\ watermarks = [c \in InChannels |-> 0]
    /\ current_watermark = 0
    /\ current_epoch = 0
    /\ blocked_channels = {}
    /\ message_buffer = <<>>
    /\ todo = <<>>
    /\ replaying = FALSE
    /\ status = "running"
    /\ out = <<>>
    /\ saved = [epoch |-> 0, taken |-> [c \in InChannels |-> 0],
                buffer |-> <<>>]
    /\ save_failed = FALSE
    /\ sent = [c \in InChannels |-> 0]
    /\ sent_epoch = [c \in InChannels |-> 0]
    /\ marker_at = [c \in InChannels |-> [e \in 0..MaxEpoch |-> 0]]
    /\ taken = [c \in InChannels |-> 0]

(* Channel c sends a message, and the idle node gets it: handle_message (the *)
(* local and the remote entry points do the same) appends the message of a   *)
(* blocked sender to message_buffer and iterates over any other.             *)
Send(c, events) ==
    LET last == events[Len(events)] IN
    /\ sent[c] + Len(events) <= MaxSent
    /\ sent' = [sent EXCEPT ![c] = @ + Len(events)]
    /\ IF last.kind = "Epoch"
       THEN /\ last.val <= current_epoch + Lead
            /\ sent_epoch' = [sent_epoch EXCEPT ![c] = last.val]
            /\ marker_at' = [marker_at EXCEPT ![c][last.val] = sent'[c]]
       ELSE UNCHANGED <<sent_epoch, marker_at>>

Idle == status \in {"running", "dying"} /\ todo = <<>>

BufferMessage(c, events) ==
    /\ Idle
    /\ c \in blocked_channels
    /\ Send(c, events)
    /\ message_buffer' = message_buffer \o Entries(c, events)
    /\ UNCHANGED <<watermarks, current_watermark, current_epoch,
                   blocked_channels, todo, replaying, status, out, saved,
                   save_failed, taken>>

\* Mutant: without the check that the sender is blocked.
AcceptFromBlocked(c, events) ==
    /\ Idle
    /\ Send(c, events)
    /\ todo' = Entries(c, events)
    /\ UNCHANGED <<node, replaying, status, out, saved, save_failed, taken>>

AcceptMessage(c, events) ==
    /\ Idle
    /\ c \notin blocked_channels
    /\ Send(c, events)
    /\ todo' = Entries(c, events)
    /\ UNCHANGED <<node, replaying, status, out, saved, save_failed, taken>>
-----------------------------------------------------------------------------
(* handle_events: one pass of the loop, for the event at the head of todo.  *)

current == Head(todo)
sender == current.sender
val == current.event.val

Handling(kind) ==
    /\ todo # <<>>
    /\ current.event.kind = kind
    /\ taken' = [taken EXCEPT ![sender] = current.pos]
    /\ UNCHANGED senders

\* The loop goes on; a replay ends with the last event of the buffer.
Continue ==
    /\ todo' = Tail(todo)
    /\ replaying' = (replaying /\ Tail(todo) # <<>>)

\* Mutant: < for <=.
IsOlder == EffectiveTs(current.event) < watermarks[sender]

IsLate == EffectiveTs(current.event) <= watermarks[sender]

DropElement ==
    /\ Handling("Element")
    /\ IsLate
    /\ Continue
    /\ UNCHANGED <<node, status, out, saved, save_failed>>

HandleElement ==
    /\ Handling("Element")
    /\ ~IsLate
    /\ out' = Append(out, current.event)
    /\ Continue
    /\ UNCHANGED <<node, status, saved, save_failed>>

\* The lowest of watermarks.values() and w.
Lowest(wms, w) ==
    LET S == {wms[c] : c \in InChannels} \cup {w}
    IN  CHOOSE m \in S : \A x \in S : m <= x

\* Mutant: >= for > in the first early return.
NewWatermarkTooEarly ==
    LET old == watermarks[sender]
        low == Lowest([watermarks EXCEPT ![sender] = val], val)
    IN  IF old >= current_watermark \/ val <= current_watermark
            THEN current_watermark
            ELSE low

\* The node's watermark once `sender' has announced val: the two early returns
\* leave it as it is.
NewWatermark ==
    LET old == watermarks[sender]
        low == Lowest([watermarks EXCEPT ![sender] = val], val)
    IN  IF old > current_watermark \/ val <= current_watermark
            THEN current_watermark
            ELSE low

IgnoreWatermark ==
    /\ Handling("Watermark")
    /\ val <= watermarks[sender]
    /\ Continue
    /\ UNCHANGED <<node, status, out, saved, save_failed>>

RecordWatermark ==
    /\ Handling("Watermark")
    /\ val > watermarks[sender]
    /\ NewWatermark <= current_watermark
    /\ watermarks' = [watermarks EXCEPT ![sender] = val]
    /\ Continue
    /\ UNCHANGED <<current_watermark, current_epoch, blocked_channels,
                   message_buffer, status, out, saved, save_failed>>

AdvanceWatermark ==
    /\ Handling("Watermark")
    /\ val > watermarks[sender]
    /\ NewWatermark > current_watermark
    /\ watermarks' = [watermarks EXCEPT ![sender] = val]
    /\ current_watermark' = NewWatermark
    /\ \/ /\ ~replaying
          /\ out' = Append(out, Watermark(NewWatermark))
          /\ Continue
          /\ UNCHANGED status
       \* self.metrics.borrow_mut() while the Epoch arm that started the replay
       \* still holds its own borrow: BorrowMutError, and the component is dead.
       \/ /\ replaying
          /\ status' = "faulty"
          /\ todo' = <<>>
          /\ replaying' = FALSE
          /\ UNCHANGED out
    /\ UNCHANGED <<current_epoch, blocked_channels, message_buffer, saved,
                   save_failed>>

IgnoreEpoch ==
    /\ Handling("Epoch")
    /\ val <= current_epoch
    /\ Continue
    /\ UNCHANGED <<node, status, out, saved, save_failed>>

\* Mutant: > for ==.
MoreThanAllBlocked(blocked) == Cardinality(blocked) > Cardinality(InChannels)

\* blocked_channels().len()? == self.in_channels.len()
AllBlocked(blocked) == Cardinality(blocked) = Cardinality(InChannels)

BlockChannel ==
    /\ Handling("Epoch")
    /\ val > current_epoch
    /\ blocked_channels' = blocked_channels \cup {sender}
    /\ ~AllBlocked(blocked_channels')
    /\ Continue
    /\ UNCHANGED <<watermarks, current_watermark, current_epoch,
                   message_buffer, status, out, saved, save_failed>>

\* Mutant: without blocked_channels().clear().
CompleteStillBlocked ==
    /\ Handling("Epoch")
    /\ val > current_epoch
    /\ AllBlocked(blocked_channels \cup {sender})
    /\ current_epoch' = val
    /\ saved' = [epoch |-> val, taken |-> taken', buffer |-> message_buffer]
    /\ out' = Append(out, Epoch(val))
    /\ blocked_channels' = blocked_channels \cup {sender}
    /\ message_buffer' = <<>>
    /\ todo' = message_buffer \o Tail(todo)
    /\ replaying' = (message_buffer # <<>>)
    /\ UNCHANGED <<watermarks, current_watermark, status, save_failed>>

\* Mutant: without message_buffer.clear().
CompleteKeepingBuffer ==
    /\ Handling("Epoch")
    /\ val > current_epoch
    /\ AllBlocked(blocked_channels \cup {sender})
    /\ current_epoch' = val
    /\ saved' = [epoch |-> val, taken |-> taken', buffer |-> message_buffer]
    /\ out' = Append(out, Epoch(val))
    /\ blocked_channels' = {}
    /\ todo' = message_buffer \o Tail(todo)
    /\ replaying' = (message_buffer # <<>>)
    /\ UNCHANGED <<watermarks, current_watermark, message_buffer, status,
                   save_failed>>

\* All senders blocked: save_state, then the marker goes downstream and
\* after_state_save unblocks the channels and replays the buffer.  (Inside a
\* replay it would panic like AdvanceWatermark: OneReplayAtATime.)
CompleteEpoch ==
    /\ Handling("Epoch")
    /\ val > current_epoch
    /\ AllBlocked(blocked_channels \cup {sender})
    /\ current_epoch' = val
    /\ saved' = [epoch |-> val, taken |-> taken', buffer |-> message_buffer]
    /\ out' = Append(out, Epoch(val))
    /\ blocked_channels' = {}
    /\ message_buffer' = <<>>
    /\ todo' = message_buffer \o Tail(todo)
    /\ replaying' = (message_buffer # <<>>)
    /\ UNCHANGED <<watermarks, current_watermark, status, save_failed>>

\* Mutant: the epoch after the one that failed.
FailNextEpoch ==
    /\ SaveMayFail
    /\ Handling("Epoch")
    /\ val > current_epoch
    /\ blocked_channels' = blocked_channels \cup {sender}
    /\ AllBlocked(blocked_channels')
    /\ current_epoch' = val + 1
    /\ save_failed' = TRUE
    /\ todo' = <<>>
    /\ replaying' = FALSE
    /\ UNCHANGED <<watermarks, current_watermark, message_buffer, status, out,
                   saved>>

\* save_state fails: the error leaves handle_events before the marker is
\* forwarded and before any channel is unblocked.
FailEpoch ==
    /\ SaveMayFail
    /\ Handling("Epoch")
    /\ val > current_epoch
    /\ blocked_channels' = blocked_channels \cup {sender}
    /\ AllBlocked(blocked_channels')
    /\ current_epoch' = val
    /\ save_failed' = TRUE
    /\ todo' = <<>>
    /\ replaying' = FALSE
    /\ UNCHANGED <<watermarks, current_watermark, message_buffer, status, out,
                   saved>>

\* Death is forwarded, and ctx.suicide asks the runtime to kill the component.
HandleDeath ==
    /\ Handling("Death")
    /\ out' = Append(out, Death)
    /\ status' = "dying"
    /\ Continue
    /\ UNCHANGED <<node, saved, save_failed>>

\* kompact gets to the kill request some time after the handler is done.
Kill ==
    /\ status = "dying" /\ todo = <<>>
    /\ status' = "dead"
    /\ UNCHANGED <<node, todo, replaying, out, saved, save_failed, senders,
                   taken>>

HandleEvent ==
    \/ DropElement \/ HandleElement
    \/ IgnoreWatermark \/ RecordWatermark \/ AdvanceWatermark
    \/ IgnoreEpoch \/ BlockChannel \/ CompleteEpoch \/ FailEpoch
    \/ HandleDeath

ReceiveMessage ==
    \E c \in InChannels : \E events \in Messages(c) :
        BufferMessage(c, events) \/ AcceptMessage(c, events)

Next == ReceiveMessage \/ HandleEvent \/ Kill

Spec == Init /\ [][Next]_vars

\* A handler that has started runs to its end; nothing is assumed of the senders.
FairSpec == Spec /\ WF_vars(HandleEvent)
-----------------------------------------------------------------------------
(* Properties.                                                              *)

\* The type of every variable (NodeState and the handler's locals).
TypeOK ==
    /\ watermarks \in [InChannels -> Timestamps \cup {0}]
    /\ current_watermark \in Timestamps \cup {0}
    /\ current_epoch \in 0..MaxEpoch
    /\ blocked_channels \subseteq InChannels
    /\ message_buffer \in Seq(Entry)
    /\ todo \in Seq(Entry)
    /\ replaying \in BOOLEAN
    /\ status \in {"running", "dying", "dead", "faulty"}
    /\ out \in Seq(Event)
    /\ saved \in [epoch : 0..MaxEpoch, taken : [InChannels -> Nat],
                   buffer : Seq(Entry)]
    /\ save_failed \in BOOLEAN
    /\ sent \in [InChannels -> Nat]
    /\ sent_epoch \in [InChannels -> 0..MaxEpoch]
    /\ marker_at \in [InChannels -> [0..MaxEpoch -> Nat]]
    /\ taken \in [InChannels -> Nat]

\* In spite of the two early returns of the Watermark arm, current_watermark is
\* always the lowest of the channels' watermarks.
WatermarkIsLowest ==
    /\ \A c \in InChannels : current_watermark <= watermarks[c]
    /\ \E c \in InChannels : current_watermark = watermarks[c]

\* The events still to be handled, in the order they will be.
Pending == todo \o message_buffer

\* The entries of c in s are its events from+1 .. to, in order.
IsStream(s, c, from, to) ==
    /\ \A i \in 1..Len(s) :
          s[i].sender = c =>
              /\ s[i].pos \in from+1 .. to
              /\ \A j \in 1..(i-1) : s[j].sender = c => s[j].pos < s[i].pos
    /\ \A p \in from+1 .. to :
          \E i \in 1..Len(s) : s[i].sender = c /\ s[i].pos = p

\* Blocking, buffering and replaying neither lose, repeat nor reorder the events
\* of a channel: what is pending of it is exactly what comes after the events
\* handled so far, in the order sent (unless a panic cut the replay short).
ChannelsAreFifo ==
    status # "faulty" =>
        \A c \in InChannels : IsStream(Pending, c, taken[c], sent[c])

\* Outside a handler the buffer holds messages of blocked channels only, and
\* not every channel is blocked unless a checkpoint has failed: the node never
\* waits for barriers it has already got.
NeverFullyBlocked ==
    todo = <<>> /\ status # "faulty" =>
        /\ \A i \in 1..Len(message_buffer) :
              message_buffer[i].sender \in blocked_channels
        /\ blocked_channels = InChannels => save_failed

\* A replay never completes an epoch: some channel, the one whose barrier
\* completed the epoch, is neither blocked nor has anything in the replay.  So
\* handle_events and after_state_save do not recurse, and the second
\* metrics.borrow_mut() of the Epoch arm cannot panic.
OneReplayAtATime ==
    replaying =>
        \E c \in InChannels :
            /\ c \notin blocked_channels
            /\ \A i \in 1..Len(todo) : todo[i].sender # c

\* A checkpoint is a consistent cut: the state saved for epoch e has seen of
\* every channel what precedes its marker of e, and nothing after it.
CheckpointIsCut ==
    \A c \in InChannels : saved.taken[c] = marker_at[c][saved.epoch]

\* What the node gives its channel strategy is a marked stream.
Downstream == INSTANCE MarkedStream
EmitsMarkedStream == Downstream!Spec

\* Epoch e is completed once every channel has sent its marker of e, if the node
\* lives and its checkpoints succeed.
EpochsComplete ==
    \A e \in 1..MaxEpoch :
        (\A c \in InChannels : sent_epoch[c] >= e)
            ~> (current_epoch >= e \/ status # "running")
=============================================================================
