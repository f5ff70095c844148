-------------------------- MODULE ChannelStrategies --------------------------
(****************************************************************************)
(* How one component sends its events downstream: a ChannelStrategy         *)
(* (stream/channel/strategy) that writes events into the EventBuffers of    *)
(* its BufferPool (buffer/event) and hands each full buffer, not a copy of  *)
(* it, to the component behind a channel.  The receiver reads the shared    *)
(* memory while the sender goes on, and gives the buffer back by setting    *)
(* its `free' flag; the sender busy-waits for a free buffer.                *)
(*                                                                          *)
(* `calls' is what the running call of add or flush has still to do.  Each  *)
(* action of the sender takes its first entry; an entry of a loop puts the  *)
(* loop's body in front of what is left.  Memory is sequentially            *)
(* consistent here; the code's `free' flag is Ordering::Relaxed.            *)
(****************************************************************************)
EXTENDS Integers, SequencesExt

CONSTANTS
    Strategies,  \* the strategies there may be, of the five below
    N,           \* how many channels the strategy has
    Remote,      \* those of them that are Channel::Remote
    Capacity,    \* pool_info.capacity: buffers in the pool
    BufferSize,  \* pool_info.buffer_size: events a buffer holds
    MaxKey,      \* KeyBy's max_key
    Keys,        \* the values of get_key
    U64,         \* 2^64: `key * key_ranges' wraps around here
    SerErrors,   \* the errors tell_serialised may return: "BufferError", "Other"
    MaxAdds      \* bound: calls of add and flush

Channels == 1..N
Buffers == 0..(Capacity - 1)

\* What the constructors assert, and a buffer that can hold an event.
ASSUME StrategyAssumption ==
    /\ Strategies \subseteq {"Forward", "Broadcast", "RoundRobin", "KeyBy", "Mute"}
    /\ N \in Nat /\ N > 0 /\ Remote \subseteq Channels
    /\ Strategies \cap {"Broadcast", "RoundRobin"} # {} => N > 1
ASSUME PoolAssumption ==
    /\ Capacity \in Nat /\ Capacity > 0 /\ BufferSize \in Nat /\ BufferSize > 0
    /\ Strategies \cap {"Broadcast", "KeyBy"} # {} => N < Capacity
ASSUME KeyAssumption ==
    MaxKey \in Nat /\ MaxKey > 0 /\ U64 \in Nat /\ U64 > 0 /\ Keys \subseteq Nat
ASSUME BoundAssumption ==
    MaxAdds \in Nat /\ SerErrors \subseteq {"BufferError", "Other"}

VARIABLES
    \* BufferPool and its EventBuffers
    free,         \* the flag of each buffer
    memory,       \* the memory of each buffer
    curr_buffer,  \* the buffer next in line
    \* the strategy
    strategy,     \* which one it is; Forward has channel 1 only
    writer,       \* its BufferWriters: the buffer and the len of each
    curr_index,   \* RoundRobin's target
    calls,        \* what the running call has still to do
    panicked,
    \* the receivers
    mailbox,      \* the messages of each channel; the first is being handled
    received,     \* the events each receiver has taken out, in order
    added,        \* history: the calls of add and flush
    lost          \* history: the events of each channel that could not be sent

pool == <<free, memory, curr_buffer>>
sender == <<pool, strategy, writer, curr_index, panicked>>
vars == <<free, memory, curr_buffer, strategy, writer, curr_index, calls, panicked,
          mailbox, received, added, lost>>
-----------------------------------------------------------------------------
(* An event in memory is the number of the call that added it: 0 is memory  *)
(* that was never written.                                                  *)
Event == 0..MaxAdds
Call == [kind : {"element"}, key : Keys] \cup [kind : {"marker", "flush"}, key : {0}]

\* Writers: one per key range for KeyBy, else writer 1.  Writer 0 is the one
\* Broadcast gets for each copy.
Copier == 0
Writers == {Copier} \cup (IF strategy = "KeyBy" THEN Channels ELSE {1})

\* A message: a BufferReader (buffer, len, and how far its IntoIter has got),
\* or, over the network, the events themselves.
NoBuffer == Capacity
Message == [buffer : Buffers \cup {NoBuffer}, len : 0..BufferSize,
            current : 0..BufferSize, events : Seq(Event)]

\* The entries of `calls'.
Step(op, w, c, left, e) ==
    [op |-> op, writer |-> w, chan |-> c, left |-> left, event |-> e]
Push(w, e) == Step("push", w, 0, {}, e)
PushAll(left, e) == Step("push_all", 0, 0, left, e)
FlushOf(left) == Step("flush", 0, 0, left, 0)
Send(w, c) == Step("send", w, c, {}, 0)
Get(w) == Step("get", w, 0, {}, 0)
Copy == Step("copy", Copier, 0, {}, 0)
Steps ==
    {s \in [op : {"push", "push_all", "flush", "send", "get", "copy"},
            writer : Writers, chan : 0..N, left : SUBSET Channels, event : Event] :
        /\ s.op = "push" => s.writer # Copier
        /\ s.op = "send" => s.chan \in Channels
        /\ s.op = "push_all" => strategy = "KeyBy"
        /\ s.op = "copy" => strategy = "Broadcast"}

Init ==
    /\ strategy \in Strategies
    /\ writer = [w \in Writers |->
                    [buffer |-> IF w = Copier THEN 0 ELSE w - 1, len |-> 0]]
    /\ free = [b \in Buffers |-> \A w \in Writers \ {Copier} : b # w - 1]
    /\ curr_buffer = IF strategy = "KeyBy" THEN N ELSE 1 % Capacity
    /\ memory = [b \in Buffers |-> [i \in 1..BufferSize |-> 0]]
    /\ curr_index = 1
    /\ calls = <<>>
    /\ panicked = FALSE
    /\ mailbox = [c \in Channels |-> <<>>]
    /\ received = [c \in Channels |-> <<>>]
    /\ added = <<>>
    /\ lost = [c \in Channels |-> {}]
-----------------------------------------------------------------------------
(* The sender: a call of add or flush.                                      *)

\* The key range of a key, counted from 1; u64 arithmetic of a release build.
KeyIndex(key) == (((key % MaxKey) * N) % U64) \div MaxKey + 1

\* Forward buffers the event; a marker is flushed at once.  Broadcast and
\* RoundRobin have the same text.
ForwardAdd(call, e) ==
    IF call.kind = "marker" THEN <<Push(1, e), FlushOf(Channels)>> ELSE <<Push(1, e)>>
BroadcastAdd(call, e) == ForwardAdd(call, e)
RoundRobinAdd(call, e) == ForwardAdd(call, e)

\* Mutant: a marker waits in the buffers for more events.
KeyByWithoutFlush(call, e) ==
    IF call.kind = "marker" THEN <<PushAll(Channels, e)>>
    ELSE <<Push(KeyIndex(call.key), e)>>

\* KeyBy buffers an element with its key range, and a marker with every range.
KeyByAdd(call, e) ==
    IF call.kind = "marker" THEN <<PushAll(Channels, e), FlushOf(Channels)>>
    ELSE <<Push(KeyIndex(call.key), e)>>

AddSteps(call, e) ==
    IF call.kind = "flush" THEN <<FlushOf(Channels)>>
    ELSE CASE strategy = "Forward" -> ForwardAdd(call, e)
           [] strategy = "Broadcast" -> BroadcastAdd(call, e)
           [] strategy = "RoundRobin" -> RoundRobinAdd(call, e)
           [] strategy = "KeyBy" -> KeyByAdd(call, e)
           [] strategy = "Mute" -> <<>>

Idle == calls = <<>> /\ ~panicked

Running(op) == calls # <<>> /\ ~panicked /\ Head(calls).op = op

\* ChannelStrategy::add and ::flush.
Add(call) ==
    /\ Idle
    /\ Len(added) < MaxAdds
    /\ added' = Append(added, call)
    /\ calls' = AddSteps(call, Len(added) + 1)
    /\ UNCHANGED <<sender, mailbox, received, lost>>

\* KeyBy's flush_buffer.
FlushBuffer(w) == <<Send(w, w), Get(w)>>

\* A buffer that is full is flushed, and the push is tried again.
FlushFull(w) == IF strategy = "KeyBy" THEN FlushBuffer(w) ELSE <<FlushOf(Channels)>>

\* Mutant: the event that did not fit is forgotten.
PushIsFullForgetting ==
    /\ Running("push")
    /\ LET w == Head(calls).writer
       IN  /\ writer[w].len >= BufferSize
           /\ calls' = FlushFull(w) \o Tail(calls)
    /\ UNCHANGED <<sender, mailbox, received, added, lost>>

PushIsFull ==
    /\ Running("push")
    /\ LET w == Head(calls).writer
       IN  /\ writer[w].len >= BufferSize
           /\ calls' = FlushFull(w) \o calls
    /\ UNCHANGED <<sender, mailbox, received, added, lost>>

PushEvent ==
    /\ Running("push")
    /\ LET w == Head(calls).writer
           b == writer[w].buffer
           at == writer[w].len + 1
       IN  /\ at <= BufferSize
           /\ memory' = [memory EXCEPT ![b][at] = Head(calls).event]
           /\ writer' = [writer EXCEPT ![w].len = at]
    /\ calls' = Tail(calls)
    /\ UNCHANGED <<strategy, free, curr_buffer, curr_index, panicked, mailbox, received, added, lost>>

\* KeyBy's loop over its buffers, in the order of its hash map.
PushToNext ==
    /\ Running("push_all")
    /\ LET left == Head(calls).left
           e == Head(calls).event
       IN  \/ left = {} /\ calls' = Tail(calls)
           \/ \E w \in left :
                calls' = <<Push(w, e), PushAll(left \ {w}, e)>> \o Tail(calls)
    /\ UNCHANGED <<sender, mailbox, received, added, lost>>

\* The flushes: each is the set of what it may do next.
ForwardFlush == {<<Send(1, 1), Get(1)>>}
RoundRobinFlush == {<<Send(1, curr_index), Get(1)>>}

\* KeyBy flushes its buffers in the order of its hash map.
KeyByFlush(left) ==
    IF left = {} THEN {<<>>} ELSE {Append(FlushBuffer(w), FlushOf(left \ {w})) : w \in left}

\* Broadcast gives every channel but the last a copy.
CopyTo(c, left) == <<Get(Copier), Copy, Send(Copier, c), FlushOf(left \ {c})>>
First(left) == {c \in left : \A d \in left : c <= d}

BroadcastFlush(left) ==
    IF left = {N} THEN {<<Send(1, N), Get(1)>>} ELSE {CopyTo(c, left) : c \in First(left)}

FlushSteps(left) ==
    CASE strategy = "Forward" -> ForwardFlush
      [] strategy = "Broadcast" -> BroadcastFlush(left)
      [] strategy = "RoundRobin" -> RoundRobinFlush
      [] strategy = "KeyBy" -> KeyByFlush(left)
      [] strategy = "Mute" -> {<<>>}

Flush ==
    /\ Running("flush")
    /\ \E steps \in FlushSteps(Head(calls).left) : calls' = steps \o Tail(calls)
    /\ UNCHANGED <<sender, mailbox, received, added, lost>>

\* The events a writer has buffered.
Buffered(w) == SubSeq(memory[writer[w].buffer], 1, writer[w].len)

\* Mutant: the index is not reset after the last channel.
NextIndexNoReset ==
    curr_index' = IF strategy = "RoundRobin" THEN curr_index + 1 ELSE curr_index

\* RoundRobin moves on with every message.
NextIndex ==
    curr_index' = IF strategy = "RoundRobin" THEN (curr_index % N) + 1 ELSE curr_index

\* send to a local component: the message shares the buffer.
SendLocal ==
    /\ Running("send")
    /\ LET c == Head(calls).chan
           w == Head(calls).writer
       IN  /\ c \notin Remote
           /\ mailbox' = [mailbox EXCEPT ![c] = Append(@,
                 [buffer |-> writer[w].buffer, len |-> writer[w].len,
                  current |-> 0, events |-> <<>>])]
    /\ NextIndex
    /\ calls' = Tail(calls)
    /\ UNCHANGED <<strategy, pool, writer, panicked, received, added, lost>>

\* send to a remote one: `message.into()' copies the events, and dropping the
\* message frees its buffer.
SendRemote ==
    /\ Running("send")
    /\ LET c == Head(calls).chan
           w == Head(calls).writer
       IN  /\ c \in Remote
           /\ mailbox' = [mailbox EXCEPT ![c] = Append(@,
                 [buffer |-> NoBuffer, len |-> 0, current |-> 0,
                  events |-> Buffered(w)])]
           /\ free' = [free EXCEPT ![writer[w].buffer] = TRUE]
    /\ NextIndex
    /\ calls' = Tail(calls)
    /\ UNCHANGED <<strategy, memory, curr_buffer, writer, panicked, received, added, lost>>

\* Mutant: a message that could not be sent keeps its buffer.
SendFailsLeaking ==
    /\ Running("send")
    /\ Head(calls).chan \in Remote
    /\ "Other" \in SerErrors
    /\ NextIndex
    /\ calls' = Tail(calls)
    /\ UNCHANGED <<strategy, pool, writer, panicked, mailbox, received, added, lost>>

\* tell_serialised fails: a BufferError panics, any other error is ignored.
SendFails ==
    /\ Running("send")
    /\ LET c == Head(calls).chan
           w == Head(calls).writer
       IN  /\ c \in Remote
           /\ lost' = [lost EXCEPT ![c] = @ \cup ToSet(Buffered(w))]
           /\ free' = [free EXCEPT ![writer[w].buffer] = TRUE]
    /\ \/ "BufferError" \in SerErrors /\ panicked' = TRUE /\ UNCHANGED curr_index
       \/ "Other" \in SerErrors /\ NextIndex /\ UNCHANGED panicked
    /\ calls' = Tail(calls)
    /\ UNCHANGED <<strategy, memory, curr_buffer, writer, mailbox, received, added>>

\* Mutant: the index stays where no free buffer was found.
TryGetStaying ==
    /\ Running("get")
    /\ free[curr_buffer]
    /\ free' = [free EXCEPT ![curr_buffer] = FALSE]
    /\ writer' = [writer EXCEPT ![Head(calls).writer] = [buffer |-> curr_buffer, len |-> 0]]
    /\ calls' = Tail(calls)
    /\ curr_buffer' = (curr_buffer + 1) % Capacity
    /\ UNCHANGED <<strategy, memory, curr_index, panicked, mailbox, received, added, lost>>

\* One pass of the loop of BufferPool::get: try_get looks at one buffer.
TryGet ==
    /\ Running("get")
    /\ \/ /\ free[curr_buffer]
          /\ free' = [free EXCEPT ![curr_buffer] = FALSE]
          /\ writer' = [writer EXCEPT ![Head(calls).writer] =
                            [buffer |-> curr_buffer, len |-> 0]]
          /\ calls' = Tail(calls)
       \/ ~free[curr_buffer] /\ UNCHANGED <<free, writer, calls>>
    /\ curr_buffer' = (curr_buffer + 1) % Capacity
    /\ UNCHANGED <<strategy, memory, curr_index, panicked, mailbox, received, added, lost>>

\* copy_from_writer(&self.curr_buffer).
CopyFromWriter ==
    /\ Running("copy")
    /\ memory' = [memory EXCEPT ![writer[Copier].buffer] =
                    [i \in 1..BufferSize |->
                        IF i <= writer[1].len THEN memory[writer[1].buffer][i] ELSE @[i]]]
    /\ writer' = [writer EXCEPT ![Copier].len = writer[1].len]
    /\ calls' = Tail(calls)
    /\ UNCHANGED <<strategy, free, curr_buffer, curr_index, panicked, mailbox, received, added, lost>>

SenderStep ==
    \/ PushIsFull \/ PushEvent \/ PushToNext \/ Flush
    \/ SendLocal \/ SendRemote \/ SendFails \/ TryGet \/ CopyFromWriter
-----------------------------------------------------------------------------
(* The receiver behind a channel (stream/node): it handles one message of   *)
(* its mailbox at a time.                                                   *)

HasMessage(c, local) == mailbox[c] # <<>> /\ (Head(mailbox[c]).buffer # NoBuffer) = local

\* Reads the memory of the message being handled, from `from' to `to'.
ReadUpTo(c, to) ==
    LET m == Head(mailbox[c])
    IN  /\ received' = [received EXCEPT ![c] =
                            @ \o SubSeq(memory[m.buffer], m.current + 1, to)]
        /\ mailbox' = [mailbox EXCEPT ![c][1].current = to]
        /\ UNCHANGED <<sender, calls, added, lost>>

\* Mutant: the last event is not read.
ReadAllButLast(c) ==
    /\ HasMessage(c, TRUE)
    /\ Head(mailbox[c]).current + 1 < Head(mailbox[c]).len
    /\ ReadUpTo(c, Head(mailbox[c]).current + 1)

\* IntoIter::next.
ReadNext(c) ==
    /\ HasMessage(c, TRUE)
    /\ Head(mailbox[c]).current < Head(mailbox[c]).len
    /\ ReadUpTo(c, Head(mailbox[c]).current + 1)

\* into_vec: a message of a blocked channel is copied into message_buffer.
IntoVec(c) ==
    /\ HasMessage(c, TRUE)
    /\ Head(mailbox[c]).current = 0 /\ Head(mailbox[c]).len > 0
    /\ ReadUpTo(c, Head(mailbox[c]).len)

\* The message is dropped, and with it the reader.
DropReader(c) ==
    /\ HasMessage(c, TRUE)
    /\ Head(mailbox[c]).current = Head(mailbox[c]).len
    /\ free' = [free EXCEPT ![Head(mailbox[c]).buffer] = TRUE]
    /\ mailbox' = [mailbox EXCEPT ![c] = Tail(@)]
    /\ UNCHANGED <<strategy, memory, curr_buffer, writer, curr_index, panicked, calls, received, added, lost>>

\* A RawArconMessage from the network.
ReceiveRaw(c) ==
    /\ HasMessage(c, FALSE)
    /\ received' = [received EXCEPT ![c] = @ \o Head(mailbox[c]).events]
    /\ mailbox' = [mailbox EXCEPT ![c] = Tail(@)]
    /\ UNCHANGED <<sender, calls, added, lost>>

Receive(c) == ReadNext(c) \/ IntoVec(c) \/ DropReader(c) \/ ReceiveRaw(c)
-----------------------------------------------------------------------------
Next ==
    \/ \E call \in Call : Add(call)
    \/ SenderStep
    \/ \E c \in Channels : Receive(c)

\* A component that has a message, or is in the middle of a handler, is
\* scheduled on.  Nothing makes the caller of add go on.
Fairness == WF_vars(SenderStep) /\ \A c \in Channels : WF_vars(Receive(c))

Spec == Init /\ [][Next]_vars /\ Fairness
-----------------------------------------------------------------------------
(* The reference: which channels each event is for, from the calls alone.   *)

\* The elements between the last marker or flush and call n: for RoundRobin,
\* what is pushed into one buffer after the other since then.
Run(n) == {k \in 1..(n - 1) : \A j \in k..(n - 1) : added[j].kind = "element"}

\* An event that finds RoundRobin's buffer full starts the next message.
Overflows(n) ==
    added[n].kind # "flush" /\ Run(n) # {} /\ Cardinality(Run(n)) % BufferSize = 0

\* How many messages RoundRobin has sent after call n: a marker, and a flush,
\* ends one.
Sent(n) ==
    Cardinality({k \in 1..n : added[k].kind # "element"})
        + Cardinality({k \in 1..n : Overflows(k)})

\* Turns: the channel of RoundRobin's message number m, counted from 0.
Turn(m) == (m % N) + 1

IsFor(n, c) ==
    /\ added[n].kind # "flush"
    /\ CASE strategy = "KeyBy" -> added[n].kind = "marker" \/ KeyIndex(added[n].key) = c
         [] strategy = "RoundRobin" ->
              c = Turn(IF added[n].kind = "marker" THEN Sent(n) - 1 ELSE Sent(n))
         [] strategy = "Forward" -> c = 1
         [] OTHER -> strategy # "Mute"

Expected(c) == {n \in DOMAIN added : IsFor(n, c) /\ n \notin lost[c]}

\* What a message still holds.
Contents(m) ==
    IF m.buffer = NoBuffer THEN m.events
    ELSE SubSeq(memory[m.buffer], m.current + 1, m.len)

\* What a writer holds for channel c between two calls.
Unsent(c) ==
    CASE strategy = "KeyBy" -> Buffered(c)
      [] strategy = "RoundRobin" /\ c # curr_index -> <<>>
      [] strategy = "Forward" /\ c # 1 -> <<>>
      [] OTHER -> Buffered(1)

\* The events of channel c: part 0 is what its receiver has taken out, the next
\* parts are what its messages still hold, and the last one is in a writer. A
\* place is a part and a position in it.
Part(c, i) ==
    CASE i = 0 -> received[c]
      [] i \in DOMAIN mailbox[c] -> Contents(mailbox[c][i])
      [] OTHER -> Unsent(c)
Places(c, parts) == UNION {{i} \X DOMAIN Part(c, i) : i \in parts}
EventAt(c, p) == Part(c, p[1])[p[2]]
Before(p, q) == p[1] < q[1] \/ (p[1] = q[1] /\ p[2] < q[2])
InOrder(c, parts) ==
    \A p, q \in Places(c, parts) : Before(p, q) => EventAt(c, p) < EventAt(c, q)
EventsIn(c, parts) == {EventAt(c, p) : p \in Places(c, parts)}

\* A writer whose buffer is sent holds on to it until it gets another one.
Uses(w) == {k \in DOMAIN calls : calls[k].writer = w /\ calls[k].op \in {"push", "send", "copy", "get"}}
Owns(w) ==
    LET first == calls[CHOOSE k \in Uses(w) : \A j \in Uses(w) : k <= j].op
    IN  IF Uses(w) = {} THEN w # Copier ELSE first # "get"
Owners == {w \in Writers : Owns(w)}

\* The holders of a buffer: writer w as <<w, 0>>, message i of channel c as
\* <<c, i>>.
Holders ==
    (Owners \X {0}) \cup
    UNION {{c} \X {i \in DOMAIN mailbox[c] : mailbox[c][i].buffer # NoBuffer} : c \in Channels}
Held(h) == IF h[2] = 0 THEN writer[h[1]].buffer ELSE mailbox[h[1]][h[2]].buffer
-----------------------------------------------------------------------------
(* Properties.                                                              *)

\* Every variable has its type: writers and the pool index stay within the
\* pool and within a buffer (EventBuffer::push, index_incr), and every send
\* goes to a channel that exists (the panics "Bad channel setup" of RoundRobin
\* and "Bad KeyBy setup" are unreachable).
TypeOK ==
    /\ strategy \in Strategies
    /\ free \in [Buffers -> BOOLEAN]
    /\ memory \in [Buffers -> [1..BufferSize -> Event]]
    /\ curr_buffer \in Buffers
    /\ writer \in [Writers -> [buffer : Buffers, len : 0..BufferSize]]
    /\ curr_index \in Channels
    /\ calls \in Seq(Steps)
    /\ panicked \in BOOLEAN
    /\ mailbox \in [Channels -> Seq(Message)]
    /\ received \in [Channels -> Seq(Event)]
    /\ added \in Seq(Call)
    /\ lost \in [Channels -> SUBSET Event]

\* Every event reaches each channel it is for exactly once and in the order of
\* the calls of add, none reaches another channel, and between calls nothing
\* is anywhere else than with the receiver, in its mailbox or in a writer: no
\* buffer is written to while it is read, and a retried push loses nothing.
\* Only events of a message that tell_serialised refused are missing.
EveryEventOnceInOrder ==
    \A c \in Channels :
        LET sent == 0..Len(mailbox[c])
            all == 0..(Len(mailbox[c]) + 1)
        IN  /\ InOrder(c, sent)
            /\ EventsIn(c, sent) \subseteq Expected(c)
            /\ \A e \in EventsIn(c, sent), n \in Expected(c) \ EventsIn(c, sent) : e < n
            /\ Idle => InOrder(c, all) /\ EventsIn(c, all) = Expected(c)

\* EventBuffer "Assumes a single-writer, single-reader setup": a buffer that is
\* not free has exactly one holder, a writer or a message, and a free one has
\* none, so that the pool neither hands out a buffer twice nor loses one.
OneHolder ==
    /\ \A h \in Holders : ~free[Held(h)]
    /\ \A g, h \in Holders : Held(g) = Held(h) => g = h
    /\ \A b \in Buffers : ~free[b] => \E h \in Holders : Held(h) = b

\* A marker is the last event of its message, so that what follows an epoch is
\* in a message of its own: a receiver that blocks the channel at the marker
\* blocks everything after it (the Node's handle_events does not look at
\* blocked_channels inside a message).
MarkersEndMessages ==
    \A c \in Channels : \A i \in DOMAIN mailbox[c] :
        LET s == Contents(mailbox[c][i])
        IN  \A k \in DOMAIN s : added[s[k]].kind = "marker" => k = Len(s)

\* A call of add or flush returns: BufferPool::get, which polls one buffer
\* after the other, finds one, although some of them belong to writers that
\* are not being flushed.
AddReturns == []<>(calls = <<>> \/ panicked)

\* A watermark, an epoch or a Death reaches every channel it is for without
\* any further call of add, unless the message is lost: it never waits in a
\* buffer for more events, so that again and again every marker has arrived.
MarkersArrive ==
    []<>(\A c \in Channels : \A n \in DOMAIN added :
            added[n].kind = "marker" /\ IsFor(n, c)
                => Contains(received[c], n) \/ n \in lost[c] \/ panicked)
=============================================================================
