---------------------- MODULE ChannelStrategies_proofs ----------------------
(****************************************************************************)
(* Proofs about ChannelStrategies, for every strategy, number of channels,  *)
(* pool and buffer size.                                                    *)
(****************************************************************************)
EXTENDS ChannelStrategies, SequenceTheorems, FiniteSetTheorems, TLAPS

(* Products are beyond the SMT solver unless they are named.                *)
LEMMA MulBound ==
    ASSUME NEW k \in Nat, NEW m \in Nat, NEW n \in Nat, n > 0, k < m
    PROVE  k * n \in Nat /\ m * n \in Nat /\ k * n < m * n
  OBVIOUS

\* The bounds of a quotient,
LEMMA DivBound ==
    ASSUME NEW x \in Nat, NEW m \in Nat, NEW n \in Nat, m > 0, x < m * n
    PROVE  x \div m \in 0..(n - 1)
  OBVIOUS

\* and of a remainder.
LEMMA ModBound ==
    ASSUME NEW x \in Nat, NEW m \in Nat, m > 0
    PROVE  x % m \in 0..(m - 1) /\ x % m <= x
  OBVIOUS

(* KeyBy::add always finds the key range it computes, also when             *)
(* `key * key_ranges' wraps around: panic!("Bad KeyBy setup") is            *)
(* unreachable.                                                             *)
THEOREM KeyRangesCover == \A key \in Nat : KeyIndex(key) \in Channels
<1> SUFFICES ASSUME NEW key \in Nat PROVE KeyIndex(key) \in Channels
  OBVIOUS
<1> DEFINE k == key % MaxKey
           x == (k * N) % U64
<1>1. N \in Nat /\ N > 0 /\ MaxKey \in Nat /\ MaxKey > 0 /\ U64 \in Nat /\ U64 > 0
  BY StrategyAssumption, KeyAssumption
<1>2. k \in Nat /\ k < MaxKey
  BY <1>1, ModBound
<1>3. k * N \in Nat /\ MaxKey * N \in Nat /\ k * N < MaxKey * N
  BY <1>1, <1>2, MulBound
<1> HIDE DEF k
<1>4. x \in Nat /\ x <= k * N
  BY <1>1, <1>3, ModBound
<1> HIDE DEF x
<1>5. x < MaxKey * N
  BY <1>3, <1>4
<1>6. x \div MaxKey \in 0..(N - 1)
  BY <1>1, <1>4, <1>5, DivBound
<1> QED
  BY <1>1, <1>6 DEF KeyIndex, Channels, x, k

-----------------------------------------------------------------------------
(* Types.                                                                   *)

\* A strategy does not change, and with it its writers and their steps.
LEMMA SameStrategy ==
    ASSUME strategy' = strategy
    PROVE  Writers' = Writers /\ Steps' = Steps
<1>1. Writers' = Writers
  BY DEF Writers
<1> QED
  BY <1>1 DEF Steps

\* The writers there are.
LEMMA WriterFacts ==
    /\ Copier \in Writers
    /\ strategy = "KeyBy" => Channels = Writers \ {Copier}
    /\ strategy # "KeyBy" => 1 \in Writers \ {Copier}
    /\ 1 \in Channels /\ N \in Channels
  BY StrategyAssumption DEF Writers, Copier, Channels

\* Each entry of `calls' that the actions make is one.
LEMMA StepTypes ==
    /\ \A w \in Writers \ {Copier}, e \in Event : Push(w, e) \in Steps
    /\ \A left \in SUBSET Channels, e \in Event :
          strategy = "KeyBy" => PushAll(left, e) \in Steps
    /\ \A left \in SUBSET Channels : FlushOf(left) \in Steps
    /\ \A w \in Writers, c \in Channels : Send(w, c) \in Steps
    /\ \A w \in Writers : Get(w) \in Steps
    /\ strategy = "Broadcast" => Copy \in Steps
<1>1. 0 \in Event /\ 0 \in 0..N /\ 0 \in Writers /\ Channels \subseteq 0..N
  BY WriterFacts, StrategyAssumption, BoundAssumption DEF Event, Copier, Channels
<1> QED
  BY <1>1 DEF Steps, Step, Push, PushAll, FlushOf, Send, Get, Copy, Copier

\* What add and flush leave to do.
LEMMA AddStepsType ==
    ASSUME strategy \in Strategies, NEW call \in Call, NEW e \in Event
    PROVE  AddSteps(call, e) \in Seq(Steps)
<1>1. Channels \in SUBSET Channels
  OBVIOUS
<1>2. call.kind = "element" => KeyIndex(call.key) \in Channels
  BY KeyRangesCover, KeyAssumption DEF Call
<1>3. call.kind \in {"element", "marker", "flush"}
  BY DEF Call
<1>4. FlushOf(Channels) \in Steps
  BY <1>1, StepTypes
<1>5. CASE call.kind = "flush"
  <2>1. AddSteps(call, e) = <<FlushOf(Channels)>>
    BY <1>5 DEF AddSteps
  <2> QED
    BY <1>4, <2>1
<1>6. CASE call.kind # "flush" /\ strategy = "KeyBy"
  <2>1. PushAll(Channels, e) \in Steps
    BY <1>1, <1>6, StepTypes
  <2>2. call.kind = "element" => Push(KeyIndex(call.key), e) \in Steps
    BY <1>2, <1>6, StepTypes, WriterFacts
  <2>3. AddSteps(call, e) = KeyByAdd(call, e)
    BY <1>6 DEF AddSteps
  <2>4. CASE call.kind = "marker"
    BY <1>4, <2>1, <2>3, <2>4 DEF KeyByAdd
  <2>5. CASE call.kind = "element"
    BY <2>2, <2>3, <2>5 DEF KeyByAdd
  <2> QED
    BY <1>3, <1>6, <2>4, <2>5
<1>7. CASE call.kind # "flush" /\ strategy = "Mute"
  BY <1>7 DEF AddSteps
<1>8. CASE call.kind # "flush" /\ strategy \in {"Forward", "Broadcast", "RoundRobin"}
  <2>1. Push(1, e) \in Steps
    BY <1>8, StepTypes, WriterFacts
  <2> QED
    BY <1>4, <1>8, <2>1 DEF AddSteps, ForwardAdd, BroadcastAdd, RoundRobinAdd
<1> QED
  BY <1>5, <1>6, <1>7, <1>8, StrategyAssumption

\* What a flush puts in front of `calls' are steps.
LEMMA FlushStepsType ==
    ASSUME strategy \in Strategies, NEW left \in SUBSET Channels, curr_index \in Channels,
           NEW steps \in FlushSteps(left)
    PROVE  steps \in Seq(Steps)
<1>1. CASE strategy = "Forward"
  <2>1. steps = <<Send(1, 1), Get(1)>>
    BY <1>1 DEF FlushSteps, ForwardFlush
  <2>2. Send(1, 1) \in Steps /\ Get(1) \in Steps
    BY <1>1, StepTypes, WriterFacts
  <2> QED
    BY <2>1, <2>2
<1>2. CASE strategy = "RoundRobin"
  <2>1. steps = <<Send(1, curr_index), Get(1)>>
    BY <1>2 DEF FlushSteps, RoundRobinFlush
  <2>2. Send(1, curr_index) \in Steps /\ Get(1) \in Steps
    BY <1>2, StepTypes, WriterFacts
  <2> QED
    BY <2>1, <2>2
<1>3. CASE strategy = "KeyBy"
  <2>1. steps \in KeyByFlush(left)
    BY <1>3 DEF FlushSteps
  <2>2. CASE left = {}
    BY <2>1, <2>2 DEF KeyByFlush
  <2>3. CASE left # {}
    <3>1. PICK w \in left : steps = Append(FlushBuffer(w), FlushOf(left \ {w}))
      BY <2>1, <2>3 DEF KeyByFlush
    <3>2. Send(w, w) \in Steps /\ Get(w) \in Steps /\ FlushOf(left \ {w}) \in Steps
      BY <1>3, StepTypes, WriterFacts
    <3> QED
      BY <3>1, <3>2 DEF FlushBuffer
  <2> QED
    BY <2>2, <2>3
<1>4. CASE strategy = "Broadcast"
  <2>1. steps \in BroadcastFlush(left)
    BY <1>4 DEF FlushSteps
  <2>2. CASE left = {N}
    <3>1. steps = <<Send(1, N), Get(1)>>
      BY <2>1, <2>2 DEF BroadcastFlush
    <3>2. Send(1, N) \in Steps /\ Get(1) \in Steps
      BY <1>4, StepTypes, WriterFacts
    <3> QED
      BY <3>1, <3>2
  <2>3. CASE left # {N}
    <3>1. PICK c \in left : steps = CopyTo(c, left)
      BY <2>1, <2>3 DEF BroadcastFlush, First
    <3>2. /\ Get(Copier) \in Steps /\ Copy \in Steps
          /\ Send(Copier, c) \in Steps /\ FlushOf(left \ {c}) \in Steps
      BY <1>4, StepTypes, WriterFacts
    <3> QED
      BY <3>1, <3>2 DEF CopyTo
  <2> QED
    BY <2>2, <2>3
<1>5. CASE strategy = "Mute"
  BY <1>5 DEF FlushSteps
<1> QED
  BY <1>1, <1>2, <1>3, <1>4, <1>5, StrategyAssumption

\* What is read from a buffer are events.
LEMMA ReadType ==
    ASSUME TypeOK, NEW b \in Buffers, NEW from \in Nat, from > 0, NEW to \in 0..BufferSize
    PROVE  SubSeq(memory[b], from, to) \in Seq(Event)
<1>1. \A i \in from..to : memory[b][i] \in Event
  BY PoolAssumption DEF TypeOK
<1> QED
  BY <1>1, SubSeqProperties

\* The head of `calls', and what is left of them.
LEMMA HeadType ==
    ASSUME TypeOK, NEW op, Running(op)
    PROVE  /\ Head(calls) \in Steps
           /\ Head(calls).op = op
           /\ Tail(calls) \in Seq(Steps)
           /\ Head(calls).writer \in Writers
           /\ Head(calls).left \in SUBSET Channels
           /\ Head(calls).event \in Event
           /\ writer[Head(calls).writer] \in [buffer : Buffers, len : 0..BufferSize]
<1>1. calls \in Seq(Steps) /\ calls # <<>> /\ Head(calls).op = op
  BY DEF TypeOK, Running
<1>2. Head(calls) \in Steps /\ Tail(calls) \in Seq(Steps)
  BY <1>1, HeadTailProperties
<1>3. Head(calls).writer \in Writers
  BY <1>2 DEF Steps
<1>4. Head(calls).left \in SUBSET Channels /\ Head(calls).event \in Event
  BY <1>2 DEF Steps
<1> QED
  BY <1>1, <1>2, <1>3, <1>4 DEF TypeOK

(* The type invariant is inductive.                                         *)
LEMMA TypeInit == Init => TypeOK
<1> SUFFICES ASSUME Init PROVE TypeOK
  OBVIOUS
<1>1. /\ N \in Nat /\ N > 0 /\ Capacity \in Nat /\ Capacity > 0
      /\ BufferSize \in Nat /\ MaxAdds \in Nat
      /\ strategy = "KeyBy" => N < Capacity
  BY StrategyAssumption, PoolAssumption, BoundAssumption DEF Init
<1>2. \A w \in Writers : (IF w = Copier THEN 0 ELSE w - 1) \in Buffers
  BY <1>1 DEF Writers, Copier, Channels, Buffers
<1>3. writer \in [Writers -> [buffer : Buffers, len : 0..BufferSize]]
  BY <1>1, <1>2 DEF Init
<1>4. curr_buffer \in Buffers
  BY <1>1 DEF Init, Buffers
<1>5. free \in [Buffers -> BOOLEAN]
  BY DEF Init
<1>6. memory \in [Buffers -> [1..BufferSize -> Event]]
  BY <1>1 DEF Init, Event
<1>7. curr_index \in Channels
  BY <1>1 DEF Init, Channels
<1>8. panicked \in BOOLEAN
  BY DEF Init
<1>9. /\ calls \in Seq(Steps)
      /\ added \in Seq(Call)
      /\ mailbox \in [Channels -> Seq(Message)]
      /\ received \in [Channels -> Seq(Event)]
  BY EmptySeq DEF Init
<1>10. strategy \in Strategies /\ lost \in [Channels -> SUBSET Event]
  BY DEF Init
<1> QED
  BY <1>3, <1>4, <1>5, <1>6, <1>7, <1>8, <1>9, <1>10 DEF TypeOK

\* The types under each action, one lemma per group of actions.
LEMMA AddKeepsTypes ==
    ASSUME TypeOK, NEW call \in Call, Add(call)
    PROVE  TypeOK'
<1>0. strategy' = strategy /\ Writers' = Writers /\ Steps' = Steps
  BY SameStrategy DEF Add, sender
<1>1. Len(added) \in Nat /\ Len(added) + 1 \in Event
  BY <1>0, BoundAssumption DEF TypeOK, Add, Event
<1>2. calls' \in Seq(Steps)
  BY <1>0, <1>1, AddStepsType DEF Add, TypeOK
<1>3. added' \in Seq(Call)
  BY <1>0 DEF Add, TypeOK
<1> QED
  BY <1>0, <1>2, <1>3 DEF Add, TypeOK, sender, pool

\* A full buffer.
LEMMA PushIsFullKeepsTypes ==
    ASSUME TypeOK, PushIsFull
    PROVE  TypeOK'
<1>0. strategy' = strategy /\ Writers' = Writers /\ Steps' = Steps
  BY SameStrategy DEF PushIsFull, sender
<1> DEFINE w == Head(calls).writer
<1>1. w \in Writers /\ w # Copier /\ calls \in Seq(Steps)
  BY <1>0, HeadType DEF PushIsFull, TypeOK, Steps
<1>2. FlushFull(w) \in Seq(Steps)
  <2>1. CASE strategy = "KeyBy"
    <3>1. Send(w, w) \in Steps /\ Get(w) \in Steps
      BY <1>1, <2>1, StepTypes, WriterFacts
    <3> QED
      BY <2>1, <3>1 DEF FlushFull, FlushBuffer
  <2>2. CASE strategy # "KeyBy"
    <3>1. FlushOf(Channels) \in Steps
      BY StepTypes
    <3> QED
      BY <2>2, <3>1 DEF FlushFull
  <2> QED
    BY <2>1, <2>2
<1>3. calls' \in Seq(Steps)
  BY <1>1, <1>2, ConcatProperties DEF PushIsFull
<1> QED
  BY <1>0, <1>3 DEF PushIsFull, TypeOK, sender, pool

\* EventBuffer::push.
LEMMA PushEventKeepsTypes ==
    ASSUME TypeOK, PushEvent
    PROVE  TypeOK'
<1>0. strategy' = strategy /\ Writers' = Writers /\ Steps' = Steps
  BY SameStrategy DEF PushEvent
<1> DEFINE w == Head(calls).writer
           b == writer[w].buffer
           at == writer[w].len + 1
<1>1. /\ w \in Writers /\ b \in Buffers /\ at \in 1..BufferSize
      /\ Head(calls).event \in Event /\ Tail(calls) \in Seq(Steps)
  BY HeadType, PoolAssumption DEF PushEvent
<1>2. memory' \in [Buffers -> [1..BufferSize -> Event]]
  BY <1>0, <1>1 DEF PushEvent, TypeOK
<1>3. writer' \in [Writers -> [buffer : Buffers, len : 0..BufferSize]]
  <2>1. [writer[w] EXCEPT !.len = at] \in [buffer : Buffers, len : 0..BufferSize]
    <3>1. at \in 0..BufferSize /\ writer[w] \in [buffer : Buffers, len : 0..BufferSize]
      BY <1>0, <1>1, PoolAssumption DEF TypeOK
    <3> HIDE DEF at
    <3> QED
      BY <3>1
  <2>2. writer' = [writer EXCEPT ![w] = [writer[w] EXCEPT !.len = at]]
    BY <1>0, <1>1 DEF PushEvent, TypeOK
  <2> QED
    BY <1>0, <1>1, <2>1, <2>2 DEF TypeOK
<1> QED
  BY <1>0, <1>1, <1>2, <1>3 DEF PushEvent, TypeOK

\* KeyBy's loop over its buffers.
LEMMA PushToNextKeepsTypes ==
    ASSUME TypeOK, PushToNext
    PROVE  TypeOK'
<1>0. strategy' = strategy /\ Writers' = Writers /\ Steps' = Steps
  BY SameStrategy DEF PushToNext, sender
<1> DEFINE left == Head(calls).left
           e == Head(calls).event
<1>1. /\ left \in SUBSET Channels /\ e \in Event /\ Tail(calls) \in Seq(Steps)
      /\ strategy = "KeyBy"
  BY HeadType DEF PushToNext, Steps
<1>2. calls' \in Seq(Steps)
  <2>1. CASE calls' = Tail(calls)
    BY <1>1, <2>1
  <2>2. ASSUME NEW w \in left,
               calls' = <<Push(w, e), PushAll(left \ {w}, e)>> \o Tail(calls)
        PROVE  calls' \in Seq(Steps)
    <3>1. Push(w, e) \in Steps /\ PushAll(left \ {w}, e) \in Steps
      BY <1>1, StepTypes, WriterFacts
    <3> QED
      BY <1>1, <2>2, <3>1, ConcatProperties
  <2> QED
    BY <2>1, <2>2 DEF PushToNext
<1> QED
  BY <1>0, <1>2 DEF PushToNext, TypeOK, sender, pool

\* The flushes.
LEMMA FlushKeepsTypes ==
    ASSUME TypeOK, Flush
    PROVE  TypeOK'
<1>0. strategy' = strategy /\ Writers' = Writers /\ Steps' = Steps
  BY SameStrategy DEF Flush, sender
<1>1. Head(calls).left \in SUBSET Channels /\ Tail(calls) \in Seq(Steps)
  BY HeadType DEF Flush
<1>2. PICK steps \in FlushSteps(Head(calls).left) : calls' = steps \o Tail(calls)
  BY DEF Flush
<1>3. steps \in Seq(Steps)
  BY <1>0, <1>1, FlushStepsType DEF TypeOK
<1>4. calls' \in Seq(Steps)
  BY <1>1, <1>2, <1>3, ConcatProperties
<1> QED
  BY <1>0, <1>4 DEF Flush, TypeOK, sender, pool

\* RoundRobin's index stays within its channels.
LEMMA NextIndexType ==
    ASSUME TypeOK, NextIndex
    PROVE  curr_index' \in Channels
  BY StrategyAssumption DEF NextIndex, TypeOK, Channels

\* The sends.
LEMMA SendKeepsTypes ==
    ASSUME TypeOK, SendLocal \/ SendRemote \/ SendFails
    PROVE  TypeOK'
<1>0. strategy' = strategy /\ Writers' = Writers /\ Steps' = Steps
  BY SameStrategy DEF SendLocal, SendRemote, SendFails
<1> DEFINE c == Head(calls).chan
           w == Head(calls).writer
<1>1. /\ c \in Channels /\ w \in Writers /\ Tail(calls) \in Seq(Steps)
      /\ writer[w].buffer \in Buffers /\ writer[w].len \in 0..BufferSize
  BY HeadType DEF SendLocal, SendRemote, SendFails, Steps
<1>2. ASSUME NEW m \in Message, mailbox' = [mailbox EXCEPT ![c] = Append(@, m)]
      PROVE  mailbox' \in [Channels -> Seq(Message)]
  BY <1>0, <1>1, <1>2 DEF TypeOK
<1>3. CASE SendLocal
  <2>1. [buffer |-> writer[w].buffer, len |-> writer[w].len, current |-> 0,
         events |-> <<>>] \in Message
    BY <1>1, EmptySeq, PoolAssumption DEF Message
  <2>2. mailbox' \in [Channels -> Seq(Message)]
    BY <1>2, <1>3, <2>1 DEF SendLocal
  <2> QED
    BY <1>0, <1>1, <1>3, <2>2, NextIndexType DEF SendLocal, TypeOK, pool
<1>4. CASE SendRemote
  <2>1. Buffered(w) \in Seq(Event)
    BY <1>1, ReadType DEF Buffered
  <2>2. [buffer |-> NoBuffer, len |-> 0, current |-> 0, events |-> Buffered(w)] \in Message
    BY <2>1, PoolAssumption DEF Message
  <2>3. mailbox' \in [Channels -> Seq(Message)]
    BY <1>2, <1>4, <2>2 DEF SendRemote
  <2> QED
    BY <1>0, <1>1, <1>4, <2>3, NextIndexType DEF SendRemote, TypeOK
<1>5. CASE SendFails
  <2>1. curr_index' \in Channels /\ panicked' \in BOOLEAN
    BY <1>0, <1>5, NextIndexType DEF SendFails, TypeOK
  <2>2. Buffered(w) \in Seq(Event)
    BY <1>1, ReadType DEF Buffered
  <2>3. ToSet(Buffered(w)) \subseteq Event
    BY <2>2 DEF ToSet
  <2>4. lost' \in [Channels -> SUBSET Event]
    BY <1>1, <1>5, <2>3 DEF SendFails, TypeOK
  <2> QED
    BY <1>0, <1>1, <1>5, <2>1, <2>4 DEF SendFails, TypeOK
<1> QED
  BY <1>3, <1>4, <1>5

\* BufferPool::get and copy_from_writer.
LEMMA GetAndCopyKeepTypes ==
    ASSUME TypeOK, TryGet \/ CopyFromWriter
    PROVE  TypeOK'
<1>0. strategy' = strategy /\ Writers' = Writers /\ Steps' = Steps
  BY SameStrategy DEF TryGet, CopyFromWriter
<1>1. CASE TryGet
  <2>1. Head(calls).writer \in Writers /\ Tail(calls) \in Seq(Steps)
    BY <1>1, HeadType DEF TryGet
  <2>2. curr_buffer \in Buffers /\ curr_buffer' \in Buffers
    BY <1>0, <1>1, PoolAssumption DEF TryGet, TypeOK, Buffers
  <2>3. writer' \in [Writers -> [buffer : Buffers, len : 0..BufferSize]]
    <3>1. [buffer |-> curr_buffer, len |-> 0] \in [buffer : Buffers, len : 0..BufferSize]
      BY <2>2, PoolAssumption
    <3> QED
      BY <1>0, <1>1, <2>1, <3>1 DEF TryGet, TypeOK
  <2> QED
    BY <1>0, <1>1, <2>1, <2>2, <2>3 DEF TryGet, TypeOK
<1>2. CASE CopyFromWriter
  <2>1. Tail(calls) \in Seq(Steps) /\ strategy = "Broadcast"
    BY <1>2, HeadType DEF CopyFromWriter, Steps
  <2>2. 1 \in Writers /\ Copier \in Writers
    BY <2>1, WriterFacts
  <2>3. /\ writer[1].buffer \in Buffers /\ writer[1].len \in 0..BufferSize
        /\ writer[Copier].buffer \in Buffers
    BY <1>0, <2>2 DEF TypeOK
  <2>4. memory' \in [Buffers -> [1..BufferSize -> Event]]
    <3> DEFINE copy == [i \in 1..BufferSize |->
                          IF i <= writer[1].len THEN memory[writer[1].buffer][i]
                          ELSE memory[writer[Copier].buffer][i]]
    <3>1. copy \in [1..BufferSize -> Event]
      BY <1>0, <2>3, PoolAssumption DEF TypeOK
    <3>2. memory' = [memory EXCEPT ![writer[Copier].buffer] = copy]
      BY <1>0, <1>2, <2>3 DEF CopyFromWriter, TypeOK
    <3> QED
      BY <1>0, <2>3, <3>1, <3>2 DEF TypeOK
  <2>5. writer' \in [Writers -> [buffer : Buffers, len : 0..BufferSize]]
    <3>1. [writer[Copier] EXCEPT !.len = writer[1].len]
            \in [buffer : Buffers, len : 0..BufferSize]
      BY <1>0, <2>2, <2>3 DEF TypeOK
    <3>2. writer' = [writer EXCEPT ![Copier] = [writer[Copier] EXCEPT !.len = writer[1].len]]
      BY <1>0, <1>2, <2>2 DEF CopyFromWriter, TypeOK
    <3> QED
      BY <1>0, <2>2, <3>1, <3>2 DEF TypeOK
  <2> QED
    BY <1>0, <1>2, <2>1, <2>4, <2>5 DEF CopyFromWriter, TypeOK
<1> QED
  BY <1>1, <1>2

\* The receivers.
LEMMA ReceiveKeepsTypes ==
    ASSUME TypeOK, NEW c \in Channels, Receive(c)
    PROVE  TypeOK'
<1>0. strategy' = strategy /\ Writers' = Writers /\ Steps' = Steps
  BY SameStrategy DEF Receive, ReadNext, IntoVec, DropReader, ReceiveRaw, ReadUpTo, sender
<1> DEFINE m == Head(mailbox[c])
<1>1. /\ mailbox[c] \in Seq(Message) /\ mailbox[c] # <<>>
      /\ received[c] \in Seq(Event)
  BY <1>0 DEF TypeOK, Receive, ReadNext, IntoVec, DropReader, ReceiveRaw, HasMessage
<1>2. m \in Message /\ Tail(mailbox[c]) \in Seq(Message)
  BY <1>1, HeadTailProperties
<1>3. /\ m.current \in 0..BufferSize /\ m.len \in 0..BufferSize
      /\ m.buffer \in Buffers \cup {NoBuffer} /\ m.events \in Seq(Event)
  BY <1>2 DEF Message
<1>4. ASSUME NEW to \in 0..BufferSize, m.buffer \in Buffers, ReadUpTo(c, to)
      PROVE  TypeOK'
  <2>1. SubSeq(memory[m.buffer], m.current + 1, to) \in Seq(Event)
    <3>1. m.current + 1 \in Nat /\ m.current + 1 > 0
      BY <1>3, PoolAssumption
    <3> QED
      BY <1>4, <3>1, ReadType
  <2>2. received[c] \o SubSeq(memory[m.buffer], m.current + 1, to) \in Seq(Event)
    BY <1>1, <2>1, ConcatProperties
  <2>3. received' \in [Channels -> Seq(Event)]
    BY <1>0, <1>4, <2>2 DEF ReadUpTo, TypeOK
  <2> DEFINE box == [mailbox[c] EXCEPT ![1] = [m EXCEPT !.current = to]]
  <2>4. mailbox' = [mailbox EXCEPT ![c] = box]
    BY <1>0, <1>1, <1>4 DEF ReadUpTo, TypeOK
  <2>5. [m EXCEPT !.current = to] \in Message
    BY <1>2 DEF Message
  <2>6. 1 \in 1..Len(mailbox[c])
    BY <1>1, EmptySeq
  <2>7. box \in Seq(Message)
    BY <1>1, <2>5, <2>6, ExceptSeq
  <2>8. mailbox' \in [Channels -> Seq(Message)]
    BY <1>0, <2>4, <2>7 DEF TypeOK
  <2> QED
    BY <1>0, <1>4, <2>3, <2>8 DEF ReadUpTo, TypeOK, sender, pool
<1>5. CASE ReadNext(c)
  BY <1>3, <1>4, <1>5, PoolAssumption DEF ReadNext, HasMessage
<1>6. CASE IntoVec(c)
  BY <1>3, <1>4, <1>6 DEF IntoVec, HasMessage
<1>7. CASE DropReader(c)
  BY <1>0, <1>2, <1>7 DEF DropReader, TypeOK
<1>8. CASE ReceiveRaw(c)
  <2>1. received[c] \o m.events \in Seq(Event)
    BY <1>1, <1>3, ConcatProperties
  <2> QED
    BY <1>0, <1>2, <1>8, <2>1 DEF ReceiveRaw, TypeOK, sender, pool
<1> QED
  BY <1>5, <1>6, <1>7, <1>8 DEF Receive

\* Every step keeps the types.
LEMMA TypeStep == TypeOK /\ [Next]_vars => TypeOK'
<1> SUFFICES ASSUME TypeOK, [Next]_vars PROVE TypeOK'
  OBVIOUS
<1>1. CASE UNCHANGED vars
  BY <1>1, SameStrategy DEF vars, TypeOK
<1>2. ASSUME NEW call \in Call, Add(call) PROVE TypeOK'
  BY <1>2, AddKeepsTypes
<1>3. CASE SenderStep
  BY <1>3, PushIsFullKeepsTypes, PushEventKeepsTypes, PushToNextKeepsTypes,
     FlushKeepsTypes, SendKeepsTypes, GetAndCopyKeepTypes DEF SenderStep
<1>4. ASSUME NEW c \in Channels, Receive(c) PROVE TypeOK'
  BY <1>4, ReceiveKeepsTypes
<1> QED
  BY <1>1, <1>2, <1>3, <1>4 DEF Next

(* The strategies stay within their pool, their buffers and their channels, *)
(* so that neither EventBuffer::push writes beyond the capacity nor a       *)
(* channel is looked up that does not exist.                                *)
THEOREM TypeCorrect == Spec => []TypeOK
  BY TypeInit, TypeStep, PTL DEF Spec
-----------------------------------------------------------------------------
(* OneHolder.  Owners is read off the first use of a writer in `calls', a    *)
(* fact about the calls that are left.  The invariant follows the writers    *)
(* through them: it has the set of owners before each call that is left, and *)
(* the last one has every writer but the Copier.                             *)

\* A set of numbers has a least element.
LEMMA LeastNumber ==
    ASSUME NEW D \in SUBSET Nat, D # {}
    PROVE  \E m \in D : \A d \in D : m <= d
<1> DEFINE T == {0 .. n : n \in D}
<1>1. T \subseteq FiniteSubsetsOf(Nat)
  <2>1. \A n \in D : IsFiniteSet(0 .. n) /\ 0 .. n \in SUBSET Nat
    BY FS_Interval
  <2> QED
    BY <2>1, Zenon DEF FiniteSubsetsOf
<1>2. T # {}
  OBVIOUS
<1>3. PICK X \in T : \A Y \in T : ~ (<<Y, X>> \in StrictSubsetOrdering(Nat))
  BY <1>1, <1>2, FS_StrictSubsetOrderingWellFounded, WFMin
<1>4. PICK m \in D : X = 0 .. m
  OBVIOUS
<1>5. ASSUME NEW x \in D, x < m PROVE FALSE
  <2>1. /\ 0 .. x \subseteq 0 .. m /\ m \in 0 .. m /\ m \notin 0 .. x
        /\ 0 .. x \in SUBSET Nat /\ 0 .. m \in SUBSET Nat
    BY <1>5
  <2>2. <<0 .. x, 0 .. m>> \in StrictSubsetOrdering(Nat)
    BY <2>1 DEF StrictSubsetOrdering
  <2>3. 0 .. x \in T
    OBVIOUS
  <2> QED
    BY <1>3, <1>4, <2>2, <2>3
<1>6. \A d \in D : m <= d
  BY <1>5
<1> QED
  BY <1>6

\* The writers between two calls.
Own == Writers \ {Copier}

\* A call finds the owners A and leaves the owners B, where Z are the owners
\* between two calls of add.  A send gives the buffer away, a get brings
\* another one; everything else needs the buffers that there are between calls.
Changes(Z, A, st, B) ==
    /\ st.op \in {"push", "push_all", "flush", "send", "get", "copy"}
    /\ st.op = "push" => A = Z /\ B = Z /\ st.writer \in Z
    /\ st.op \in {"push_all", "flush"} => A = Z /\ B = Z
    /\ st.op = "send" => st.writer \in A /\ B = A \ {st.writer}
    /\ st.op = "get" => st.writer \notin A /\ B = A \cup {st.writer}
    /\ st.op = "copy" => st.writer = Copier /\ A = Z \cup {Copier} /\ B = A

\* The owners before each of the calls s, the first being A and the last B.
IsTrace(Z, s, o, A, B) ==
    /\ o[1] = A /\ o[Len(s) + 1] = B
    /\ \A k \in 1..Len(s) : Changes(Z, o[k], s[k], o[k + 1])
Leads(Z, A, s, B) == \E o : IsTrace(Z, s, o, A, B)

\* No call at all.
LEMMA LeadsNowhere ==
    ASSUME NEW Z, NEW A, NEW B
    PROVE  Leads(Z, A, <<>>, B) <=> A = B
<1>1. ASSUME A = B PROVE Leads(Z, A, <<>>, B)
  <2>1. IsTrace(Z, <<>>, <<A>>, A, B)
    BY <1>1 DEF IsTrace
  <2> QED
    BY <2>1 DEF Leads
<1>2. ASSUME Leads(Z, A, <<>>, B) PROVE A = B
  BY <1>2 DEF Leads, IsTrace
<1> QED
  BY <1>1, <1>2

\* The calls without the first one.
LEMMA LeadsTail ==
    ASSUME NEW S, NEW s \in Seq(S), s # <<>>, NEW Z, NEW A, NEW B, Leads(Z, A, s, B)
    PROVE  \E C : Changes(Z, A, Head(s), C) /\ Leads(Z, C, Tail(s), B)
<1>1. PICK o : IsTrace(Z, s, o, A, B)
  BY DEF Leads
<1>2. /\ Len(s) \in Nat /\ Len(s) > 0 /\ Head(s) = s[1] /\ Len(Tail(s)) = Len(s) - 1
      /\ \A k \in 1..Len(Tail(s)) : Tail(s)[k] = s[k + 1]
  OBVIOUS
<1> DEFINE r == [k \in 1..Len(s) |-> o[k + 1]]
<1>3. \A k \in 1..Len(s) : r[k] = o[k + 1]
  OBVIOUS
<1> HIDE DEF r
<1>4. Changes(Z, A, Head(s), r[1])
  BY <1>1, <1>2, <1>3 DEF IsTrace
<1>5. r[Len(Tail(s)) + 1] = B
  BY <1>1, <1>2, <1>3 DEF IsTrace
<1>6. ASSUME NEW k \in 1..Len(Tail(s)) PROVE Changes(Z, r[k], Tail(s)[k], r[k + 1])
  <2>1. k \in 1..Len(s) /\ k + 1 \in 1..Len(s) /\ Tail(s)[k] = s[k + 1]
    BY <1>2
  <2>2. Changes(Z, o[k + 1], s[k + 1], o[(k + 1) + 1])
    BY <1>1, <2>1 DEF IsTrace
  <2> QED
    BY <1>3, <2>1, <2>2
<1>7. IsTrace(Z, Tail(s), r, r[1], B)
  BY <1>5, <1>6 DEF IsTrace
<1> QED
  BY <1>4, <1>7 DEF Leads

\* Calls in front of others.
LEMMA LeadsConcat ==
    ASSUME NEW S, NEW s \in Seq(S), NEW t \in Seq(S), NEW Z, NEW A, NEW B, NEW C,
           Leads(Z, A, s, B), Leads(Z, B, t, C)
    PROVE  Leads(Z, A, s \o t, C)
<1>1. PICK o : IsTrace(Z, s, o, A, B)
  BY DEF Leads
<1>2. PICK q : IsTrace(Z, t, q, B, C)
  BY DEF Leads
<1>3. PICK st \in Seq(S) : st = s \o t
  BY ConcatProperties
<1>4. PICK m \in Nat, n \in Nat : m = Len(s) /\ n = Len(t)
  OBVIOUS
<1>5. /\ Len(st) = m + n
      /\ \A k \in 1..m : st[k] = s[k]
      /\ \A k \in 1..n : st[m + k] = t[k]
  BY <1>3, <1>4
<1> DEFINE r == [k \in 1..(m + n + 1) |-> IF k <= m THEN o[k] ELSE q[k - m]]
<1>6. /\ \A k \in 1..m : r[k] = o[k]
      /\ \A k \in 1..(n + 1) : r[m + k] = q[k]
      /\ r[m + 1] = q[1]
  OBVIOUS
<1>7. o[1] = A /\ o[m + 1] = B /\ q[1] = B /\ q[n + 1] = C
  BY <1>1, <1>2, <1>4 DEF IsTrace
<1> HIDE DEF r
<1>8. r[1] = A /\ r[m + n + 1] = C
  <2>1. r[m + (n + 1)] = C
    BY <1>6, <1>7
  <2>2. CASE m = 0
    BY <1>6, <1>7, <2>1, <2>2
  <2>3. CASE m > 0
    BY <1>6, <1>7, <2>1, <2>3
  <2> QED
    BY <2>2, <2>3
<1>9. ASSUME NEW k \in 1..(m + n) PROVE Changes(Z, r[k], st[k], r[k + 1])
  <2>1. CASE k <= m
    <3>1. Changes(Z, o[k], s[k], o[k + 1]) /\ st[k] = s[k] /\ r[k] = o[k]
      BY <1>1, <1>4, <1>5, <1>6, <2>1 DEF IsTrace
    <3>2. r[k + 1] = o[k + 1]
      BY <1>6, <1>7, <2>1
    <3> QED
      BY <3>1, <3>2
  <2>2. CASE k > m
    <3>1. PICK i \in 1..n : k = m + i
      <4>1. k - m \in 1..n /\ k = m + (k - m)
        BY <2>2
      <4> QED
        BY <4>1
    <3>2. Changes(Z, q[i], t[i], q[i + 1]) /\ st[k] = t[i]
      BY <1>2, <1>4, <1>5, <3>1 DEF IsTrace
    <3>3. r[k] = q[i] /\ r[k + 1] = q[i + 1]
      <4>1. i + 1 \in 1..(n + 1) /\ i \in 1..(n + 1) /\ m + (i + 1) = k + 1
        BY <3>1
      <4> QED
        BY <1>6, <3>1, <4>1
    <3> QED
      BY <3>2, <3>3
  <2> QED
    BY <2>1, <2>2
<1>10. IsTrace(Z, st, r, A, C)
  BY <1>5, <1>8, <1>9 DEF IsTrace
<1> QED
  BY <1>3, <1>10 DEF Leads

\* One call, two of them, and so on.
LEMMA LeadsOne ==
    ASSUME NEW Z, NEW A, NEW B, NEW a, Changes(Z, A, a, B)
    PROVE  Leads(Z, A, <<a>>, B)
<1>1. IsTrace(Z, <<a>>, <<A, B>>, A, B)
  BY DEF IsTrace
<1> QED
  BY <1>1 DEF Leads

\* Two calls.
LEMMA LeadsTwo ==
    ASSUME NEW Z, NEW A, NEW B, NEW C, NEW a, NEW b, Changes(Z, A, a, B), Changes(Z, B, b, C)
    PROVE  Leads(Z, A, <<a, b>>, C)
<1>1. IsTrace(Z, <<a, b>>, <<A, B, C>>, A, C)
  BY DEF IsTrace
<1> QED
  BY <1>1 DEF Leads

\* Four calls.
LEMMA LeadsFour ==
    ASSUME NEW Z, NEW A, NEW B, NEW C, NEW D, NEW E, NEW a, NEW b, NEW c, NEW d,
           Changes(Z, A, a, B), Changes(Z, B, b, C), Changes(Z, C, c, D), Changes(Z, D, d, E)
    PROVE  Leads(Z, A, <<a, b, c, d>>, E)
<1>1. IsTrace(Z, <<a, b, c, d>>, <<A, B, C, D, E>>, A, E)
  BY DEF IsTrace
<1> QED
  BY <1>1 DEF Leads

\* Up to its first use, a writer stays what it is.
LEMMA UnusedStays ==
    ASSUME calls \in Seq(Steps), NEW Z, NEW A, NEW B, NEW o, IsTrace(Z, calls, o, A, B),
           NEW w \in Writers, NEW n \in 0..Len(calls), \A k \in 1..n : k \notin Uses(w)
    PROVE  w \in o[n + 1] <=> w \in A
<1> DEFINE D == {i \in 0..n : ~ (w \in o[i + 1] <=> w \in A)}
<1>0. Len(calls) \in Nat /\ DOMAIN calls = 1..Len(calls) /\ n \in Nat /\ n <= Len(calls)
  OBVIOUS
<1> SUFFICES ASSUME ~ (w \in o[n + 1] <=> w \in A) PROVE FALSE
  OBVIOUS
<1>1. D # {}
  <2>1. n \in D
    BY <1>0
  <2> QED
    BY <2>1
<1>2. PICK m \in D : \A d \in D : m <= d
  <2>1. D \in SUBSET Nat
    BY <1>0
  <2> QED
    BY <1>1, <2>1, LeastNumber
<1>3. m > 0 /\ m \in 1..n
  BY <1>0, <1>2 DEF IsTrace
<1>4. m - 1 \in 0..n /\ m - 1 \notin D
  BY <1>0, <1>2, <1>3
<1>5. w \in o[m] <=> w \in A
  BY <1>0, <1>3, <1>4
<1>6. m \in 1..Len(calls) /\ Changes(Z, o[m], calls[m], o[m + 1])
  BY <1>0, <1>3 DEF IsTrace
<1>7. w \in o[m + 1] <=> w \in o[m]
  <2>1. m \notin Uses(w) /\ m \in DOMAIN calls
    BY <1>0, <1>3, <1>6
  <2> QED
    BY <1>6, <2>1 DEF Uses, Changes
<1> QED
  BY <1>2, <1>5, <1>7

\* The owners before the first call that is left are the Owners.
LEMMA OwnersAre ==
    ASSUME calls \in Seq(Steps), NEW A \in SUBSET Writers, Leads(Own, A, calls, Own)
    PROVE  Owners = A
<1>1. PICK o : IsTrace(Own, calls, o, A, Own)
  BY DEF Leads
<1>2. Len(calls) \in Nat /\ DOMAIN calls = 1..Len(calls)
  OBVIOUS
<1>3. ASSUME NEW w \in Writers PROVE Owns(w) <=> w \in A
  <2>1. CASE Uses(w) = {}
    <3>1. w \in o[Len(calls) + 1] <=> w \in A
      BY <1>1, <1>2, <2>1, UnusedStays
    <3>2. w \in Own <=> w \in A
      BY <1>1, <3>1 DEF IsTrace
    <3> QED
      BY <2>1, <3>2 DEF Owns, Own
  <2>2. CASE Uses(w) # {}
    <3>1. Uses(w) \in SUBSET Nat
      BY <1>2 DEF Uses
    <3>2. \E k \in Uses(w) : \A j \in Uses(w) : k <= j
      BY <2>2, <3>1, LeastNumber
    <3>3. PICK k : k = CHOOSE i \in Uses(w) : \A j \in Uses(w) : i <= j
      OBVIOUS
    <3>4. k \in Uses(w) /\ \A j \in Uses(w) : k <= j
      BY <3>2, <3>3
    <3>5. Owns(w) <=> calls[k].op # "get"
      BY <2>2, <3>3 DEF Owns
    <3>6. k \in 1..Len(calls) /\ \E i \in 0..Len(calls) : i = k - 1
      BY <1>2, <3>4 DEF Uses
    <3>7. PICK i \in 0..Len(calls) : i = k - 1
      BY <3>6
    <3>8. \A j \in 1..i : j \notin Uses(w)
      BY <1>2, <3>4, <3>6, <3>7
    <3>12. w \in o[i + 1] <=> w \in A
      BY <1>1, <3>8, UnusedStays
    <3>13. i + 1 = k
      BY <1>2, <3>6, <3>7
    <3>9. Changes(Own, o[k], calls[k], o[k + 1])
      BY <1>1, <3>6 DEF IsTrace
    <3>10. calls[k].writer = w /\ calls[k].op \in {"push", "send", "copy", "get"}
      BY <3>4 DEF Uses
    <3>11. w \in o[k] <=> calls[k].op # "get"
      BY <3>9, <3>10 DEF Changes
    <3> QED
      BY <3>5, <3>11, <3>12, <3>13
  <2> QED
    BY <2>1, <2>2
<1> QED
  BY <1>3 DEF Owners

\* What add and flush leave to do, they do for the owners there are.
LEMMA AddLeads ==
    ASSUME strategy \in Strategies, NEW call \in Call, NEW e \in Event
    PROVE  Leads(Own, Own, AddSteps(call, e), Own)
<1>1. call.kind = "element" => KeyIndex(call.key) \in Channels
  BY KeyRangesCover, KeyAssumption DEF Call
<1>2. call.kind \in {"element", "marker", "flush"}
  BY DEF Call
<1>3. \A left : Changes(Own, Own, FlushOf(left), Own)
  BY DEF Changes, FlushOf, Step
<1>4. \A left : Changes(Own, Own, PushAll(left, e), Own)
  BY DEF Changes, PushAll, Step
<1>5. \A w \in Own : Changes(Own, Own, Push(w, e), Own)
  BY DEF Changes, Push, Step
<1>6. CASE call.kind = "flush"
  <2>1. AddSteps(call, e) = <<FlushOf(Channels)>>
    BY <1>6 DEF AddSteps
  <2> QED
    BY <1>3, <2>1, LeadsOne
<1>7. CASE call.kind # "flush" /\ strategy = "KeyBy"
  <2>1. AddSteps(call, e) = KeyByAdd(call, e) /\ Own = Channels
    BY <1>7, WriterFacts DEF AddSteps, Own
  <2>2. CASE call.kind = "marker"
    BY <1>3, <1>4, <2>1, <2>2, LeadsTwo DEF KeyByAdd
  <2>3. CASE call.kind = "element"
    BY <1>1, <1>5, <2>1, <2>3, LeadsOne DEF KeyByAdd
  <2> QED
    BY <1>2, <1>7, <2>2, <2>3
<1>8. CASE call.kind # "flush" /\ strategy = "Mute"
  <2>1. AddSteps(call, e) = <<>>
    BY <1>8 DEF AddSteps
  <2> QED
    BY <2>1, LeadsNowhere
<1>9. CASE call.kind # "flush" /\ strategy \in {"Forward", "Broadcast", "RoundRobin"}
  <2>1. AddSteps(call, e) = ForwardAdd(call, e) /\ 1 \in Own
    BY <1>9, WriterFacts DEF AddSteps, BroadcastAdd, RoundRobinAdd, Own
  <2>2. CASE call.kind = "marker"
    BY <1>3, <1>5, <2>1, <2>2, LeadsTwo DEF ForwardAdd
  <2>3. CASE call.kind = "element"
    BY <1>5, <2>1, <2>3, LeadsOne DEF ForwardAdd
  <2> QED
    BY <1>2, <1>9, <2>2, <2>3
<1> QED
  BY <1>6, <1>7, <1>8, <1>9, StrategyAssumption

\* A writer that is sent and gets another buffer is an owner again.
LEMMA SendAndGet ==
    ASSUME NEW w \in Own, NEW c
    PROVE  /\ Changes(Own, Own, Send(w, c), Own \ {w})
           /\ Changes(Own, Own \ {w}, Get(w), Own)
<1>1. Changes(Own, Own, Send(w, c), Own \ {w})
  BY DEF Changes, Send, Step
<1>2. Own = (Own \ {w}) \cup {w}
  OBVIOUS
<1>3. Changes(Own, Own \ {w}, Get(w), Own)
  BY <1>2 DEF Changes, Get, Step
<1> QED
  BY <1>1, <1>3

\* The same for what a flush does next.
LEMMA FlushLeads ==
    ASSUME strategy \in Strategies, NEW left \in SUBSET Channels, NEW steps \in FlushSteps(left)
    PROVE  Leads(Own, Own, steps, Own)
<1>1. \A l : Changes(Own, Own, FlushOf(l), Own)
  BY DEF Changes, FlushOf, Step
<1>2. strategy # "KeyBy" => 1 \in Own
  BY WriterFacts DEF Own
<1>3. ASSUME NEW c, strategy # "KeyBy" PROVE Leads(Own, Own, <<Send(1, c), Get(1)>>, Own)
  BY <1>2, <1>3, SendAndGet, LeadsTwo
<1>4. CASE strategy = "Forward"
  BY <1>3, <1>4 DEF FlushSteps, ForwardFlush
<1>5. CASE strategy = "RoundRobin"
  BY <1>3, <1>5 DEF FlushSteps, RoundRobinFlush
<1>6. CASE strategy = "Mute"
  <2>1. steps = <<>>
    BY <1>6 DEF FlushSteps
  <2> QED
    BY <2>1, LeadsNowhere
<1>7. CASE strategy = "KeyBy"
  <2>1. steps \in KeyByFlush(left)
    BY <1>7 DEF FlushSteps
  <2>2. CASE left = {}
    <3>1. steps = <<>>
      BY <2>1, <2>2 DEF KeyByFlush
    <3> QED
      BY <3>1, LeadsNowhere
  <2>3. CASE left # {}
    <3>1. PICK w \in left : steps = Append(FlushBuffer(w), FlushOf(left \ {w}))
      BY <2>1, <2>3 DEF KeyByFlush
    <3>2. /\ Send(w, w) \in Steps /\ Get(w) \in Steps /\ FlushOf(left \ {w}) \in Steps
      BY <1>7, StepTypes, WriterFacts
    <3>4. PICK a \in Steps, b \in Steps, c \in Steps :
            a = Send(w, w) /\ b = Get(w) /\ c = FlushOf(left \ {w})
      BY <3>2
    <3>5. <<a, b>> \in Seq(Steps) /\ <<c>> \in Seq(Steps)
      OBVIOUS
    <3>6. steps = Append(<<a, b>>, c)
      BY <3>1, <3>4, Zenon DEF FlushBuffer
    <3>7. steps = <<a, b>> \o <<c>>
      BY <3>5, <3>6, AppendIsConcat
    <3>3. w \in Own
      BY <1>7, WriterFacts DEF Own
    <3> QED
      BY <1>1, <3>3, <3>4, <3>5, <3>7, SendAndGet, LeadsOne, LeadsTwo, LeadsConcat
  <2> QED
    BY <2>2, <2>3
<1>8. CASE strategy = "Broadcast"
  <2>1. steps \in BroadcastFlush(left)
    BY <1>8 DEF FlushSteps
  <2>2. CASE left = {N}
    BY <1>3, <1>8, <2>1, <2>2 DEF BroadcastFlush
  <2>3. CASE left # {N}
    <3>1. PICK c : steps = <<Get(Copier), Copy, Send(Copier, c), FlushOf(left \ {c})>>
      BY <2>1, <2>3 DEF BroadcastFlush, CopyTo
    <3>2. Copier \notin Own
      BY DEF Own
    <3>3. PICK B : B = Own \cup {Copier}
      OBVIOUS
    <3>4. Changes(Own, Own, Get(Copier), B)
      BY <3>2, <3>3 DEF Changes, Get, Step
    <3>5. Changes(Own, B, Copy, B)
      BY <3>3 DEF Changes, Copy, Step
    <3>6. Own = B \ {Copier} /\ Copier \in B
      BY <3>2, <3>3
    <3>7. Changes(Own, B, Send(Copier, c), Own)
      BY <3>6 DEF Changes, Send, Step
    <3> QED
      BY <1>1, <3>1, <3>4, <3>5, <3>7, LeadsFour
  <2> QED
    BY <2>2, <2>3
<1> QED
  BY <1>4, <1>5, <1>6, <1>7, <1>8, StrategyAssumption

-----------------------------------------------------------------------------
(* Who holds which buffer: the writers S and the messages of mb.             *)

\* No two writers share a buffer, and none has a free one.
WritersHold(S, fr, wr) ==
    /\ \A w \in S : ~ fr[wr[w].buffer]
    /\ \A v, w \in S : wr[v].buffer = wr[w].buffer => v = w

\* No two messages share a buffer, and none has a free one.
MessagesHold(fr, mb) ==
    /\ \A c \in Channels : \A i \in DOMAIN mb[c] :
          mb[c][i].buffer # NoBuffer => ~ fr[mb[c][i].buffer]
    /\ \A c, d \in Channels : \A i \in DOMAIN mb[c], j \in DOMAIN mb[d] :
          (mb[c][i].buffer # NoBuffer /\ mb[c][i].buffer = mb[d][j].buffer) => c = d /\ i = j

\* What is written is not read.
Apart(S, wr, mb) ==
    \A w \in S, c \in Channels : \A i \in DOMAIN mb[c] : wr[w].buffer # mb[c][i].buffer

\* Every buffer is free or comes back.
NoneLost(S, fr, wr, mb) ==
    \A b \in Buffers : ~ fr[b] =>
        \/ \E w \in S : wr[w].buffer = b
        \/ \E c \in Channels : \E i \in DOMAIN mb[c] : mb[c][i].buffer = b

Holds(S, fr, wr, mb) ==
    WritersHold(S, fr, wr) /\ MessagesHold(fr, mb) /\ Apart(S, wr, mb) /\ NoneLost(S, fr, wr, mb)

\* The types of the three.
PoolTypes(S, fr, wr, mb) ==
    /\ S \in SUBSET Writers
    /\ fr \in [Buffers -> BOOLEAN]
    /\ wr \in [Writers -> [buffer : Buffers, len : 0..BufferSize]]
    /\ mb \in [Channels -> Seq(Message)]

\* Only the buffers count, not how far a writer or a reader is.
LEMMA SameBuffers ==
    ASSUME NEW S, NEW fr, NEW wr, NEW mb, NEW wr2, NEW mb2, Holds(S, fr, wr, mb),
           \A w \in S : wr2[w].buffer = wr[w].buffer,
           \A c \in Channels : DOMAIN mb2[c] = DOMAIN mb[c],
           \A c \in Channels : \A i \in DOMAIN mb[c] : mb2[c][i].buffer = mb[c][i].buffer
    PROVE  Holds(S, fr, wr2, mb2)
<1>1. WritersHold(S, fr, wr2)
  BY DEF Holds, WritersHold
<1>2. MessagesHold(fr, mb2)
  BY DEF Holds, MessagesHold
<1>3. Apart(S, wr2, mb2)
  BY DEF Holds, Apart
<1>4. NoneLost(S, fr, wr2, mb2)
  BY DEF Holds, NoneLost
<1> QED
  BY <1>1, <1>2, <1>3, <1>4 DEF Holds

\* A message in a mailbox, and the mailbox without its first message.
LEMMA MailFacts ==
    ASSUME NEW mb \in [Channels -> Seq(Message)], NEW c \in Channels, NEW m \in Message
    PROVE  /\ \A d \in Channels : DOMAIN mb[d] = 1..Len(mb[d]) /\ Len(mb[d]) \in Nat
           /\ DOMAIN Append(mb[c], m) = DOMAIN mb[c] \cup {Len(mb[c]) + 1}
           /\ \A i \in DOMAIN mb[c] : Append(mb[c], m)[i] = mb[c][i] /\ i # Len(mb[c]) + 1
           /\ Append(mb[c], m)[Len(mb[c]) + 1] = m
           /\ mb[c] # <<>> =>
                /\ 1 \in DOMAIN mb[c] /\ Head(mb[c]) = mb[c][1]
                /\ \A i \in DOMAIN Tail(mb[c]) :
                     i \in Nat /\ i + 1 \in DOMAIN mb[c] /\ i + 1 # 1 /\ Tail(mb[c])[i] = mb[c][i + 1]
                /\ \A i \in DOMAIN mb[c] :
                     i # 1 => i - 1 \in DOMAIN Tail(mb[c]) /\ (i - 1) + 1 = i
<1>1. \A d \in Channels : mb[d] \in Seq(Message)
  OBVIOUS
<1>2. PICK q \in Seq(Message) : q = mb[c]
  BY <1>1
<1>3. /\ DOMAIN Append(q, m) = DOMAIN q \cup {Len(q) + 1}
      /\ \A i \in DOMAIN q : Append(q, m)[i] = q[i] /\ i # Len(q) + 1
      /\ Append(q, m)[Len(q) + 1] = m
  OBVIOUS
<1>4. ASSUME q # <<>>
      PROVE  /\ 1 \in DOMAIN q /\ Head(q) = q[1]
             /\ \A i \in DOMAIN Tail(q) :
                  i \in Nat /\ i + 1 \in DOMAIN q /\ i + 1 # 1 /\ Tail(q)[i] = q[i + 1]
             /\ \A i \in DOMAIN q : i # 1 => i - 1 \in DOMAIN Tail(q) /\ (i - 1) + 1 = i
  BY <1>4
<1> QED
  BY <1>1, <1>2, <1>3, <1>4

\* A message that has a buffer has one of the pool.
LEMMA MessageBuffers ==
    ASSUME NEW mb \in [Channels -> Seq(Message)]
    PROVE  \A c \in Channels : \A i \in DOMAIN mb[c] :
              mb[c][i] \in Message /\ (mb[c][i].buffer # NoBuffer => mb[c][i].buffer \in Buffers)
<1> SUFFICES ASSUME NEW c \in Channels, NEW i \in DOMAIN mb[c]
             PROVE  mb[c][i] \in Message /\ (mb[c][i].buffer # NoBuffer => mb[c][i].buffer \in Buffers)
  OBVIOUS
<1>1. PICK q \in Seq(Message) : q = mb[c]
  OBVIOUS
<1>2. q[i] \in Message
  BY <1>1
<1> QED
  BY <1>1, <1>2 DEF Message

\* A message over the network holds no buffer.
LEMMA RawMessage ==
    ASSUME NEW S, NEW fr, NEW wr, NEW mb, NEW mb2, PoolTypes(S, fr, wr, mb), Holds(S, fr, wr, mb),
           NEW c \in Channels, NEW m \in Message, m.buffer = NoBuffer,
           mb2 = [mb EXCEPT ![c] = Append(@, m)]
    PROVE  Holds(S, fr, wr, mb2)
<1> DEFINE n == Len(mb[c]) + 1
<1>1. /\ \A d \in Channels : d # c => mb2[d] = mb[d]
      /\ DOMAIN mb2[c] = DOMAIN mb[c] \cup {n}
      /\ \A i \in DOMAIN mb[c] : mb2[c][i] = mb[c][i]
      /\ mb2[c][n].buffer = NoBuffer
  BY MailFacts DEF PoolTypes
<1>2. \A w \in S : wr[w].buffer \in Buffers
  BY DEF PoolTypes
<1>3. NoBuffer \notin Buffers
  BY PoolAssumption DEF NoBuffer, Buffers
<1> HIDE DEF n
<1>4. MessagesHold(fr, mb2)
  BY <1>1 DEF Holds, MessagesHold
<1>5. Apart(S, wr, mb2)
  BY <1>1, <1>2, <1>3 DEF Holds, Apart
<1>6. NoneLost(S, fr, wr, mb2)
  BY <1>1 DEF Holds, NoneLost
<1> QED
  BY <1>4, <1>5, <1>6 DEF Holds

\* A send hands the buffer of its writer over to the message.
LEMMA HandOver ==
    ASSUME NEW S, NEW fr, NEW wr, NEW mb, NEW mb2, PoolTypes(S, fr, wr, mb), Holds(S, fr, wr, mb),
           NEW w \in S, NEW c \in Channels, NEW m \in Message, m.buffer = wr[w].buffer,
           mb2 = [mb EXCEPT ![c] = Append(@, m)]
    PROVE  Holds(S \ {w}, fr, wr, mb2)
<1> DEFINE n == Len(mb[c]) + 1
<1>1. /\ \A d \in Channels : d # c => mb2[d] = mb[d]
      /\ DOMAIN mb2[c] = DOMAIN mb[c] \cup {n}
      /\ \A i \in DOMAIN mb[c] : mb2[c][i] = mb[c][i]
      /\ mb2[c][n].buffer = wr[w].buffer
  BY MailFacts DEF PoolTypes
<1> HIDE DEF n
<1>2. WritersHold(S \ {w}, fr, wr)
  BY DEF Holds, WritersHold
<1>3. MessagesHold(fr, mb2)
  <2>1. \A d \in Channels : \A i \in DOMAIN mb[d] : mb[d][i].buffer # wr[w].buffer
    BY DEF Holds, Apart
  <2>2. ~ fr[wr[w].buffer]
    BY DEF Holds, WritersHold
  <2>3. \A d \in Channels : \A i \in DOMAIN mb2[d] :
           mb2[d][i].buffer # NoBuffer => ~ fr[mb2[d][i].buffer]
    BY <1>1, <2>2 DEF Holds, MessagesHold
  <2>4. ASSUME NEW d \in Channels, NEW f \in Channels, NEW i \in DOMAIN mb2[d], NEW j \in DOMAIN mb2[f],
               mb2[d][i].buffer # NoBuffer, mb2[d][i].buffer = mb2[f][j].buffer
        PROVE  d = f /\ i = j
    <3>1. CASE d = c /\ i = n
      BY <1>1, <2>1, <2>4, <3>1
    <3>2. CASE f = c /\ j = n
      BY <1>1, <2>1, <2>4, <3>2
    <3>3. CASE ~ (d = c /\ i = n) /\ ~ (f = c /\ j = n)
      <4>1. i \in DOMAIN mb[d] /\ mb2[d][i] = mb[d][i] /\ j \in DOMAIN mb[f] /\ mb2[f][j] = mb[f][j]
        BY <1>1, <3>3
      <4> QED
        BY <2>4, <4>1 DEF Holds, MessagesHold
    <3> QED
      BY <3>1, <3>2, <3>3
  <2> QED
    BY <2>3, <2>4 DEF MessagesHold
<1>4. Apart(S \ {w}, wr, mb2)
  BY <1>1 DEF Holds, Apart, WritersHold
<1>5. NoneLost(S \ {w}, fr, wr, mb2)
  <2> SUFFICES ASSUME NEW b \in Buffers, ~ fr[b], \A v \in S \ {w} : wr[v].buffer # b
               PROVE  \E d \in Channels : \E i \in DOMAIN mb2[d] : mb2[d][i].buffer = b
    BY DEF NoneLost
  <2>1. CASE wr[w].buffer = b
    BY <1>1, <2>1
  <2>2. CASE wr[w].buffer # b
    <3>1. PICK d \in Channels : \E i \in DOMAIN mb[d] : mb[d][i].buffer = b
      BY <2>2 DEF Holds, NoneLost
    <3>2. PICK i \in DOMAIN mb[d] : mb[d][i].buffer = b
      BY <3>1
    <3> QED
      BY <1>1, <3>2
  <2> QED
    BY <2>1, <2>2
<1> QED
  BY <1>2, <1>3, <1>4, <1>5 DEF Holds

\* A message that is dropped by its sender frees the buffer of its writer.
LEMMA GiveBack ==
    ASSUME NEW S, NEW fr, NEW wr, NEW mb, NEW fr2, PoolTypes(S, fr, wr, mb), Holds(S, fr, wr, mb),
           NEW w \in S, fr2 = [fr EXCEPT ![wr[w].buffer] = TRUE]
    PROVE  Holds(S \ {w}, fr2, wr, mb)
<1>1. /\ wr[w].buffer \in Buffers /\ fr2[wr[w].buffer]
      /\ \A b \in Buffers : b # wr[w].buffer => fr2[b] = fr[b]
      /\ \A v \in S : wr[v].buffer \in Buffers
  BY DEF PoolTypes
<1>2. \A c \in Channels : \A i \in DOMAIN mb[c] :
         mb[c][i].buffer # NoBuffer => mb[c][i].buffer \in Buffers
  BY MessageBuffers DEF PoolTypes
<1>3. WritersHold(S \ {w}, fr2, wr)
  BY <1>1 DEF Holds, WritersHold
<1>4. MessagesHold(fr2, mb)
  BY <1>1, <1>2 DEF Holds, MessagesHold, Apart
<1>5. Apart(S \ {w}, wr, mb)
  BY DEF Holds, Apart
<1>6. NoneLost(S \ {w}, fr2, wr, mb)
  BY <1>1 DEF Holds, NoneLost
<1> QED
  BY <1>3, <1>4, <1>5, <1>6 DEF Holds

\* BufferPool::get finds a free buffer for its writer.
LEMMA TakeFree ==
    ASSUME NEW S, NEW fr, NEW wr, NEW mb, NEW fr2, NEW wr2, PoolTypes(S, fr, wr, mb),
           Holds(S, fr, wr, mb), NEW w \in Writers, w \notin S, NEW b \in Buffers, fr[b],
           fr2 = [fr EXCEPT ![b] = FALSE], wr2 = [wr EXCEPT ![w] = [buffer |-> b, len |-> 0]]
    PROVE  Holds(S \cup {w}, fr2, wr2, mb)
<1>1. /\ ~ fr2[b] /\ wr2[w].buffer = b
      /\ \A x \in Buffers : x # b => fr2[x] = fr[x]
      /\ \A v \in S : wr[v].buffer \in Buffers /\ wr2[v] = wr[v] /\ v # w
  BY DEF PoolTypes
<1>2. \A c \in Channels : \A i \in DOMAIN mb[c] :
         mb[c][i].buffer # NoBuffer => mb[c][i].buffer \in Buffers
  BY MessageBuffers DEF PoolTypes
<1>3. NoBuffer \notin Buffers
  BY PoolAssumption DEF NoBuffer, Buffers
<1>4. WritersHold(S \cup {w}, fr2, wr2)
  <2>1. \A v \in S : wr2[v].buffer # b
    BY <1>1 DEF Holds, WritersHold
  <2> QED
    BY <1>1, <2>1 DEF Holds, WritersHold
<1>5. \A c \in Channels : \A i \in DOMAIN mb[c] : mb[c][i].buffer # b
  BY <1>3 DEF Holds, MessagesHold
<1>6. MessagesHold(fr2, mb)
  BY <1>1, <1>2, <1>5 DEF Holds, MessagesHold
<1>7. Apart(S \cup {w}, wr2, mb)
  BY <1>1, <1>5 DEF Holds, Apart
<1>8. NoneLost(S \cup {w}, fr2, wr2, mb)
  <2> SUFFICES ASSUME NEW x \in Buffers, ~ fr2[x], \A v \in S \cup {w} : wr2[v].buffer # x
               PROVE  \E c \in Channels : \E i \in DOMAIN mb[c] : mb[c][i].buffer = x
    BY DEF NoneLost
  <2>1. x # b /\ ~ fr[x] /\ \A v \in S : wr[v].buffer # x
    BY <1>1
  <2> QED
    BY <2>1 DEF Holds, NoneLost
<1> QED
  BY <1>4, <1>6, <1>7, <1>8 DEF Holds

\* The reader of a message is dropped, and its buffer is free again.
LEMMA DropFirst ==
    ASSUME NEW S, NEW fr, NEW wr, NEW mb, NEW fr2, NEW mb2, PoolTypes(S, fr, wr, mb),
           Holds(S, fr, wr, mb), NEW c \in Channels, mb[c] # <<>>,
           mb2 = [mb EXCEPT ![c] = Tail(@)],
           IF Head(mb[c]).buffer = NoBuffer THEN fr2 = fr
           ELSE fr2 = [fr EXCEPT ![Head(mb[c]).buffer] = TRUE]
    PROVE  Holds(S, fr2, wr, mb2)
<1>1. /\ \A d \in Channels : DOMAIN mb[d] = 1..Len(mb[d]) /\ Len(mb[d]) \in Nat
      /\ 1 \in DOMAIN mb[c] /\ Head(mb[c]) = mb[c][1]
      /\ \A i \in DOMAIN Tail(mb[c]) :
           i \in Nat /\ i + 1 \in DOMAIN mb[c] /\ i + 1 # 1 /\ Tail(mb[c])[i] = mb[c][i + 1]
      /\ \A i \in DOMAIN mb[c] : i # 1 => i - 1 \in DOMAIN Tail(mb[c]) /\ (i - 1) + 1 = i
  <2>1. PICK m \in Message : m = Head(mb[c])
    BY DEF PoolTypes
  <2> QED
    BY <2>1, MailFacts DEF PoolTypes
<1>2. /\ \A d \in Channels : d # c => mb2[d] = mb[d]
      /\ mb2[c] = Tail(mb[c])
  BY DEF PoolTypes
<1>3. PICK h : h = mb[c][1].buffer
  OBVIOUS
<1>4. \A d \in Channels : \A i \in DOMAIN mb[d] :
         mb[d][i].buffer # NoBuffer => mb[d][i].buffer \in Buffers
  BY MessageBuffers DEF PoolTypes
<1>5. NoBuffer \notin Buffers
  BY PoolAssumption DEF NoBuffer, Buffers
<1>6. /\ h \in Buffers => fr2[h]
      /\ \A b \in Buffers : b # h => fr2[b] = fr[b]
  BY <1>1, <1>3, <1>5 DEF PoolTypes
<1> DEFINE At(d, i) == IF d = c THEN i + 1 ELSE i
<1>7. \A d \in Channels : \A i \in DOMAIN mb2[d] :
         /\ At(d, i) \in DOMAIN mb[d] /\ mb2[d][i] = mb[d][At(d, i)] /\ i \in Nat
         /\ d = c => At(d, i) # 1
  <2> SUFFICES ASSUME NEW d \in Channels, NEW i \in DOMAIN mb2[d]
               PROVE  /\ At(d, i) \in DOMAIN mb[d] /\ mb2[d][i] = mb[d][At(d, i)] /\ i \in Nat
                      /\ d = c => At(d, i) # 1
    OBVIOUS
  <2>1. CASE d = c
    BY <1>1, <1>2, <2>1
  <2>2. CASE d # c
    BY <1>1, <1>2, <2>2
  <2> QED
    BY <2>1, <2>2
<1>8. \A d \in Channels : \A i, j \in Nat : At(d, i) = At(d, j) => i = j
  OBVIOUS
<1> HIDE DEF At
<1>9. \A d \in Channels : \A i \in DOMAIN mb2[d] :
         mb2[d][i].buffer # NoBuffer => mb2[d][i].buffer # h /\ mb2[d][i].buffer \in Buffers
  BY <1>1, <1>3, <1>4, <1>7 DEF Holds, MessagesHold
<1>10. WritersHold(S, fr2, wr)
  <2>1. \A w \in S : wr[w].buffer # h /\ wr[w].buffer \in Buffers
    BY <1>1, <1>3 DEF Holds, Apart, PoolTypes
  <2> QED
    BY <1>6, <2>1 DEF Holds, WritersHold
<1>11. MessagesHold(fr2, mb2)
  <2>1. \A d \in Channels : \A i \in DOMAIN mb2[d] :
          mb2[d][i].buffer # NoBuffer => ~ fr2[mb2[d][i].buffer]
    BY <1>6, <1>7, <1>9 DEF Holds, MessagesHold
  <2>2. ASSUME NEW d \in Channels, NEW f \in Channels, NEW i \in DOMAIN mb2[d], NEW j \in DOMAIN mb2[f],
               mb2[d][i].buffer # NoBuffer, mb2[d][i].buffer = mb2[f][j].buffer
        PROVE  d = f /\ i = j
    <3>1. d = f /\ At(d, i) = At(f, j) /\ i \in Nat /\ j \in Nat
      BY <1>7, <2>2 DEF Holds, MessagesHold
    <3> QED
      BY <1>8, <3>1
  <2> QED
    BY <2>1, <2>2 DEF MessagesHold
<1>12. Apart(S, wr, mb2)
  BY <1>7 DEF Holds, Apart
<1>13. NoneLost(S, fr2, wr, mb2)
  <2> SUFFICES ASSUME NEW b \in Buffers, ~ fr2[b], \A w \in S : wr[w].buffer # b
               PROVE  \E d \in Channels : \E i \in DOMAIN mb2[d] : mb2[d][i].buffer = b
    BY DEF NoneLost
  <2>1. b # h /\ ~ fr[b]
    BY <1>6
  <2>2. PICK d \in Channels : \E i \in DOMAIN mb[d] : mb[d][i].buffer = b
    BY <2>1 DEF Holds, NoneLost
  <2>3. PICK i \in DOMAIN mb[d] : mb[d][i].buffer = b
    BY <2>2
  <2>4. CASE d # c
    BY <1>2, <2>3, <2>4
  <2>5. CASE d = c
    <3>1. i # 1
      BY <1>3, <2>1, <2>3, <2>5
    <3>2. i - 1 \in DOMAIN mb2[c] /\ mb2[c][i - 1] = mb[c][(i - 1) + 1] /\ (i - 1) + 1 = i
      BY <1>1, <1>2, <2>5, <3>1
    <3> QED
      BY <2>3, <2>5, <3>2
  <2> QED
    BY <2>4, <2>5
<1> QED
  BY <1>10, <1>11, <1>12, <1>13 DEF Holds

-----------------------------------------------------------------------------
(* The invariant and its steps.                                              *)

Follows(S) == S \in SUBSET Writers /\ Leads(Own, S, calls, Own)

\* The calls that are left work for owners S that hold their buffers.
HoldInv == \E S : Follows(S) /\ Holds(S, free, writer, mailbox)

\* The writers between two calls stay the same.
LEMMA SameOwn ==
    ASSUME strategy' = strategy
    PROVE  Own' = Own /\ Writers' = Writers
  BY SameStrategy DEF Own

\* At the start every writer has the buffer of its number.
LEMMA InitHold == Init => HoldInv
<1> SUFFICES ASSUME Init PROVE HoldInv
  OBVIOUS
<1>1. calls = <<>> /\ \A c \in Channels : mailbox[c] = <<>>
  BY DEF Init
<1>2. Follows(Own)
  BY <1>1, LeadsNowhere DEF Follows, Own
<1>3. \A w \in Own : w \in Nat /\ w > 0 /\ writer[w].buffer = w - 1 /\ w - 1 \in Buffers
  <2>1. strategy = "KeyBy" => N < Capacity
    BY PoolAssumption DEF Init
  <2> QED
    BY <2>1, PoolAssumption, StrategyAssumption DEF Init, Own, Writers, Copier, Channels, Buffers
<1>4. \A b \in Buffers : free[b] <=> \A w \in Own : b # w - 1
  BY DEF Init, Own
<1>5. WritersHold(Own, free, writer)
  BY <1>3, <1>4 DEF WritersHold
<1>6. \A c \in Channels : DOMAIN mailbox[c] = {}
  BY <1>1
<1>7. MessagesHold(free, mailbox) /\ Apart(Own, writer, mailbox)
  BY <1>6 DEF MessagesHold, Apart
<1>8. NoneLost(Own, free, writer, mailbox)
  BY <1>3, <1>4 DEF NoneLost
<1> QED
  BY <1>2, <1>5, <1>7, <1>8 DEF Holds, HoldInv

\* What the running call does next.
LEMMA RunningFacts ==
    ASSUME TypeOK, NEW S, Follows(S), NEW op, Running(op)
    PROVE  \E C : Changes(Own, S, Head(calls), C) /\ Leads(Own, C, Tail(calls), Own)
<1>1. calls \in Seq(Steps) /\ calls # <<>>
  BY DEF TypeOK, Running
<1> QED
  BY <1>1, LeadsTail DEF Follows

\* A step that only changes what is left to do, or what the buffers hold.
LEMMA SendersBook ==
    ASSUME TypeOK, NEW S, Follows(S), Holds(S, free, writer, mailbox), NEW call \in Call,
           Add(call) \/ PushIsFull \/ PushEvent \/ PushToNext \/ Flush
    PROVE  Follows(S)' /\ Holds(S, free', writer', mailbox')
<1>0. strategy' = strategy /\ free' = free /\ mailbox' = mailbox
  BY DEF Add, PushIsFull, PushEvent, PushToNext, Flush, sender, pool
<1>1. Follows(S) /\ Holds(S, free, writer, mailbox)
  OBVIOUS
<1>2. SUFFICES Leads(Own, S, calls', Own) /\ \A w \in Writers : writer'[w].buffer = writer[w].buffer
  <2>1. ASSUME Leads(Own, S, calls', Own), \A w \in Writers : writer'[w].buffer = writer[w].buffer
        PROVE  Follows(S)' /\ Holds(S, free', writer', mailbox')
    <3>1. Own' = Own /\ Writers' = Writers
      BY <1>0, SameOwn
    <3>2. PICK wr : wr = writer'
      OBVIOUS
    <3>3. Holds(S, free, wr, mailbox)
      BY <1>1, <2>1, <3>2, SameBuffers DEF Follows
    <3>5. Leads(Own', S, calls', Own') /\ S \in SUBSET Writers'
      BY <1>1, <2>1, <3>1 DEF Follows
    <3>6. Holds(S, free', writer', mailbox')
      BY <1>0, <3>2, <3>3
    <3> QED
      BY <3>5, <3>6 DEF Follows
  <2> QED
    BY <2>1
<1>3. CASE Add(call)
  <2>1. calls = <<>> /\ S = Own
    BY <1>1, <1>3, LeadsNowhere DEF Add, Idle, Follows
  <2>2. Len(added) + 1 \in Event /\ strategy \in Strategies
    BY <1>3, BoundAssumption DEF Add, TypeOK, Event
  <2>3. writer' = writer /\ calls' = AddSteps(call, Len(added) + 1)
    BY <1>3 DEF Add, sender
  <2> QED
    BY <2>1, <2>2, <2>3, AddLeads
<1>4. CASE PushIsFull
  <2>1. PICK C : Changes(Own, S, Head(calls), C) /\ Leads(Own, C, Tail(calls), Own)
    BY <1>1, <1>4, RunningFacts DEF PushIsFull
  <2>2. Head(calls).op = "push" /\ S = Own /\ Head(calls).writer \in Own
    BY <1>4, <2>1 DEF PushIsFull, Running, Changes
  <2>3. PICK w : w = Head(calls).writer
    OBVIOUS
  <2>4. writer' = writer /\ calls' = FlushFull(w) \o calls
    BY <1>4, <2>3 DEF PushIsFull, sender
  <2>5. Leads(Own, Own, FlushFull(w), Own) /\ FlushFull(w) \in Seq(Steps)
    <3>1. CASE strategy = "KeyBy"
      <4>1. Send(w, w) \in Steps /\ Get(w) \in Steps
        BY <2>2, <2>3, <3>1, WriterFacts, StepTypes DEF Own
      <4>2. PICK a \in Steps, b \in Steps : a = Send(w, w) /\ b = Get(w)
        BY <4>1
      <4>3. FlushFull(w) = <<a, b>>
        BY <3>1, <4>2 DEF FlushFull, FlushBuffer
      <4>4. <<a, b>> \in Seq(Steps)
        OBVIOUS
      <4>5. Leads(Own, Own, <<a, b>>, Own)
        BY <2>2, <2>3, <4>2, SendAndGet, LeadsTwo
      <4> QED
        BY <4>3, <4>4, <4>5
    <3>2. CASE strategy # "KeyBy"
      <4>1. FlushOf(Channels) \in Steps
        BY StepTypes
      <4>2. Changes(Own, Own, FlushOf(Channels), Own)
        BY DEF Changes, FlushOf, Step
      <4> QED
        BY <3>2, <4>1, <4>2, LeadsOne DEF FlushFull
    <3> QED
      BY <3>1, <3>2
  <2>6. calls \in Seq(Steps) /\ Leads(Own, Own, calls, Own)
    BY <1>1, <2>2 DEF TypeOK, Follows
  <2> QED
    BY <2>2, <2>4, <2>5, <2>6, LeadsConcat
<1>5. CASE PushEvent
  <2>1. PICK C : Changes(Own, S, Head(calls), C) /\ Leads(Own, C, Tail(calls), Own)
    BY <1>1, <1>5, RunningFacts DEF PushEvent
  <2>2. Head(calls).op = "push" /\ S = Own /\ C = Own /\ calls' = Tail(calls)
    BY <1>5, <2>1 DEF PushEvent, Running, Changes
  <2>3. Head(calls).writer \in Writers
    BY <1>5, HeadType DEF PushEvent
  <2>4. \A w \in Writers : writer'[w].buffer = writer[w].buffer
    BY <1>5, <2>3 DEF PushEvent, TypeOK
  <2> QED
    BY <2>1, <2>2, <2>4
<1>6. CASE PushToNext
  <2>1. PICK C : Changes(Own, S, Head(calls), C) /\ Leads(Own, C, Tail(calls), Own)
    BY <1>1, <1>6, RunningFacts DEF PushToNext
  <2>2. S = Own /\ C = Own /\ writer' = writer
    BY <1>6, <2>1 DEF PushToNext, Running, Changes, sender
  <2>3. Head(calls) \in Steps /\ Tail(calls) \in Seq(Steps) /\ Head(calls).op = "push_all"
    BY <1>6, HeadType DEF PushToNext
  <2>4. strategy = "KeyBy" /\ Head(calls).left \in SUBSET Channels /\ Head(calls).event \in Event
    BY <2>3 DEF Steps
  <2>5. PICK left \in SUBSET Channels, e \in Event : left = Head(calls).left /\ e = Head(calls).event
    BY <2>4
  <2>6. CASE calls' = Tail(calls)
    BY <2>1, <2>2, <2>6
  <2>7. ASSUME NEW w \in left, calls' = <<Push(w, e), PushAll(left \ {w}, e)>> \o Tail(calls)
        PROVE  Leads(Own, S, calls', Own)
    <3>1. Push(w, e) \in Steps /\ PushAll(left \ {w}, e) \in Steps /\ w \in Own
      BY <2>4, WriterFacts, StepTypes DEF Own
    <3>2. Changes(Own, Own, Push(w, e), Own) /\ Changes(Own, Own, PushAll(left \ {w}, e), Own)
      BY <3>1 DEF Changes, Push, PushAll, Step
    <3>3. PICK a \in Steps, b \in Steps : a = Push(w, e) /\ b = PushAll(left \ {w}, e)
      BY <3>1
    <3>4. <<a, b>> \in Seq(Steps)
      OBVIOUS
    <3>5. Leads(Own, Own, <<a, b>>, Own)
      BY <3>2, <3>3, LeadsTwo
    <3>6. calls' = <<a, b>> \o Tail(calls)
      BY <2>7, <3>3
    <3> QED
      BY <2>1, <2>2, <2>3, <3>4, <3>5, <3>6, LeadsConcat
  <2> QED
    BY <1>6, <2>2, <2>5, <2>6, <2>7 DEF PushToNext
<1>7. CASE Flush
  <2>1. PICK C : Changes(Own, S, Head(calls), C) /\ Leads(Own, C, Tail(calls), Own)
    BY <1>1, <1>7, RunningFacts DEF Flush
  <2>2. S = Own /\ C = Own /\ writer' = writer
    BY <1>7, <2>1 DEF Flush, Running, Changes, sender
  <2>3. Head(calls).left \in SUBSET Channels /\ Tail(calls) \in Seq(Steps)
    BY <1>7, HeadType DEF Flush
  <2>4. PICK steps \in FlushSteps(Head(calls).left) : calls' = steps \o Tail(calls)
    BY <1>7 DEF Flush
  <2>5. steps \in Seq(Steps) /\ Leads(Own, Own, steps, Own)
    BY <2>3, FlushStepsType, FlushLeads DEF TypeOK
  <2> QED
    BY <2>1, <2>2, <2>3, <2>4, <2>5, LeadsConcat
<1> QED
  BY <1>3, <1>4, <1>5, <1>6, <1>7

\* The next call finds the owners S and leaves the owners C; a get that finds no
\* free buffer leaves everything as it is.
BecomesFrom(S, C) ==
    /\ Changes(Own, S, Head(calls), C) \/ (C = S /\ calls' = calls)
    /\ Follows(C)' /\ Holds(C, free', writer', mailbox')

\* The three ways a send ends, BufferPool::get, and copy_from_writer.
LEMMA SendersBuffers ==
    ASSUME TypeOK, NEW S, Follows(S), Holds(S, free, writer, mailbox),
           SendLocal \/ SendRemote \/ SendFails \/ TryGet \/ CopyFromWriter
    PROVE  \E C : BecomesFrom(S, C)
<1>0. strategy' = strategy /\ Own' = Own /\ Writers' = Writers
  BY SameOwn DEF SendLocal, SendRemote, SendFails, TryGet, CopyFromWriter
<1>1. Follows(S) /\ Holds(S, free, writer, mailbox)
  OBVIOUS
<1>2. PoolTypes(S, free, writer, mailbox)
  BY <1>1 DEF PoolTypes, TypeOK, Follows
<1>3. PICK C : Changes(Own, S, Head(calls), C) /\ Leads(Own, C, Tail(calls), Own)
  BY <1>1, RunningFacts DEF SendLocal, SendRemote, SendFails, TryGet, CopyFromWriter
<1>4. Head(calls) \in Steps /\ Head(calls).writer \in Writers
  BY HeadType DEF SendLocal, SendRemote, SendFails, TryGet, CopyFromWriter
<1>5. ASSUME calls' = Tail(calls), C \in SUBSET Writers, Holds(C, free', writer', mailbox')
      PROVE  BecomesFrom(S, C)
  <2>1. Leads(Own', C, calls', Own') /\ C \in SUBSET Writers'
    BY <1>0, <1>3, <1>5
  <2> QED
    BY <1>3, <1>5, <2>1 DEF BecomesFrom, Follows
<1>6. PICK w \in Writers : w = Head(calls).writer
  BY <1>4
<1>7. ASSUME Head(calls).op = "send"
      PROVE  /\ w \in S /\ C = S \ {w} /\ C \in SUBSET Writers /\ Head(calls).chan \in Channels
             /\ writer[w].buffer \in Buffers /\ writer[w].len \in 0..BufferSize
  BY <1>1, <1>3, <1>4, <1>6, <1>7 DEF Changes, Steps, Follows, TypeOK
<1>8. CASE SendLocal
  <2>1. /\ Head(calls).op = "send" /\ calls' = Tail(calls)
        /\ free' = free /\ writer' = writer
    BY <1>8 DEF SendLocal, Running, pool
  <2>2. PICK m : m = [buffer |-> writer[w].buffer, len |-> writer[w].len,
                      current |-> 0, events |-> <<>>]
    OBVIOUS
  <2>3. m \in Message /\ m.buffer = writer[w].buffer
    BY <1>7, <2>1, <2>2, EmptySeq, PoolAssumption DEF Message
  <2>4. PICK c \in Channels : c = Head(calls).chan
    BY <1>7, <2>1
  <2>5. mailbox' = [mailbox EXCEPT ![c] = Append(@, m)]
    BY <1>6, <1>8, <2>2, <2>4 DEF SendLocal
  <2>6. PICK mb : mb = [mailbox EXCEPT ![c] = Append(@, m)]
    OBVIOUS
  <2>7. Holds(S \ {w}, free, writer, mb)
    BY <1>1, <1>2, <1>7, <2>1, <2>3, <2>6, HandOver
  <2> QED
    BY <1>5, <1>7, <2>1, <2>5, <2>6, <2>7
<1>9. CASE SendRemote
  <2>1. /\ Head(calls).op = "send" /\ calls' = Tail(calls) /\ writer' = writer
        /\ free' = [free EXCEPT ![writer[w].buffer] = TRUE]
    BY <1>6, <1>9 DEF SendRemote, Running
  <2>2. PICK m : m = [buffer |-> NoBuffer, len |-> 0, current |-> 0, events |-> Buffered(w)]
    OBVIOUS
  <2>3. m \in Message /\ m.buffer = NoBuffer
    <3>1. PICK b \in Buffers, n \in 0..BufferSize : b = writer[w].buffer /\ n = writer[w].len
      BY <1>7, <2>1
    <3>2. SubSeq(memory[b], 1, n) \in Seq(Event)
      BY ReadType
    <3>3. Buffered(w) \in Seq(Event)
      BY <3>1, <3>2 DEF Buffered
    <3> QED
      BY <2>2, <3>3, PoolAssumption DEF Message
  <2>4. PICK c \in Channels : c = Head(calls).chan
    BY <1>7, <2>1
  <2>5. mailbox' = [mailbox EXCEPT ![c] = Append(@, m)]
    BY <1>6, <1>9, <2>2, <2>4 DEF SendRemote
  <2>6. PICK mb : mb = [mailbox EXCEPT ![c] = Append(@, m)]
    OBVIOUS
  <2>7. PICK fr : fr = [free EXCEPT ![writer[w].buffer] = TRUE]
    OBVIOUS
  <2>8. Holds(S, free, writer, mb) /\ PoolTypes(S, free, writer, mb)
    <3>1. mb \in [Channels -> Seq(Message)]
      BY <1>2, <2>3, <2>6 DEF PoolTypes
    <3> QED
      BY <1>1, <1>2, <2>3, <2>6, <3>1, RawMessage DEF PoolTypes
  <2>9. Holds(S \ {w}, fr, writer, mb)
    BY <1>7, <2>1, <2>7, <2>8, GiveBack
  <2> QED
    BY <1>5, <1>7, <2>1, <2>5, <2>6, <2>7, <2>9
<1>10. CASE SendFails
  <2>1. /\ Head(calls).op = "send" /\ calls' = Tail(calls) /\ writer' = writer
        /\ free' = [free EXCEPT ![writer[w].buffer] = TRUE] /\ mailbox' = mailbox
    BY <1>6, <1>10 DEF SendFails, Running
  <2>2. PICK fr : fr = [free EXCEPT ![writer[w].buffer] = TRUE]
    OBVIOUS
  <2>3. Holds(S \ {w}, fr, writer, mailbox)
    BY <1>1, <1>2, <1>7, <2>1, <2>2, GiveBack
  <2> QED
    BY <1>5, <1>7, <2>1, <2>2, <2>3
<1>11. CASE TryGet
  <2>1. Head(calls).op = "get" /\ w \notin S /\ C = S \cup {w} /\ mailbox' = mailbox
    BY <1>3, <1>6, <1>11 DEF TryGet, Running, Changes
  <2>2. CASE free[curr_buffer]
    <3>1. PICK b \in Buffers : b = curr_buffer
      BY DEF TypeOK
    <3>2. /\ free' = [free EXCEPT ![b] = FALSE] /\ calls' = Tail(calls)
          /\ writer' = [writer EXCEPT ![w] = [buffer |-> b, len |-> 0]]
      BY <1>6, <1>11, <2>2, <3>1 DEF TryGet
    <3>3. PICK fr : fr = [free EXCEPT ![b] = FALSE]
      OBVIOUS
    <3>4. PICK wr : wr = [writer EXCEPT ![w] = [buffer |-> b, len |-> 0]]
      OBVIOUS
    <3>5. Holds(S \cup {w}, fr, wr, mailbox)
      BY <1>1, <1>2, <2>1, <2>2, <3>1, <3>3, <3>4, TakeFree
    <3>6. S \cup {w} \in SUBSET Writers
      BY <1>1 DEF Follows
    <3> QED
      BY <1>5, <2>1, <3>2, <3>3, <3>4, <3>5, <3>6
  <2>3. CASE ~ free[curr_buffer]
    <3>1. free' = free /\ writer' = writer /\ calls' = calls
      BY <1>11, <2>3 DEF TryGet
    <3>2. Leads(Own', S, calls', Own') /\ S \in SUBSET Writers'
      BY <1>0, <1>1, <3>1 DEF Follows
    <3> QED
      BY <1>1, <2>1, <3>1, <3>2 DEF BecomesFrom, Follows
  <2> QED
    BY <2>2, <2>3
<1>12. CASE CopyFromWriter
  <2>1. Head(calls).op = "copy" /\ C = S /\ calls' = Tail(calls) /\ free' = free /\ mailbox' = mailbox
    BY <1>3, <1>12 DEF CopyFromWriter, Running, Changes
  <2>2. \A v \in Writers : writer'[v].buffer = writer[v].buffer
    BY <1>12, WriterFacts DEF CopyFromWriter, TypeOK
  <2>3. PICK wr : wr = writer'
    OBVIOUS
  <2>4. Holds(S, free, wr, mailbox)
    BY <1>1, <2>2, <2>3, SameBuffers DEF Follows
  <2> QED
    BY <1>1, <1>5, <2>1, <2>3, <2>4 DEF Follows
<1> QED
  BY <1>8, <1>9, <1>10, <1>11, <1>12

\* The receivers.
LEMMA ReceiversBuffers ==
    ASSUME TypeOK, NEW S, Follows(S), Holds(S, free, writer, mailbox), NEW c \in Channels, Receive(c)
    PROVE  Follows(S)' /\ Holds(S, free', writer', mailbox')
<1>0. strategy' = strategy /\ calls' = calls /\ writer' = writer
  <2>1. CASE ReadNext(c)
    BY <2>1 DEF ReadNext, ReadUpTo, sender
  <2>2. CASE IntoVec(c)
    BY <2>2 DEF IntoVec, ReadUpTo, sender
  <2>3. CASE DropReader(c)
    BY <2>3 DEF DropReader
  <2>4. CASE ReceiveRaw(c)
    BY <2>4 DEF ReceiveRaw, sender
  <2> QED
    BY <2>1, <2>2, <2>3, <2>4 DEF Receive
<1>1. Follows(S) /\ Holds(S, free, writer, mailbox)
  OBVIOUS
<1>2. PoolTypes(S, free, writer, mailbox)
  BY <1>1 DEF PoolTypes, TypeOK, Follows
<1>3. Own' = Own /\ Writers' = Writers
  BY <1>0, SameOwn
<1>4. Follows(S)'
  <2>1. Leads(Own', S, calls', Own') /\ S \in SUBSET Writers'
    BY <1>0, <1>1, <1>3 DEF Follows
  <2> QED
    BY <2>1 DEF Follows
<1>5. ASSUME NEW to, mailbox[c] # <<>>, ReadUpTo(c, to) PROVE Holds(S, free', writer', mailbox')
  <2>1. mailbox' = [mailbox EXCEPT ![c][1].current = to] /\ free' = free
    BY <1>5 DEF ReadUpTo, sender, pool
  <2>2. mailbox[c] \in Seq(Message) /\ DOMAIN mailbox = Channels
    BY DEF TypeOK
  <2>3. PICK q \in Seq(Message) : q = mailbox[c] /\ q # <<>>
    BY <1>5, <2>2
  <2>4. PICK mb : mb = mailbox'
    OBVIOUS
  <2>5. mb[c] = [q EXCEPT ![1].current = to] /\ \A d \in Channels : d # c => mb[d] = mailbox[d]
    BY <2>1, <2>2, <2>3, <2>4
  <2>6. DOMAIN mb[c] = DOMAIN q /\ \A i \in DOMAIN q : mb[c][i].buffer = q[i].buffer
    <3>1. DOMAIN q = 1..Len(q) /\ \A i \in DOMAIN q : q[i] \in Message
      OBVIOUS
    <3> QED
      BY <2>5, <3>1 DEF Message
  <2>7. Holds(S, free, writer, mb)
    <3>1. \A d \in Channels : DOMAIN mb[d] = DOMAIN mailbox[d]
      BY <2>3, <2>5, <2>6
    <3>2. \A d \in Channels : \A i \in DOMAIN mailbox[d] : mb[d][i].buffer = mailbox[d][i].buffer
      BY <2>3, <2>5, <2>6
    <3> QED
      BY <1>1, <3>1, <3>2, SameBuffers
  <2> QED
    BY <1>0, <2>1, <2>4, <2>7
<1>6. CASE ReadNext(c)
  BY <1>4, <1>5, <1>6 DEF ReadNext, HasMessage
<1>7. CASE IntoVec(c)
  BY <1>4, <1>5, <1>7 DEF IntoVec, HasMessage
<1>8. CASE DropReader(c) \/ ReceiveRaw(c)
  <2>1. /\ mailbox[c] # <<>> /\ mailbox' = [mailbox EXCEPT ![c] = Tail(@)]
        /\ IF Head(mailbox[c]).buffer = NoBuffer THEN free' = free
           ELSE free' = [free EXCEPT ![Head(mailbox[c]).buffer] = TRUE]
    BY <1>8 DEF DropReader, ReceiveRaw, HasMessage, sender, pool
  <2>2. PICK mb : mb = [mailbox EXCEPT ![c] = Tail(@)]
    OBVIOUS
  <2>3. PICK fr : fr = free'
    OBVIOUS
  <2>4. Holds(S, fr, writer, mb)
    BY <1>1, <1>2, <2>1, <2>2, <2>3, DropFirst
  <2> QED
    BY <1>0, <1>4, <2>1, <2>2, <2>3, <2>4
<1> QED
  BY <1>6, <1>7, <1>8 DEF Receive

\* Every step keeps it.
LEMMA HoldStep == TypeOK /\ HoldInv /\ [Next]_vars => HoldInv'
<1> SUFFICES ASSUME TypeOK, HoldInv, [Next]_vars PROVE HoldInv'
  OBVIOUS
<1>1. CASE UNCHANGED vars
  <2>1. PICK S : Follows(S) /\ Holds(S, free, writer, mailbox)
    BY DEF HoldInv
  <2>2. Own' = Own /\ Writers' = Writers
    BY <1>1, SameOwn DEF vars
  <2>3. Leads(Own', S, calls', Own') /\ S \in SUBSET Writers' /\ Holds(S, free', writer', mailbox')
    BY <1>1, <2>1, <2>2 DEF vars, Follows
  <2> QED
    BY <2>3 DEF HoldInv, Follows
<1>2. ASSUME NEW call \in Call, Add(call) PROVE HoldInv'
  BY <1>2, SendersBook DEF HoldInv
<1>3. CASE SenderStep
  <2>1. PICK S : Follows(S) /\ Holds(S, free, writer, mailbox)
    BY DEF HoldInv
  <2>2. PICK call : call \in Call
    <3>1. [kind |-> "flush", key |-> 0] \in Call
      BY DEF Call
    <3> QED
      BY <3>1
  <2>3. CASE PushIsFull \/ PushEvent \/ PushToNext \/ Flush
    BY <2>1, <2>2, <2>3, SendersBook DEF HoldInv
  <2>4. CASE SendLocal \/ SendRemote \/ SendFails \/ TryGet \/ CopyFromWriter
    BY <2>1, <2>4, SendersBuffers DEF BecomesFrom, HoldInv
  <2> QED
    BY <1>3, <2>3, <2>4 DEF SenderStep
<1>4. ASSUME NEW c \in Channels, Receive(c) PROVE HoldInv'
  BY <1>4, ReceiversBuffers DEF HoldInv
<1> QED
  BY <1>1, <1>2, <1>3, <1>4 DEF Next

\* The invariant says who the Holders are.
LEMMA HoldIsOne == TypeOK /\ HoldInv => OneHolder
<1> SUFFICES ASSUME TypeOK, HoldInv PROVE OneHolder
  OBVIOUS
<1>1. PICK S : Follows(S) /\ Holds(S, free, writer, mailbox)
  BY DEF HoldInv
<1>2. Owners = S
  BY <1>1, OwnersAre DEF Follows, TypeOK
<1>3. ASSUME NEW h \in Holders
      PROVE  \/ h[1] \in S /\ h[2] = 0 /\ h = <<h[1], 0>>
             \/ /\ h[1] \in Channels /\ h[2] \in DOMAIN mailbox[h[1]] /\ h[2] # 0
                /\ mailbox[h[1]][h[2]].buffer # NoBuffer /\ h = <<h[1], h[2]>>
  <2>1. CASE h \in S \X {0}
    BY <2>1
  <2>2. CASE h \notin S \X {0}
    <3>1. PICK c \in Channels : h \in {c} \X {i \in DOMAIN mailbox[c] : mailbox[c][i].buffer # NoBuffer}
      BY <1>2, <2>2 DEF Holders
    <3>2. 0 \notin DOMAIN mailbox[c]
      <4>1. PICK q \in Seq(Message) : q = mailbox[c]
        BY DEF TypeOK
      <4> QED
        BY <4>1
    <3> QED
      BY <3>1, <3>2
  <2> QED
    BY <2>1, <2>2
<1>4. \A w \in S : <<w, 0>> \in Holders /\ Held(<<w, 0>>) = writer[w].buffer
  BY <1>2 DEF Holders, Held
<1>5. ASSUME NEW c \in Channels, NEW i \in DOMAIN mailbox[c], mailbox[c][i].buffer # NoBuffer
      PROVE  <<c, i>> \in Holders /\ Held(<<c, i>>) = mailbox[c][i].buffer
  <2>1. i # 0
    <3>1. PICK q \in Seq(Message) : q = mailbox[c]
      BY DEF TypeOK
    <3> QED
      BY <3>1
  <2> QED
    BY <1>5, <2>1 DEF Holders, Held
<1>6. \A h \in Holders : ~ free[Held(h)]
  BY <1>1, <1>3 DEF Holds, WritersHold, MessagesHold, Held
<1>7. ASSUME NEW g \in Holders, NEW h \in Holders, Held(g) = Held(h) PROVE g = h
  <2>1. CASE g[2] = 0 /\ h[2] = 0
    <3>1. g[1] \in S /\ h[1] \in S /\ writer[g[1]].buffer = writer[h[1]].buffer
      BY <1>3, <1>7, <2>1 DEF Held
    <3>2. g[1] = h[1]
      BY <1>1, <3>1 DEF Holds, WritersHold
    <3> QED
      BY <1>3, <2>1, <3>2
  <2>2. CASE g[2] = 0 /\ h[2] # 0
    <3>1. g[1] \in S /\ h[1] \in Channels /\ h[2] \in DOMAIN mailbox[h[1]]
      BY <1>3, <2>2
    <3>2. writer[g[1]].buffer = mailbox[h[1]][h[2]].buffer
      BY <1>7, <2>2 DEF Held
    <3> QED
      BY <1>1, <3>1, <3>2 DEF Holds, Apart
  <2>3. CASE g[2] # 0 /\ h[2] = 0
    <3>1. h[1] \in S /\ g[1] \in Channels /\ g[2] \in DOMAIN mailbox[g[1]]
      BY <1>3, <2>3
    <3>2. writer[h[1]].buffer = mailbox[g[1]][g[2]].buffer
      BY <1>7, <2>3 DEF Held
    <3> QED
      BY <1>1, <3>1, <3>2 DEF Holds, Apart
  <2>4. CASE g[2] # 0 /\ h[2] # 0
    <3>1. /\ g[1] \in Channels /\ g[2] \in DOMAIN mailbox[g[1]]
          /\ mailbox[g[1]][g[2]].buffer # NoBuffer
          /\ h[1] \in Channels /\ h[2] \in DOMAIN mailbox[h[1]]
      BY <1>3, <2>4
    <3>2. mailbox[g[1]][g[2]].buffer = mailbox[h[1]][h[2]].buffer
      BY <1>7, <2>4 DEF Held
    <3>3. g[1] = h[1] /\ g[2] = h[2]
      BY <1>1, <3>1, <3>2 DEF Holds, MessagesHold
    <3> QED
      BY <1>3, <2>4, <3>3
  <2> QED
    BY <2>1, <2>2, <2>3, <2>4
<1>8. ASSUME NEW b \in Buffers, ~ free[b] PROVE \E h \in Holders : Held(h) = b
  <2>1. CASE \E w \in S : writer[w].buffer = b
    BY <1>4, <2>1
  <2>2. CASE \E c \in Channels : \E i \in DOMAIN mailbox[c] : mailbox[c][i].buffer = b
    <3>1. PICK c \in Channels : \E i \in DOMAIN mailbox[c] : mailbox[c][i].buffer = b
      BY <2>2
    <3>2. PICK i \in DOMAIN mailbox[c] : mailbox[c][i].buffer = b
      BY <3>1
    <3>3. b # NoBuffer
      BY PoolAssumption DEF NoBuffer, Buffers
    <3> QED
      BY <1>5, <3>2, <3>3
  <2> QED
    BY <1>1, <1>8, <2>1, <2>2 DEF Holds, NoneLost
<1> QED
  BY <1>6, <1>7, <1>8 DEF OneHolder

\* No buffer of the pool is written while it is read, handed out twice or lost,
\* for every strategy, any number of channels and buffers, and any mixture of
\* local and remote channels and of failing sends: the "single-writer,
\* single-reader setup" that EventBuffer assumes.
THEOREM BuffersHaveOneHolder == Spec => []OneHolder
<1>1. Init => TypeOK /\ HoldInv
  BY TypeInit, InitHold
<1>2. (TypeOK /\ HoldInv) /\ [Next]_vars => (TypeOK /\ HoldInv)'
  BY TypeStep, HoldStep
<1>3. TypeOK /\ HoldInv => OneHolder
  BY HoldIsOne
<1> QED
  BY <1>1, <1>2, <1>3, PTL DEF Spec

-----------------------------------------------------------------------------
(* MarkersEndMessages.  A writer whose last event is a marker is flushed     *)
(* before anything is pushed to it: that is a fact about the calls that are  *)
(* left, and a marker that is still to be pushed has the same behind it.     *)

\* A call that pushes to w, and one that sends w or will; the flush of KeyBy goes
\* through the buffers one by one.
Pushes(st, w) ==
    \/ st.op = "push" /\ st.writer = w
    \/ st.op = "push_all" /\ w \in st.left
Sends(str, st, w) ==
    \/ st.op = "send" /\ st.writer = w
    \/ st.op = "flush" /\ (str = "KeyBy" => w \in st.left)

\* After call number k, w is sent before it is pushed to.
EndsAfter(str, cs, k, w) ==
    \E j \in DOMAIN cs :
        /\ j > k /\ Sends(str, cs[j], w)
        /\ \A i \in DOMAIN cs : (k < i /\ i < j) => ~ Pushes(cs[i], w)

\* The calls without the first one.
LEMMA EndsTail ==
    ASSUME NEW S, NEW cs \in Seq(S), cs # <<>>, NEW str, NEW w, NEW k \in Nat,
           EndsAfter(str, cs, k + 1, w) \/ (k = 0 /\ EndsAfter(str, cs, 0, w) /\ ~ Sends(str, cs[1], w))
    PROVE  EndsAfter(str, Tail(cs), k, w)
<1>1. PICK t \in Seq(S) : t = Tail(cs)
  BY HeadTailProperties
<1>2. /\ DOMAIN cs = 1..Len(cs) /\ Len(cs) \in Nat /\ DOMAIN t = 1..(Len(cs) - 1)
      /\ \A i \in DOMAIN t : t[i] = cs[i + 1] /\ i + 1 \in DOMAIN cs
  BY <1>1
<1>3. PICK j \in DOMAIN cs : /\ j > k + 1 /\ Sends(str, cs[j], w)
                             /\ \A i \in DOMAIN cs : (k + 1 < i /\ i < j) => ~ Pushes(cs[i], w)
  <2>1. CASE EndsAfter(str, cs, k + 1, w)
    BY <2>1 DEF EndsAfter
  <2>2. CASE k = 0 /\ EndsAfter(str, cs, 0, w) /\ ~ Sends(str, cs[1], w)
    <3>1. PICK j \in DOMAIN cs : /\ j > 0 /\ Sends(str, cs[j], w)
                                 /\ \A i \in DOMAIN cs : (0 < i /\ i < j) => ~ Pushes(cs[i], w)
      BY <2>2 DEF EndsAfter
    <3>2. j # 1
      BY <2>2, <3>1
    <3> QED
      BY <1>2, <2>2, <3>1, <3>2
  <2> QED
    BY <2>1, <2>2
<1>4. j - 1 \in DOMAIN t /\ j - 1 > k /\ t[j - 1] = cs[j]
  BY <1>2, <1>3
<1>5. ASSUME NEW i \in DOMAIN t, k < i, i < j - 1 PROVE ~ Pushes(t[i], w)
  <2>1. i + 1 \in DOMAIN cs /\ k + 1 < i + 1 /\ i + 1 < j /\ t[i] = cs[i + 1]
    BY <1>2, <1>5
  <2> QED
    BY <1>3, <2>1
<1> QED
  BY <1>1, <1>3, <1>4, <1>5 DEF EndsAfter

\* Calls in front of others: a send that was behind call number k is behind the
\* same call, and behind the new ones if these do not push to w.
LEMMA EndsConcat ==
    ASSUME NEW S, NEW p \in Seq(S), NEW cs \in Seq(S), NEW str, NEW w
    PROVE  /\ \A k \in Nat : EndsAfter(str, cs, k, w) => EndsAfter(str, p \o cs, Len(p) + k, w)
           /\ \A k \in Nat :
                (/\ k <= Len(p) /\ EndsAfter(str, cs, 0, w)
                 /\ \A i \in DOMAIN p : i > k => ~ Pushes(p[i], w)) => EndsAfter(str, p \o cs, k, w)
           /\ \A k \in Nat : EndsAfter(str, p, k, w) => EndsAfter(str, p \o cs, k, w)
<1>1. PICK q \in Seq(S) : q = p \o cs
  BY ConcatProperties
<1>2. PICK m \in Nat, n \in Nat : m = Len(p) /\ n = Len(cs)
  OBVIOUS
<1>3. /\ DOMAIN p = 1..m /\ DOMAIN cs = 1..n /\ DOMAIN q = 1..(m + n)
      /\ \A i \in 1..m : q[i] = p[i]
      /\ \A i \in 1..n : q[m + i] = cs[i]
  BY <1>1, <1>2
<1>4. \A i \in DOMAIN q : i \in 1..m \/ (i > m /\ i - m \in 1..n /\ q[i] = cs[i - m])
  <2> SUFFICES ASSUME NEW i \in DOMAIN q, i \notin 1..m
               PROVE  i > m /\ i - m \in 1..n /\ q[i] = cs[i - m]
    OBVIOUS
  <2>1. i > m /\ i - m \in 1..n /\ m + (i - m) = i
    BY <1>3
  <2> QED
    BY <1>3, <2>1
<1>5. ASSUME NEW k \in Nat, EndsAfter(str, cs, k, w) PROVE EndsAfter(str, q, m + k, w)
  <2>1. PICK j \in 1..n : /\ j > k /\ Sends(str, cs[j], w)
                          /\ \A i \in 1..n : (k < i /\ i < j) => ~ Pushes(cs[i], w)
    BY <1>3, <1>5 DEF EndsAfter
  <2>2. m + j \in DOMAIN q /\ m + j > m + k /\ Sends(str, q[m + j], w)
    BY <1>3, <2>1
  <2>3. ASSUME NEW i \in DOMAIN q, m + k < i, i < m + j PROVE ~ Pushes(q[i], w)
    <3>1. i > m /\ i - m \in 1..n /\ q[i] = cs[i - m] /\ k < i - m /\ i - m < j
      BY <1>3, <1>4, <2>1, <2>3
    <3> QED
      BY <2>1, <3>1
  <2> QED
    BY <2>2, <2>3 DEF EndsAfter
<1>6. ASSUME NEW k \in Nat, EndsAfter(str, cs, 0, w), \A i \in DOMAIN p : i > k => ~ Pushes(p[i], w),
             k <= m
      PROVE  EndsAfter(str, q, k, w)
  <2>1. PICK j \in 1..n : /\ j > 0 /\ Sends(str, cs[j], w)
                          /\ \A i \in 1..n : (0 < i /\ i < j) => ~ Pushes(cs[i], w)
    BY <1>3, <1>6 DEF EndsAfter
  <2>2. m + j \in DOMAIN q /\ m + j > k /\ Sends(str, q[m + j], w)
    BY <1>3, <1>6, <2>1
  <2>3. ASSUME NEW i \in DOMAIN q, k < i, i < m + j PROVE ~ Pushes(q[i], w)
    <3>1. CASE i \in 1..m
      BY <1>3, <1>6, <2>3, <3>1
    <3>2. CASE i \notin 1..m
      <4>1. i > m /\ i - m \in 1..n /\ q[i] = cs[i - m] /\ 0 < i - m /\ i - m < j
        BY <1>3, <1>4, <2>1, <2>3, <3>2
      <4> QED
        BY <2>1, <4>1
    <3> QED
      BY <3>1, <3>2
  <2> QED
    BY <2>2, <2>3 DEF EndsAfter
<1>7. ASSUME NEW k \in Nat, EndsAfter(str, p, k, w) PROVE EndsAfter(str, q, k, w)
  <2>1. PICK j \in 1..m : /\ j > k /\ Sends(str, p[j], w)
                          /\ \A i \in 1..m : (k < i /\ i < j) => ~ Pushes(p[i], w)
    BY <1>3, <1>7 DEF EndsAfter
  <2>2. j \in DOMAIN q /\ Sends(str, q[j], w)
    BY <1>3, <2>1
  <2>3. \A i \in DOMAIN q : (k < i /\ i < j) => ~ Pushes(q[i], w)
    BY <1>3, <2>1
  <2> QED
    BY <2>1, <2>2, <2>3 DEF EndsAfter
<1> QED
  BY <1>1, <1>2, <1>5, <1>6, <1>7

\* The events f[1], ..., f[n] were added, and only the last may be a marker.
EndsIn(ad, f, n) ==
    \A k \in 1..n : f[k] \in DOMAIN ad /\ (ad[f[k]].kind = "marker" => k = n)

\* So it is with every message,
MailEnds(ad, mem, mb) ==
    \A c \in Channels : \A i \in DOMAIN mb[c] :
        /\ mb[c][i].buffer = NoBuffer => EndsIn(ad, mb[c][i].events, Len(mb[c][i].events))
        /\ mb[c][i].buffer # NoBuffer => EndsIn(ad, mem[mb[c][i].buffer], mb[c][i].len)

\* and with the buffer of every owner.
WritersEnd(ad, mem, wr, S) == \A w \in S : EndsIn(ad, mem[wr[w].buffer], wr[w].len)

\* A writer with a marker is sent before it is pushed to.
Closed(ad, mem, wr, w) == wr[w].len > 0 /\ ad[mem[wr[w].buffer][wr[w].len]].kind = "marker"
ClosedEnd(ad, mem, wr, S, str, cs) ==
    \A w \in S \ {Copier} : Closed(ad, mem, wr, w) => EndsAfter(str, cs, 0, w)

\* So it is once a marker is pushed that is not pushed yet.
PushesEnd(ad, str, cs, Z) ==
    \A k \in DOMAIN cs : cs[k].op \in {"push", "push_all"} =>
        /\ cs[k].event \in DOMAIN ad
        /\ \A w \in Z : (Pushes(cs[k], w) /\ ad[cs[k].event].kind = "marker") => EndsAfter(str, cs, k, w)

\* Mute buffers nothing.
Quiet(wr, Z, cs) == (\A k \in DOMAIN cs : cs[k].op = "flush") /\ \A w \in Z : wr[w].len = 0

Marks(S) ==
    /\ MailEnds(added, memory, mailbox)
    /\ WritersEnd(added, memory, writer, S)
    /\ ClosedEnd(added, memory, writer, S, strategy, calls)
    /\ PushesEnd(added, strategy, calls, Own)
    /\ strategy = "Mute" => Quiet(writer, Own, calls)

\* The calls without the first one.
LEMMA PushesTail ==
    ASSUME NEW S, NEW cs \in Seq(S), cs # <<>>, NEW ad, NEW str, NEW Z, PushesEnd(ad, str, cs, Z)
    PROVE  PushesEnd(ad, str, Tail(cs), Z)
<1> SUFFICES ASSUME NEW k \in DOMAIN Tail(cs), Tail(cs)[k].op \in {"push", "push_all"}
             PROVE  /\ Tail(cs)[k].event \in DOMAIN ad
                    /\ \A w \in Z : (Pushes(Tail(cs)[k], w) /\ ad[Tail(cs)[k].event].kind = "marker")
                         => EndsAfter(str, Tail(cs), k, w)
  BY DEF PushesEnd
<1>1. k \in Nat /\ k + 1 \in DOMAIN cs /\ Tail(cs)[k] = cs[k + 1]
  OBVIOUS
<1>2. /\ cs[k + 1].event \in DOMAIN ad
      /\ \A w \in Z : (Pushes(cs[k + 1], w) /\ ad[cs[k + 1].event].kind = "marker")
            => EndsAfter(str, cs, k + 1, w)
  BY <1>1 DEF PushesEnd
<1> QED
  BY <1>1, <1>2, EndsTail

\* Calls in front of others.
LEMMA PushesConcat ==
    ASSUME NEW S, NEW p \in Seq(S), NEW cs \in Seq(S), NEW ad, NEW str, NEW Z,
           PushesEnd(ad, str, cs, Z),
           \A k \in DOMAIN p : p[k].op \in {"push", "push_all"} =>
              /\ p[k].event \in DOMAIN ad
              /\ \A w \in Z : (Pushes(p[k], w) /\ ad[p[k].event].kind = "marker")
                   => EndsAfter(str, p \o cs, k, w)
    PROVE  PushesEnd(ad, str, p \o cs, Z)
<1>1. PICK q \in Seq(S) : q = p \o cs
  BY ConcatProperties
<1>2. PICK m \in Nat, n \in Nat : m = Len(p) /\ n = Len(cs)
  OBVIOUS
<1>3. /\ DOMAIN p = 1..m /\ DOMAIN cs = 1..n /\ DOMAIN q = 1..(m + n)
      /\ \A i \in 1..m : q[i] = p[i]
      /\ \A i \in 1..n : q[m + i] = cs[i]
  BY <1>1, <1>2
<1> SUFFICES ASSUME NEW k \in DOMAIN q, q[k].op \in {"push", "push_all"}
             PROVE  /\ q[k].event \in DOMAIN ad
                    /\ \A w \in Z : (Pushes(q[k], w) /\ ad[q[k].event].kind = "marker")
                         => EndsAfter(str, q, k, w)
  BY <1>1 DEF PushesEnd
<1>4. CASE k \in 1..m
  BY <1>1, <1>3, <1>4
<1>5. CASE k \notin 1..m
  <2>1. PICK i \in 1..n : k = m + i
    <3>1. k - m \in 1..n /\ k = m + (k - m)
      BY <1>3, <1>5
    <3> QED
      BY <3>1
  <2>2. q[k] = cs[i]
    BY <1>3, <2>1
  <2>3. /\ cs[i].event \in DOMAIN ad
        /\ \A w \in Z : (Pushes(cs[i], w) /\ ad[cs[i].event].kind = "marker") => EndsAfter(str, cs, i, w)
    BY <1>3, <2>2 DEF PushesEnd
  <2>4. ASSUME NEW w \in Z, EndsAfter(str, cs, i, w) PROVE EndsAfter(str, q, m + i, w)
    <3>1. i \in Nat
      OBVIOUS
    <3> QED
      BY <1>1, <1>2, <2>4, <3>1, EndsConcat
  <2> QED
    BY <2>1, <2>2, <2>3, <2>4
<1> QED
  BY <1>4, <1>5

\* A step of the sender that changes only what is left to do.
LEMMA MarksOfCalls ==
    ASSUME NEW S, Marks(S), UNCHANGED <<strategy, memory, writer, mailbox, added>>,
           PushesEnd(added, strategy, calls', Own),
           \A w \in S \ {Copier} :
              Closed(added, memory, writer, w) => EndsAfter(strategy, calls', 0, w),
           strategy = "Mute" => Quiet(writer, Own, calls')
    PROVE  Marks(S)'
<1>1. Own' = Own
  BY SameOwn
<1>2. PICK cs : cs = calls'
  OBVIOUS
<1>3. ClosedEnd(added, memory, writer, S, strategy, cs)
  BY <1>2 DEF ClosedEnd
<1> QED
  BY <1>1, <1>2, <1>3 DEF Marks

\* What a flush does next sends the writers that it is for, and pushes nothing.
LEMMA FlushEnds ==
    ASSUME strategy \in Strategies, NEW left \in SUBSET Channels, curr_index \in Channels,
           NEW steps \in FlushSteps(left)
    PROVE  /\ \A i \in DOMAIN steps : steps[i].op \notin {"push", "push_all"}
           /\ \A w \in Own : (strategy # "Mute" /\ (strategy = "KeyBy" => w \in left))
                => EndsAfter(strategy, steps, 0, w)
           /\ strategy = "Mute" => steps = <<>>
<1>1. strategy # "KeyBy" => Own = {1}
  BY DEF Own, Writers, Copier
<1>2. ASSUME NEW c, strategy # "KeyBy", steps = <<Send(1, c), Get(1)>>
      PROVE  /\ \A i \in DOMAIN steps : steps[i].op \notin {"push", "push_all"}
             /\ \A w \in Own : EndsAfter(strategy, steps, 0, w)
  <2>1. PICK a, b : a = Send(1, c) /\ b = Get(1)
    OBVIOUS
  <2>2. a.op = "send" /\ a.writer = 1 /\ b.op = "get"
    BY <2>1 DEF Send, Get, Step
  <2>3. DOMAIN steps = {1, 2} /\ steps[1] = a /\ steps[2] = b
    BY <1>2, <2>1
  <2>4. \A w \in Own : Sends(strategy, steps[1], w)
    BY <1>1, <1>2, <2>2, <2>3 DEF Sends
  <2> QED
    BY <2>2, <2>3, <2>4 DEF EndsAfter
<1>3. CASE strategy = "Forward"
  BY <1>2, <1>3 DEF FlushSteps, ForwardFlush
<1>4. CASE strategy = "RoundRobin"
  BY <1>2, <1>4 DEF FlushSteps, RoundRobinFlush
<1>5. CASE strategy = "Mute"
  BY <1>5 DEF FlushSteps
<1>6. CASE strategy = "KeyBy"
  <2>1. steps \in KeyByFlush(left)
    BY <1>6 DEF FlushSteps
  <2>2. CASE left = {}
    <3>1. steps = <<>>
      BY <2>1, <2>2 DEF KeyByFlush
    <3> QED
      BY <1>6, <2>2, <3>1
  <2>3. CASE left # {}
    <3>1. PICK v \in left : steps = Append(FlushBuffer(v), FlushOf(left \ {v}))
      BY <2>1, <2>3 DEF KeyByFlush
    <3>2. Send(v, v) \in Steps /\ Get(v) \in Steps /\ FlushOf(left \ {v}) \in Steps
      BY <1>6, StepTypes, WriterFacts
    <3>3. PICK a \in Steps, b \in Steps, c \in Steps :
            a = Send(v, v) /\ b = Get(v) /\ c = FlushOf(left \ {v})
      BY <3>2
    <3>4. steps = Append(<<a, b>>, c)
      BY <3>1, <3>3, Zenon DEF FlushBuffer
    <3>5. DOMAIN steps = {1, 2, 3} /\ steps[1] = a /\ steps[2] = b /\ steps[3] = c
      BY <3>4
    <3>6. /\ a.op = "send" /\ a.writer = v /\ b.op = "get"
          /\ c.op = "flush" /\ c.left = left \ {v}
      BY <3>3 DEF Send, Get, FlushOf, Step
    <3>7. ASSUME NEW w \in left PROVE EndsAfter(strategy, steps, 0, w)
      <4>1. CASE w = v
        <5>1. Sends(strategy, steps[1], w)
          BY <3>5, <3>6, <4>1 DEF Sends
        <5> QED
          BY <3>5, <5>1 DEF EndsAfter
      <4>2. CASE w # v
        <5>1. Sends(strategy, steps[3], w)
          BY <3>5, <3>6, <4>2 DEF Sends
        <5>2. \A i \in DOMAIN steps : ~ Pushes(steps[i], w)
          BY <3>5, <3>6 DEF Pushes
        <5> QED
          BY <3>5, <5>1, <5>2 DEF EndsAfter
      <4> QED
        BY <4>1, <4>2
    <3> QED
      BY <1>6, <3>5, <3>6, <3>7
  <2> QED
    BY <2>2, <2>3
<1>7. CASE strategy = "Broadcast"
  <2>1. steps \in BroadcastFlush(left)
    BY <1>7 DEF FlushSteps
  <2>2. CASE left = {N}
    BY <1>2, <1>7, <2>1, <2>2 DEF BroadcastFlush
  <2>3. CASE left # {N}
    <3>1. PICK c : steps = <<Get(Copier), Copy, Send(Copier, c), FlushOf(left \ {c})>>
      BY <2>1, <2>3 DEF BroadcastFlush, CopyTo
    <3>2. PICK g, x, y, z : g = Get(Copier) /\ x = Copy /\ y = Send(Copier, c) /\ z = FlushOf(left \ {c})
      OBVIOUS
    <3>3. g.op = "get" /\ x.op = "copy" /\ y.op = "send" /\ z.op = "flush"
      BY <3>2 DEF Send, Get, FlushOf, Copy, Step
    <3>4. DOMAIN steps = {1, 2, 3, 4} /\ steps[1] = g /\ steps[2] = x /\ steps[3] = y /\ steps[4] = z
      BY <3>1, <3>2
    <3>5. ASSUME NEW w \in Own PROVE EndsAfter(strategy, steps, 0, w)
      <4>1. Sends(strategy, steps[4], w)
        BY <1>7, <3>3, <3>4 DEF Sends
      <4>2. \A i \in DOMAIN steps : ~ Pushes(steps[i], w)
        BY <3>3, <3>4 DEF Pushes
      <4> QED
        BY <3>4, <4>1, <4>2 DEF EndsAfter
    <3> QED
      BY <1>7, <3>3, <3>4, <3>5
  <2> QED
    BY <2>2, <2>3
<1> QED
  BY <1>3, <1>4, <1>5, <1>6, <1>7, StrategyAssumption

\* One call of add more.
LEMMA KnownStays ==
    ASSUME NEW ad \in Seq(Call), NEW x \in Call
    PROVE  /\ \A e \in DOMAIN ad : e \in DOMAIN Append(ad, x) /\ Append(ad, x)[e] = ad[e]
           /\ Len(ad) + 1 \in DOMAIN Append(ad, x) /\ Append(ad, x)[Len(ad) + 1] = x
           /\ \A f, n : EndsIn(ad, f, n) => EndsIn(Append(ad, x), f, n)
<1>1. /\ \A e \in DOMAIN ad : e \in DOMAIN Append(ad, x) /\ Append(ad, x)[e] = ad[e]
      /\ Len(ad) + 1 \in DOMAIN Append(ad, x) /\ Append(ad, x)[Len(ad) + 1] = x
  OBVIOUS
<1> QED
  BY <1>1 DEF EndsIn

\* What add leaves to do has a flush behind a marker.
LEMMA AddEnds ==
    ASSUME strategy \in Strategies, NEW call \in Call, NEW e \in Event, NEW ad,
           e \in DOMAIN ad, ad[e] = call
    PROVE  /\ PushesEnd(ad, strategy, AddSteps(call, e), Own)
           /\ strategy = "Mute" => \A k \in DOMAIN AddSteps(call, e) : AddSteps(call, e)[k].op = "flush"
<1>1. call.kind \in {"element", "marker", "flush"}
  BY DEF Call
<1>2. PICK f : f = FlushOf(Channels)
  OBVIOUS
<1>3. f.op = "flush" /\ f.left = Channels
  BY <1>2 DEF FlushOf, Step
<1>4. Own \subseteq Channels
  BY WriterFacts DEF Own, Writers
<1>5. ASSUME NEW a, AddSteps(call, e) = <<a, f>>, a.event = e
      PROVE  PushesEnd(ad, strategy, AddSteps(call, e), Own)
  <2>1. PICK q : q = <<a, f>>
    OBVIOUS
  <2>2. DOMAIN q = {1, 2} /\ q[1] = a /\ q[2] = f
    BY <2>1
  <2>3. \A w \in Own : EndsAfter(strategy, q, 1, w)
    BY <1>3, <1>4, <2>2 DEF EndsAfter, Sends
  <2> QED
    BY <1>3, <1>5, <2>1, <2>2, <2>3 DEF PushesEnd
<1>6. ASSUME NEW a, AddSteps(call, e) = <<a>>, a.event = e, call.kind # "marker"
      PROVE  PushesEnd(ad, strategy, AddSteps(call, e), Own)
  <2>1. PICK q : q = <<a>>
    OBVIOUS
  <2>2. DOMAIN q = {1} /\ q[1] = a
    BY <2>1
  <2> QED
    BY <1>6, <2>1, <2>2 DEF PushesEnd
<1>7. CASE call.kind = "flush"
  <2>1. AddSteps(call, e) = <<f>>
    BY <1>2, <1>7 DEF AddSteps
  <2>2. PICK q : q = <<f>>
    OBVIOUS
  <2>3. DOMAIN q = {1} /\ q[1] = f
    BY <2>2
  <2>4. PushesEnd(ad, strategy, q, Own) /\ \A k \in DOMAIN q : q[k].op = "flush"
    BY <1>3, <2>3 DEF PushesEnd
  <2> QED
    BY <2>1, <2>2, <2>4
<1>8. CASE call.kind # "flush" /\ strategy = "KeyBy"
  <2>1. AddSteps(call, e) = KeyByAdd(call, e)
    BY <1>8 DEF AddSteps
  <2>2. CASE call.kind = "marker"
    <3>1. AddSteps(call, e) = <<PushAll(Channels, e), f>> /\ PushAll(Channels, e).event = e
      BY <1>2, <2>1, <2>2 DEF KeyByAdd, PushAll, Step
    <3> QED
      BY <1>5, <1>8, <3>1
  <2>3. CASE call.kind = "element"
    <3>1. /\ AddSteps(call, e) = <<Push(KeyIndex(call.key), e)>>
          /\ Push(KeyIndex(call.key), e).event = e
      BY <2>1, <2>3 DEF KeyByAdd, Push, Step
    <3> QED
      BY <1>6, <1>8, <2>3, <3>1
  <2> QED
    BY <1>1, <1>8, <2>2, <2>3
<1>9. CASE call.kind # "flush" /\ strategy = "Mute"
  <2>1. AddSteps(call, e) = <<>>
    BY <1>9 DEF AddSteps
  <2> QED
    BY <2>1 DEF PushesEnd
<1>10. CASE call.kind # "flush" /\ strategy \in {"Forward", "Broadcast", "RoundRobin"}
  <2>1. AddSteps(call, e) = ForwardAdd(call, e)
    BY <1>10 DEF AddSteps, BroadcastAdd, RoundRobinAdd
  <2>2. Push(1, e).event = e
    BY DEF Push, Step
  <2>3. CASE call.kind = "marker"
    <3>1. AddSteps(call, e) = <<Push(1, e), f>>
      BY <1>2, <2>1, <2>3 DEF ForwardAdd
    <3> QED
      BY <1>5, <1>10, <2>2, <3>1
  <2>4. CASE call.kind = "element"
    <3>1. AddSteps(call, e) = <<Push(1, e)>>
      BY <2>1, <2>4 DEF ForwardAdd
    <3> QED
      BY <1>6, <1>10, <2>2, <2>4, <3>1
  <2> QED
    BY <1>1, <1>10, <2>3, <2>4
<1> QED
  BY <1>7, <1>8, <1>9, <1>10, StrategyAssumption

\* A call of add or flush.
LEMMA AddKeepsMarks ==
    ASSUME TypeOK, NEW S, Follows(S), Marks(S), NEW call \in Call, Add(call)
    PROVE  Marks(S)'
<1>1. /\ calls = <<>> /\ UNCHANGED <<strategy, memory, writer, mailbox>>
      /\ added \in Seq(Call) /\ strategy \in Strategies
  BY DEF Add, Idle, TypeOK, sender, pool
<1>2. S = Own /\ Own' = Own
  BY <1>1, LeadsNowhere, SameOwn DEF Follows
<1>3. PICK e : e = Len(added) + 1
  OBVIOUS
<1>4. e \in Event
  BY <1>3, BoundAssumption DEF Add, TypeOK, Event
<1>5. PICK ad : ad = Append(added, call)
  OBVIOUS
<1>6. /\ \A x \in DOMAIN added : x \in DOMAIN ad /\ ad[x] = added[x]
      /\ e \in DOMAIN ad /\ ad[e] = call
      /\ \A f, n : EndsIn(added, f, n) => EndsIn(ad, f, n)
  BY <1>1, <1>3, <1>5, KnownStays
<1>7. added' = ad /\ calls' = AddSteps(call, e)
  BY <1>3, <1>5 DEF Add
<1>8. MailEnds(ad, memory, mailbox)
  BY <1>6 DEF Marks, MailEnds
<1>9. WritersEnd(ad, memory, writer, Own)
  BY <1>2, <1>6 DEF Marks, WritersEnd
<1>10. ASSUME NEW w \in Own, Closed(ad, memory, writer, w) PROVE FALSE
  <2>1. writer[w].len \in 1..writer[w].len
    BY <1>10 DEF Closed, TypeOK, Own
  <2>2. memory[writer[w].buffer][writer[w].len] \in DOMAIN added
    BY <1>2, <2>1 DEF Marks, WritersEnd, EndsIn
  <2>3. Closed(added, memory, writer, w)
    BY <1>6, <1>10, <2>2 DEF Closed
  <2>4. EndsAfter(strategy, <<>>, 0, w)
    BY <1>1, <1>2, <2>3 DEF Marks, ClosedEnd, Own
  <2> QED
    BY <2>4 DEF EndsAfter
<1>11. PICK cs : cs = AddSteps(call, e)
  OBVIOUS
<1>12. ClosedEnd(ad, memory, writer, Own, strategy, cs)
  BY <1>10 DEF ClosedEnd
<1>13. PushesEnd(ad, strategy, cs, Own)
  BY <1>1, <1>4, <1>6, <1>11, AddEnds
<1>14. strategy = "Mute" => Quiet(writer, Own, cs)
  BY <1>1, <1>4, <1>6, <1>11, AddEnds DEF Marks, Quiet
<1> QED
  BY <1>1, <1>2, <1>7, <1>8, <1>9, <1>11, <1>12, <1>13, <1>14 DEF Marks

\* The first call is the next one of `calls'.
LEMMA FirstCall ==
    ASSUME TypeOK, NEW op, Running(op)
    PROVE  /\ calls \in Seq(Steps) /\ calls # <<>> /\ 1 \in DOMAIN calls
           /\ Head(calls) = calls[1] /\ calls[1].op = op /\ Tail(calls) \in Seq(Steps)
           /\ DOMAIN Tail(calls) \subseteq Nat
           /\ \A k \in DOMAIN Tail(calls) : Tail(calls)[k] = calls[k + 1] /\ k + 1 \in DOMAIN calls
  BY DEF TypeOK, Running

\* A writer that is sent before it is pushed to is not pushed to by the first
\* call, and if that does not send it, another one does.
LEMMA EndsFirst ==
    ASSUME NEW cs \in Seq(Steps), cs # <<>>, NEW str, NEW w, EndsAfter(str, cs, 0, w)
    PROVE  Sends(str, cs[1], w) \/ (~ Pushes(cs[1], w) /\ EndsAfter(str, Tail(cs), 0, w))
<1>1. ASSUME ~ Sends(str, cs[1], w) PROVE ~ Pushes(cs[1], w)
  <2>1. PICK j \in DOMAIN cs : /\ j > 0 /\ Sends(str, cs[j], w)
                               /\ \A i \in DOMAIN cs : (0 < i /\ i < j) => ~ Pushes(cs[i], w)
    BY DEF EndsAfter
  <2>2. j # 1 /\ j \in Nat /\ 1 \in DOMAIN cs
    BY <1>1, <2>1
  <2> QED
    BY <2>1, <2>2
<1>2. ASSUME ~ Sends(str, cs[1], w) PROVE EndsAfter(str, Tail(cs), 0, w)
  BY <1>2, EndsTail
<1> QED
  BY <1>1, <1>2

\* A full buffer.
LEMMA FullKeepsMarks ==
    ASSUME TypeOK, NEW S, Follows(S), Marks(S), PushIsFull
    PROVE  Marks(S)'
<1>1. /\ UNCHANGED <<strategy, memory, writer, mailbox, added>>
      /\ calls \in Seq(Steps) /\ calls # <<>> /\ calls[1].op = "push" /\ 1 \in DOMAIN calls
      /\ Head(calls) = calls[1]
  BY FirstCall DEF PushIsFull, sender, pool
<1>2. PICK w \in Writers : w = Head(calls).writer
  BY HeadType DEF PushIsFull
<1>3. PICK p : p = FlushFull(w)
  OBVIOUS
<1>4. calls' = p \o calls
  BY <1>2, <1>3 DEF PushIsFull
<1>5. p \in Seq(Steps) /\ \A i \in DOMAIN p : p[i].op \notin {"push", "push_all"}
  <2>1. CASE strategy = "KeyBy"
    <3>1. Head(calls) \in Steps /\ Head(calls).op = "push"
      BY HeadType DEF PushIsFull
    <3>2. w \in Channels
      BY <1>2, <2>1, <3>1, WriterFacts DEF Steps
    <3>3. Send(w, w) \in Steps /\ Get(w) \in Steps
      BY <3>2, StepTypes
    <3>4. PICK a \in Steps, b \in Steps : a = Send(w, w) /\ b = Get(w)
      BY <3>3
    <3>5. a.op = "send" /\ b.op = "get"
      BY <3>4 DEF Send, Get, Step
    <3>6. p = <<a, b>>
      BY <1>3, <2>1, <3>4 DEF FlushFull, FlushBuffer
    <3> QED
      BY <3>5, <3>6
  <2>2. CASE strategy # "KeyBy"
    <3>1. PICK f \in Steps : f = FlushOf(Channels)
      BY StepTypes
    <3>2. f.op = "flush"
      BY <3>1 DEF FlushOf, Step
    <3>3. p = <<f>>
      BY <1>3, <2>2, <3>1 DEF FlushFull
    <3> QED
      BY <3>2, <3>3
  <2> QED
    BY <2>1, <2>2
<1>6. PushesEnd(added, strategy, p \o calls, Own)
  BY <1>1, <1>5, PushesConcat DEF Marks
<1>7. ASSUME NEW v \in S \ {Copier}, Closed(added, memory, writer, v)
      PROVE  EndsAfter(strategy, p \o calls, 0, v)
  <2>1. EndsAfter(strategy, calls, 0, v)
    BY <1>7 DEF Marks, ClosedEnd
  <2>2. \A i \in DOMAIN p : ~ Pushes(p[i], v)
    BY <1>5 DEF Pushes
  <2>3. 0 \in Nat /\ 0 <= Len(p)
    BY <1>5
  <2> QED
    BY <1>1, <1>5, <2>1, <2>2, <2>3, EndsConcat
<1>8. strategy # "Mute"
  BY <1>1 DEF Marks, Quiet
<1> QED
  BY <1>1, <1>4, <1>6, <1>7, <1>8, MarksOfCalls

\* KeyBy's loop over its buffers.
LEMMA LoopKeepsMarks ==
    ASSUME TypeOK, NEW S, Follows(S), Marks(S), PushToNext
    PROVE  Marks(S)'
<1>1. /\ UNCHANGED <<strategy, memory, writer, mailbox, added>>
      /\ calls \in Seq(Steps) /\ calls # <<>> /\ calls[1].op = "push_all" /\ 1 \in DOMAIN calls
      /\ Head(calls) = calls[1] /\ Tail(calls) \in Seq(Steps)
  BY FirstCall DEF PushToNext, sender, pool
<1>2. PICK left, e : left = Head(calls).left /\ e = Head(calls).event
  OBVIOUS
<1>3. left \in SUBSET Channels /\ e \in Event /\ strategy = "KeyBy"
  BY <1>2, HeadType DEF PushToNext, Steps
<1>4. Own = Channels
  BY <1>3, WriterFacts DEF Own
<1>5. PushesEnd(added, strategy, Tail(calls), Own)
  BY <1>1, PushesTail DEF Marks
<1>6. ASSUME NEW v \in S \ {Copier}, Closed(added, memory, writer, v)
      PROVE  v \notin left /\ EndsAfter(strategy, Tail(calls), 0, v)
  <2>1. EndsAfter(strategy, calls, 0, v)
    BY <1>6 DEF Marks, ClosedEnd
  <2>2. ~ Sends(strategy, calls[1], v)
    BY <1>1 DEF Sends
  <2> QED
    BY <1>1, <1>2, <2>1, <2>2, EndsFirst DEF Pushes
<1>7. /\ e \in DOMAIN added
      /\ \A v \in left : added[e].kind = "marker" => EndsAfter(strategy, Tail(calls), 0, v)
  <2>1. e \in DOMAIN added
    BY <1>1, <1>2 DEF Marks, PushesEnd
  <2>2. ASSUME NEW v \in left, added[e].kind = "marker" PROVE EndsAfter(strategy, Tail(calls), 0, v)
    <3>1. EndsAfter(strategy, calls, 1, v)
      BY <1>1, <1>2, <1>3, <1>4, <2>2 DEF Marks, PushesEnd, Pushes
    <3>2. EndsAfter(strategy, calls, 0 + 1, v)
      BY <3>1
    <3> QED
      BY <1>1, <3>2, EndsTail
  <2> QED
    BY <2>1, <2>2
<1>8. CASE calls' = Tail(calls)
  BY <1>1, <1>3, <1>5, <1>6, <1>8, MarksOfCalls
<1>9. ASSUME NEW w \in left, calls' = <<Push(w, e), PushAll(left \ {w}, e)>> \o Tail(calls)
      PROVE  Marks(S)'
  <2>1. Push(w, e) \in Steps /\ PushAll(left \ {w}, e) \in Steps
    BY <1>3, WriterFacts, StepTypes
  <2>2. PICK a \in Steps, b \in Steps : a = Push(w, e) /\ b = PushAll(left \ {w}, e)
    BY <2>1
  <2>3. /\ a.op = "push" /\ a.writer = w /\ a.event = e
        /\ b.op = "push_all" /\ b.left = left \ {w} /\ b.event = e
    BY <2>2 DEF Push, PushAll, Step
  <2>4. PICK p \in Seq(Steps) : p = <<a, b>>
    <3>1. <<a, b>> \in Seq(Steps)
      OBVIOUS
    <3> QED
      BY <3>1
  <2>5. DOMAIN p = {1, 2} /\ p[1] = a /\ p[2] = b /\ Len(p) = 2
    BY <2>4
  <2>6. PICK t \in Seq(Steps) : t = Tail(calls)
    BY <1>1
  <2>7. calls' = p \o t
    BY <1>9, <2>2, <2>4, <2>6
  <2>8. ASSUME NEW k \in Nat, NEW v, k <= 2, EndsAfter(strategy, t, 0, v),
               \A i \in DOMAIN p : i > k => ~ Pushes(p[i], v)
        PROVE  EndsAfter(strategy, p \o t, k, v)
    BY <2>5, <2>8, EndsConcat
  <2>9. ASSUME NEW k \in DOMAIN p, NEW v \in Own, Pushes(p[k], v), added[e].kind = "marker"
        PROVE  EndsAfter(strategy, p \o t, k, v)
    <3>1. v \in left /\ EndsAfter(strategy, t, 0, v)
      BY <1>7, <2>3, <2>5, <2>6, <2>9 DEF Pushes
    <3>2. \A i \in DOMAIN p : i > k => ~ Pushes(p[i], v)
      BY <2>3, <2>5, <2>9 DEF Pushes
    <3>3. k \in Nat /\ k <= 2
      BY <2>5
    <3> QED
      BY <2>8, <3>1, <3>2, <3>3
  <2>10. PushesEnd(added, strategy, p \o t, Own)
    <3>1. \A k \in DOMAIN p : p[k].event = e
      BY <2>3, <2>5
    <3> QED
      BY <1>5, <1>7, <2>6, <2>9, <3>1, PushesConcat
  <2>11. ASSUME NEW v \in S \ {Copier}, Closed(added, memory, writer, v)
         PROVE  EndsAfter(strategy, p \o t, 0, v)
    <3>1. v \notin left /\ EndsAfter(strategy, t, 0, v)
      BY <1>6, <2>6, <2>11
    <3>2. \A i \in DOMAIN p : ~ Pushes(p[i], v)
      BY <2>3, <2>5, <3>1 DEF Pushes
    <3> QED
      BY <2>8, <3>1, <3>2
  <2> QED
    BY <1>1, <1>3, <2>7, <2>10, <2>11, MarksOfCalls
<1> QED
  BY <1>2, <1>8, <1>9 DEF PushToNext

\* The flushes.
LEMMA FlushKeepsMarks ==
    ASSUME TypeOK, NEW S, Follows(S), Marks(S), Flush
    PROVE  Marks(S)'
<1>1. /\ UNCHANGED <<strategy, memory, writer, mailbox, added>>
      /\ calls \in Seq(Steps) /\ calls # <<>> /\ calls[1].op = "flush" /\ 1 \in DOMAIN calls
      /\ Head(calls) = calls[1] /\ Tail(calls) \in Seq(Steps)
      /\ \A k \in DOMAIN Tail(calls) : Tail(calls)[k] = calls[k + 1] /\ k + 1 \in DOMAIN calls
  BY FirstCall DEF Flush, sender, pool
<1>2. PICK left \in SUBSET Channels : left = Head(calls).left
  BY HeadType DEF Flush
<1>3. PICK p \in FlushSteps(left) : calls' = p \o Tail(calls)
  BY <1>2 DEF Flush
<1>4. strategy \in Strategies /\ curr_index \in Channels
  BY DEF TypeOK
<1>5. p \in Seq(Steps)
  BY <1>4, FlushStepsType
<1>6. /\ \A i \in DOMAIN p : p[i].op \notin {"push", "push_all"}
      /\ \A w \in Own : (strategy # "Mute" /\ (strategy = "KeyBy" => w \in left))
            => EndsAfter(strategy, p, 0, w)
      /\ strategy = "Mute" => p = <<>>
  BY <1>4, FlushEnds
<1>7. PICK t \in Seq(Steps) : t = Tail(calls)
  BY <1>1
<1>8. PushesEnd(added, strategy, p \o t, Own)
  <2>1. PushesEnd(added, strategy, t, Own)
    BY <1>1, <1>7, PushesTail DEF Marks
  <2> QED
    BY <1>5, <1>6, <2>1, PushesConcat
<1>9. ASSUME NEW v \in S \ {Copier}, Closed(added, memory, writer, v)
      PROVE  EndsAfter(strategy, p \o t, 0, v)
  <2>1. v \in Own
    BY DEF Follows, Own
  <2>2. strategy # "Mute"
    <3>1. writer[v].len # 0
      BY <1>9 DEF Closed
    <3> QED
      BY <2>1, <3>1 DEF Marks, Quiet
  <2>3. EndsAfter(strategy, calls, 0, v)
    BY <1>9 DEF Marks, ClosedEnd
  <2>4. CASE Sends(strategy, calls[1], v)
    <3>1. EndsAfter(strategy, p, 0, v)
      BY <1>1, <1>2, <1>6, <2>1, <2>2, <2>4 DEF Sends
    <3> QED
      BY <1>5, <3>1, EndsConcat
  <2>5. CASE ~ Sends(strategy, calls[1], v)
    <3>1. EndsAfter(strategy, t, 0, v)
      BY <1>1, <1>7, <2>3, <2>5, EndsFirst
    <3>2. \A i \in DOMAIN p : ~ Pushes(p[i], v)
      BY <1>6 DEF Pushes
    <3>3. 0 \in Nat /\ 0 <= Len(p)
      BY <1>5
    <3> QED
      BY <1>5, <3>1, <3>2, <3>3, EndsConcat
  <2> QED
    BY <2>4, <2>5
<1>10. ASSUME strategy = "Mute" PROVE Quiet(writer, Own, p \o t)
  <2>1. p \o t = t
    BY <1>6, <1>10
  <2>2. \A k \in DOMAIN t : t[k].op = "flush"
    BY <1>1, <1>7, <1>10 DEF Marks, Quiet
  <2> QED
    BY <1>10, <2>1, <2>2 DEF Marks, Quiet
<1> QED
  BY <1>1, <1>3, <1>7, <1>8, <1>9, <1>10, MarksOfCalls

\* EventBuffer::push.
LEMMA PushKeepsMarks ==
    ASSUME TypeOK, NEW S, Follows(S), Holds(S, free, writer, mailbox), Marks(S), PushEvent
    PROVE  Marks(S)'
<1>1. /\ UNCHANGED <<strategy, mailbox, added>> /\ Own' = Own /\ calls' = Tail(calls)
      /\ calls \in Seq(Steps) /\ calls # <<>> /\ calls[1].op = "push" /\ 1 \in DOMAIN calls
      /\ Head(calls) = calls[1] /\ Tail(calls) \in Seq(Steps)
  BY FirstCall, SameOwn DEF PushEvent
<1>2. PICK w \in Writers : w = calls[1].writer
  BY <1>1, HeadType DEF PushEvent
<1>3. w \in Own /\ S = Own
  <2>1. PICK C : Changes(Own, S, Head(calls), C)
    BY RunningFacts DEF PushEvent
  <2> QED
    BY <1>1, <1>2, <2>1 DEF Changes
<1>4. PICK b \in Buffers, n \in 0..BufferSize : b = writer[w].buffer /\ n = writer[w].len
  BY DEF TypeOK
<1>5. PICK at : at = n + 1
  OBVIOUS
<1>6. at \in 1..BufferSize /\ n \in Nat
  <2>1. writer[w].len + 1 <= BufferSize
    BY <1>1, <1>2 DEF PushEvent
  <2>2. BufferSize \in Nat
    BY PoolAssumption
  <2> QED
    BY <1>4, <1>5, <2>1, <2>2
<1>7. PICK e \in Event : e = calls[1].event
  BY <1>1, HeadType DEF PushEvent
<1>8. PICK mem, wr : mem = memory' /\ wr = writer'
  OBVIOUS
<1>9. mem = [memory EXCEPT ![b][at] = e] /\ wr = [writer EXCEPT ![w].len = at]
  BY <1>1, <1>2, <1>4, <1>5, <1>7, <1>8 DEF PushEvent
<1>10. /\ mem[b][at] = e /\ \A k \in 1..BufferSize : k # at => mem[b][k] = memory[b][k]
       /\ \A x \in Buffers : x # b => mem[x] = memory[x]
       /\ wr[w].buffer = b /\ wr[w].len = at /\ \A v \in Writers : v # w => wr[v] = writer[v]
  BY <1>4, <1>6, <1>9 DEF TypeOK
<1>11. MailEnds(added, mem, mailbox)
  <2>1. \A c \in Channels : \A i \in DOMAIN mailbox[c] :
          /\ mailbox[c][i].buffer # b
          /\ mailbox[c][i].buffer # NoBuffer => mailbox[c][i].buffer \in Buffers
    BY <1>3, <1>4, MessageBuffers DEF Holds, Apart, TypeOK
  <2> QED
    BY <1>10, <2>1 DEF Marks, MailEnds
<1>12. ASSUME NEW v \in Own, v # w
       PROVE  wr[v] = writer[v] /\ mem[writer[v].buffer] = memory[writer[v].buffer]
  <2>1. v \in Writers /\ writer[v].buffer \in Buffers /\ writer[v].buffer # b
    BY <1>3, <1>4, <1>12 DEF Holds, WritersHold, Own, TypeOK
  <2> QED
    BY <1>10, <1>12, <2>1
<1>13. ~ Closed(added, memory, writer, w)
  <2> SUFFICES ASSUME Closed(added, memory, writer, w) PROVE FALSE
    OBVIOUS
  <2>1. EndsAfter(strategy, calls, 0, w)
    BY <1>3 DEF Marks, ClosedEnd, Own
  <2>2. ~ Sends(strategy, calls[1], w) /\ Pushes(calls[1], w)
    BY <1>1, <1>2 DEF Sends, Pushes
  <2> QED
    BY <1>1, <2>1, <2>2, EndsFirst
<1>14. e \in DOMAIN added
  BY <1>1, <1>7 DEF Marks, PushesEnd
<1>15. EndsIn(added, mem[b], at)
  <2> SUFFICES ASSUME NEW k \in 1..at
               PROVE  mem[b][k] \in DOMAIN added /\ (added[mem[b][k]].kind = "marker" => k = at)
    BY DEF EndsIn
  <2>1. CASE k = at
    BY <1>10, <1>14, <2>1
  <2>2. CASE k # at
    <3>1. k \in 1..n /\ k \in 1..BufferSize
      BY <1>4, <1>5, <1>6, <2>2, PoolAssumption
    <3>2. memory[b][k] \in DOMAIN added /\ (added[memory[b][k]].kind = "marker" => k = n)
      BY <1>3, <1>4, <3>1 DEF Marks, WritersEnd, EndsIn
    <3>3. added[memory[b][k]].kind # "marker"
      BY <1>4, <1>13, <3>1, <3>2 DEF Closed
    <3> QED
      BY <1>10, <2>2, <3>1, <3>2, <3>3
  <2> QED
    BY <2>1, <2>2
<1>16. WritersEnd(added, mem, wr, S)
  <2> SUFFICES ASSUME NEW v \in Own PROVE EndsIn(added, mem[wr[v].buffer], wr[v].len)
    BY <1>3 DEF WritersEnd
  <2>1. CASE v = w
    BY <1>10, <1>15, <2>1
  <2>2. CASE v # w
    BY <1>3, <1>12, <2>2 DEF Marks, WritersEnd
  <2> QED
    BY <2>1, <2>2
<1>17. PICK t \in Seq(Steps) : t = Tail(calls)
  BY <1>1
<1>18. ClosedEnd(added, mem, wr, S, strategy, t)
  <2> SUFFICES ASSUME NEW v \in S \ {Copier}, Closed(added, mem, wr, v)
               PROVE  EndsAfter(strategy, t, 0, v)
    BY DEF ClosedEnd
  <2>1. CASE v = w
    <3>1. added[e].kind = "marker"
      BY <1>10, <2>1 DEF Closed
    <3>2. Pushes(calls[1], w)
      BY <1>1, <1>2 DEF Pushes
    <3>3. EndsAfter(strategy, calls, 1, w)
      BY <1>1, <1>3, <1>7, <3>1, <3>2 DEF Marks, PushesEnd
    <3>4. EndsAfter(strategy, calls, 0 + 1, w)
      BY <3>3
    <3> QED
      BY <1>1, <1>17, <2>1, <3>4, EndsTail
  <2>2. CASE v # w
    <3>1. Closed(added, memory, writer, v)
      BY <1>3, <1>12, <2>2 DEF Closed
    <3>2. EndsAfter(strategy, calls, 0, v)
      BY <3>1 DEF Marks, ClosedEnd
    <3>3. ~ Sends(strategy, calls[1], v)
      BY <1>1 DEF Sends
    <3> QED
      BY <1>1, <1>17, <3>2, <3>3, EndsFirst
  <2> QED
    BY <2>1, <2>2
<1>19. PushesEnd(added, strategy, t, Own)
  BY <1>1, <1>17, PushesTail DEF Marks
<1>20. strategy # "Mute"
  BY <1>1 DEF Marks, Quiet
<1> QED
  BY <1>1, <1>8, <1>11, <1>16, <1>17, <1>18, <1>19, <1>20 DEF Marks

\* What the first call leaves behind when it is neither a push nor a flush.
LEMMA TailMarks ==
    ASSUME TypeOK, NEW S, Marks(S), NEW op, op \in {"send", "get", "copy"}, Running(op)
    PROVE  /\ PushesEnd(added, strategy, Tail(calls), Own)
           /\ \A v \in S \ {Copier} :
                (Closed(added, memory, writer, v) /\ (op = "send" => v # calls[1].writer))
                   => EndsAfter(strategy, Tail(calls), 0, v)
           /\ strategy # "Mute"
           /\ calls[1] = Head(calls) /\ calls[1].op = op
<1>1. /\ calls \in Seq(Steps) /\ calls # <<>> /\ calls[1].op = op /\ 1 \in DOMAIN calls
      /\ Head(calls) = calls[1]
  BY FirstCall
<1>2. PushesEnd(added, strategy, Tail(calls), Own)
  BY <1>1, PushesTail DEF Marks
<1>3. ASSUME NEW v \in S \ {Copier}, Closed(added, memory, writer, v), op = "send" => v # calls[1].writer
      PROVE  EndsAfter(strategy, Tail(calls), 0, v)
  <2>1. EndsAfter(strategy, calls, 0, v)
    BY <1>3 DEF Marks, ClosedEnd
  <2>2. ~ Sends(strategy, calls[1], v)
    BY <1>1, <1>3 DEF Sends
  <2> QED
    BY <1>1, <2>1, <2>2, EndsFirst
<1>4. strategy # "Mute"
  BY <1>1 DEF Marks, Quiet
<1> QED
  BY <1>1, <1>2, <1>3, <1>4

\* One more message.
LEMMA MailAppend ==
    ASSUME NEW ad, NEW mem, NEW mb \in [Channels -> Seq(Message)], MailEnds(ad, mem, mb),
           NEW c \in Channels, NEW m \in Message,
           m.buffer = NoBuffer => EndsIn(ad, m.events, Len(m.events)),
           m.buffer # NoBuffer => EndsIn(ad, mem[m.buffer], m.len)
    PROVE  MailEnds(ad, mem, [mb EXCEPT ![c] = Append(@, m)])
<1>1. PICK mb2 : mb2 = [mb EXCEPT ![c] = Append(@, m)]
  OBVIOUS
<1>2. PICK n : n = Len(mb[c]) + 1
  OBVIOUS
<1>3. /\ \A d \in Channels : d # c => mb2[d] = mb[d]
      /\ DOMAIN mb2[c] = DOMAIN mb[c] \cup {n}
      /\ \A i \in DOMAIN mb[c] : mb2[c][i] = mb[c][i]
      /\ mb2[c][n] = m
  BY <1>1, <1>2, MailFacts
<1>4. MailEnds(ad, mem, mb2)
  BY <1>3 DEF MailEnds
<1> QED
  BY <1>1, <1>4

\* The three ways a send ends.
LEMMA SendKeepsMarks ==
    ASSUME TypeOK, NEW S, Follows(S), Marks(S), NEW C, Changes(Own, S, Head(calls), C),
           SendLocal \/ SendRemote \/ SendFails
    PROVE  Marks(C)'
<1>1. /\ UNCHANGED <<strategy, memory, writer, added>> /\ Own' = Own
      /\ Running("send") /\ calls' = Tail(calls)
  BY SameOwn DEF SendLocal, SendRemote, SendFails, pool
<1>2. /\ PushesEnd(added, strategy, Tail(calls), Own)
      /\ \A v \in S \ {Copier} : (Closed(added, memory, writer, v) /\ v # calls[1].writer)
            => EndsAfter(strategy, Tail(calls), 0, v)
      /\ strategy # "Mute" /\ calls[1] = Head(calls) /\ calls[1].op = "send"
  BY <1>1, TailMarks
<1>3. PICK w \in Writers : w = calls[1].writer
  BY <1>1, <1>2, HeadType
<1>4. w \in S /\ C = S \ {w}
  BY <1>2, <1>3 DEF Changes
<1>5. PICK t : t = Tail(calls)
  OBVIOUS
<1>6. ClosedEnd(added, memory, writer, C, strategy, t)
  BY <1>2, <1>3, <1>4, <1>5 DEF ClosedEnd
<1>7. WritersEnd(added, memory, writer, C)
  BY <1>4 DEF Marks, WritersEnd
<1>8. EndsIn(added, memory[writer[w].buffer], writer[w].len)
  BY <1>4 DEF Marks, WritersEnd
<1>9. Head(calls) \in Steps /\ Head(calls).op = "send"
  BY <1>1, HeadType
<1>10. PICK c \in Channels : c = Head(calls).chan
  BY <1>9 DEF Steps
<1>11. PICK b \in Buffers, n \in 0..BufferSize : b = writer[w].buffer /\ n = writer[w].len
  BY DEF TypeOK
<1>12. MailEnds(added, memory, mailbox) /\ mailbox \in [Channels -> Seq(Message)]
  BY DEF Marks, TypeOK
<1>13. NoBuffer \notin Buffers
  BY PoolAssumption DEF NoBuffer, Buffers
<1>14. MailEnds(added, memory, mailbox')
  <2>1. CASE SendLocal
    <3>1. PICK m : m = [buffer |-> b, len |-> n, current |-> 0, events |-> <<>>]
      OBVIOUS
    <3>2. m \in Message /\ m.buffer = b /\ m.len = n
      BY <3>1, EmptySeq, PoolAssumption DEF Message
    <3>3. mailbox' = [mailbox EXCEPT ![c] = Append(@, m)]
      BY <1>2, <1>3, <1>10, <1>11, <2>1, <3>1 DEF SendLocal
    <3> QED
      BY <1>8, <1>11, <1>12, <1>13, <3>2, <3>3, MailAppend
  <2>2. CASE SendRemote
    <3>1. PICK ev : ev = SubSeq(memory[b], 1, n)
      OBVIOUS
    <3>2. ev \in Seq(Event)
      BY <3>1, ReadType
    <3>3. Len(ev) = n /\ \A k \in 1..n : ev[k] = memory[b][k]
      <4>1. \A k \in 1..n : memory[b][k] \in Event
        BY PoolAssumption DEF TypeOK
      <4>2. n \in Nat
        BY PoolAssumption
      <4> QED
        BY <3>1, <4>1, <4>2, SubSeqProperties
    <3>4. EndsIn(added, ev, Len(ev))
      BY <1>8, <1>11, <3>3 DEF EndsIn
    <3>5. PICK m : m = [buffer |-> NoBuffer, len |-> 0, current |-> 0, events |-> ev]
      OBVIOUS
    <3>6. m \in Message /\ m.buffer = NoBuffer /\ m.events = ev
      BY <3>2, <3>5, PoolAssumption DEF Message
    <3>7. mailbox' = [mailbox EXCEPT ![c] = Append(@, m)]
      BY <1>2, <1>3, <1>10, <1>11, <2>2, <3>1, <3>5 DEF SendRemote, Buffered
    <3> QED
      BY <1>12, <3>4, <3>6, <3>7, MailAppend
  <2>3. CASE SendFails
    BY <1>12, <2>3 DEF SendFails
  <2> QED
    BY <2>1, <2>2, <2>3
<1> QED
  BY <1>1, <1>2, <1>5, <1>6, <1>7, <1>14 DEF Marks

\* BufferPool::get.
LEMMA GetKeepsMarks ==
    ASSUME TypeOK, NEW S, Follows(S), Marks(S), NEW C, TryGet,
           Changes(Own, S, Head(calls), C) \/ (C = S /\ calls' = calls),
           Follows(C)'
    PROVE  Marks(C)'
<1>1. /\ UNCHANGED <<strategy, memory, mailbox, added>> /\ Own' = Own /\ Running("get")
      /\ Writers' = Writers
  BY SameOwn DEF TryGet
<1>2. /\ PushesEnd(added, strategy, Tail(calls), Own)
      /\ \A v \in S \ {Copier} : Closed(added, memory, writer, v)
            => EndsAfter(strategy, Tail(calls), 0, v)
      /\ strategy # "Mute" /\ calls[1] = Head(calls) /\ calls[1].op = "get"
  BY <1>1, TailMarks
<1>3. PICK w \in Writers : w = calls[1].writer
  BY <1>1, <1>2, HeadType
<1>4. CASE calls' = calls
  <2>1. calls \in Seq(Steps) /\ calls # <<>>
    BY <1>1, FirstCall
  <2>2. Tail(calls) # calls
    BY <2>1
  <2>3. free' = free /\ writer' = writer
    BY <1>4, <2>2 DEF TryGet
  <2>4. C = S
    <3>1. Owners = S
      BY <2>1, OwnersAre DEF Follows
    <3>2. Leads(Own, C, calls, Own) /\ C \in SUBSET Writers
      BY <1>1, <1>4 DEF Follows
    <3>3. Owners = C
      BY <2>1, <3>2, OwnersAre
    <3> QED
      BY <3>1, <3>3
  <2> QED
    BY <1>1, <1>4, <2>3, <2>4 DEF Marks
<1>5. CASE calls' # calls
  <2>1. w \notin S /\ C = S \cup {w}
    BY <1>2, <1>3, <1>5 DEF Changes
  <2>2. PICK b \in Buffers : b = curr_buffer
    BY DEF TypeOK
  <2>3. calls' = Tail(calls) /\ writer' = [writer EXCEPT ![w] = [buffer |-> b, len |-> 0]]
    BY <1>2, <1>3, <1>5, <2>2 DEF TryGet
  <2>4. PICK wr : wr = [writer EXCEPT ![w] = [buffer |-> b, len |-> 0]]
    OBVIOUS
  <2>5. wr[w].len = 0 /\ \A v \in S : wr[v] = writer[v]
    BY <2>1, <2>4 DEF TypeOK, Follows
  <2>6. WritersEnd(added, memory, wr, C)
    BY <2>1, <2>5 DEF Marks, WritersEnd, EndsIn
  <2>7. PICK t : t = Tail(calls)
    OBVIOUS
  <2>8. ClosedEnd(added, memory, wr, C, strategy, t)
    BY <1>2, <2>1, <2>5, <2>7 DEF ClosedEnd, Closed
  <2> QED
    BY <1>1, <1>2, <2>3, <2>4, <2>6, <2>7, <2>8 DEF Marks
<1> QED
  BY <1>4, <1>5

\* copy_from_writer.
LEMMA CopyKeepsMarks ==
    ASSUME TypeOK, NEW S, Follows(S), Holds(S, free, writer, mailbox), Marks(S), NEW C,
           Changes(Own, S, Head(calls), C), CopyFromWriter
    PROVE  Marks(C)'
<1>1. /\ UNCHANGED <<strategy, mailbox, added>> /\ Own' = Own /\ Running("copy")
      /\ calls' = Tail(calls)
  BY SameOwn DEF CopyFromWriter
<1>2. /\ PushesEnd(added, strategy, Tail(calls), Own)
      /\ \A v \in S \ {Copier} : Closed(added, memory, writer, v)
            => EndsAfter(strategy, Tail(calls), 0, v)
      /\ strategy # "Mute" /\ calls[1] = Head(calls) /\ calls[1].op = "copy"
  BY <1>1, TailMarks
<1>3. C = S /\ S = Own \cup {Copier}
  BY <1>2 DEF Changes
<1>4. Head(calls) \in Steps /\ strategy = "Broadcast"
  BY <1>1, HeadType DEF Steps
<1>5. 1 \in Own /\ 1 # Copier /\ Copier \in S /\ 1 \in S /\ Own = {1}
      /\ 1 \in Writers /\ Copier \in Writers
  BY <1>3, <1>4 DEF Own, Writers, Copier
<1>6. PICK b \in Buffers, x \in Buffers, n \in 0..BufferSize :
         b = writer[Copier].buffer /\ x = writer[1].buffer /\ n = writer[1].len
  BY <1>5 DEF TypeOK
<1>7. b # x
  BY <1>3, <1>5, <1>6 DEF Holds, WritersHold
<1>8. PICK mem, wr : mem = memory' /\ wr = writer'
  OBVIOUS
<1>9. /\ mem[b] = [i \in 1..BufferSize |-> IF i <= n THEN memory[x][i] ELSE memory[b][i]]
      /\ \A y \in Buffers : y # b => mem[y] = memory[y]
  BY <1>6, <1>8 DEF CopyFromWriter, TypeOK
<1>10. wr[Copier].buffer = b /\ wr[Copier].len = n /\ wr[1] = writer[1]
  BY <1>5, <1>6, <1>8 DEF CopyFromWriter, TypeOK
<1>11. MailEnds(added, mem, mailbox)
  <2>1. \A c \in Channels : \A i \in DOMAIN mailbox[c] :
          /\ mailbox[c][i].buffer # b
          /\ mailbox[c][i].buffer # NoBuffer => mailbox[c][i].buffer \in Buffers
    BY <1>5, <1>6, MessageBuffers DEF Holds, Apart, TypeOK
  <2> QED
    BY <1>9, <2>1 DEF Marks, MailEnds
<1>12. EndsIn(added, memory[x], n)
  BY <1>5, <1>6 DEF Marks, WritersEnd
<1>13. EndsIn(added, mem[b], n)
  <2>1. \A k \in 1..n : k \in 1..BufferSize /\ k <= n
    BY PoolAssumption
  <2>2. \A k \in 1..n : mem[b][k] = memory[x][k]
    BY <1>9, <2>1
  <2> QED
    BY <1>12, <2>2 DEF EndsIn
<1>14. WritersEnd(added, mem, wr, C)
  <2>1. EndsIn(added, mem[wr[1].buffer], wr[1].len)
    BY <1>6, <1>7, <1>9, <1>10, <1>12
  <2> QED
    BY <1>3, <1>5, <1>10, <1>13, <2>1 DEF WritersEnd
<1>15. PICK t : t = Tail(calls)
  OBVIOUS
<1>16. ClosedEnd(added, mem, wr, C, strategy, t)
  <2> SUFFICES ASSUME NEW v \in C \ {Copier}, Closed(added, mem, wr, v)
               PROVE  EndsAfter(strategy, t, 0, v)
    BY DEF ClosedEnd
  <2>1. v = 1
    BY <1>3, <1>5
  <2>2. Closed(added, memory, writer, v)
    BY <1>6, <1>7, <1>9, <1>10, <2>1 DEF Closed
  <2> QED
    BY <1>2, <1>3, <1>15, <2>2
<1> QED
  BY <1>1, <1>2, <1>8, <1>11, <1>14, <1>15, <1>16 DEF Marks

\* The receivers.
LEMMA ReceiveKeepsMarks ==
    ASSUME TypeOK, NEW S, Marks(S), NEW c \in Channels, Receive(c)
    PROVE  Marks(S)'
<1>1. UNCHANGED <<strategy, memory, writer, calls, added>>
  <2>1. CASE ReadNext(c)
    BY <2>1 DEF ReadNext, ReadUpTo, sender, pool
  <2>2. CASE IntoVec(c)
    BY <2>2 DEF IntoVec, ReadUpTo, sender, pool
  <2>3. CASE DropReader(c)
    BY <2>3 DEF DropReader
  <2>4. CASE ReceiveRaw(c)
    BY <2>4 DEF ReceiveRaw, sender, pool
  <2> QED
    BY <2>1, <2>2, <2>3, <2>4 DEF Receive
<1>2. Own' = Own
  BY <1>1, SameOwn
<1>3. MailEnds(added, memory, mailbox) /\ mailbox \in [Channels -> Seq(Message)]
  BY DEF Marks, TypeOK
<1>4. PICK q \in Seq(Message) : q = mailbox[c]
  BY <1>3
<1>5. PICK mb : mb = mailbox'
  OBVIOUS
<1>6. ASSUME NEW to, q # <<>>, ReadUpTo(c, to) PROVE MailEnds(added, memory, mb)
  <2>1. mb = [mailbox EXCEPT ![c][1].current = to]
    BY <1>5, <1>6 DEF ReadUpTo
  <2>2. mb[c] = [q EXCEPT ![1].current = to] /\ \A d \in Channels : d # c => mb[d] = mailbox[d]
    BY <1>3, <1>4, <2>1
  <2>3. /\ DOMAIN mb[c] = DOMAIN q
        /\ \A i \in DOMAIN q : /\ mb[c][i].buffer = q[i].buffer /\ mb[c][i].len = q[i].len
                               /\ mb[c][i].events = q[i].events
    <3>1. DOMAIN q = 1..Len(q) /\ \A i \in DOMAIN q : q[i] \in Message
      OBVIOUS
    <3> QED
      BY <2>2, <3>1 DEF Message
  <2>4. \A i \in DOMAIN q :
          /\ q[i].buffer = NoBuffer => EndsIn(added, q[i].events, Len(q[i].events))
          /\ q[i].buffer # NoBuffer => EndsIn(added, memory[q[i].buffer], q[i].len)
    BY <1>3, <1>4 DEF MailEnds
  <2>5. \A i \in DOMAIN mb[c] :
          /\ mb[c][i].buffer = NoBuffer => EndsIn(added, mb[c][i].events, Len(mb[c][i].events))
          /\ mb[c][i].buffer # NoBuffer => EndsIn(added, memory[mb[c][i].buffer], mb[c][i].len)
    BY <2>3, <2>4
  <2> QED
    BY <1>3, <2>2, <2>5 DEF MailEnds
<1>7. ASSUME q # <<>>, mailbox' = [mailbox EXCEPT ![c] = Tail(@)] PROVE MailEnds(added, memory, mb)
  <2>1. mb[c] = Tail(q) /\ \A d \in Channels : d # c => mb[d] = mailbox[d]
    BY <1>3, <1>4, <1>5, <1>7
  <2>2. \A i \in DOMAIN Tail(q) : i + 1 \in DOMAIN q /\ Tail(q)[i] = q[i + 1]
    BY <1>7
  <2>3. \A i \in DOMAIN q :
          /\ q[i].buffer = NoBuffer => EndsIn(added, q[i].events, Len(q[i].events))
          /\ q[i].buffer # NoBuffer => EndsIn(added, memory[q[i].buffer], q[i].len)
    BY <1>3, <1>4 DEF MailEnds
  <2>4. \A i \in DOMAIN mb[c] :
          /\ mb[c][i].buffer = NoBuffer => EndsIn(added, mb[c][i].events, Len(mb[c][i].events))
          /\ mb[c][i].buffer # NoBuffer => EndsIn(added, memory[mb[c][i].buffer], mb[c][i].len)
    BY <2>1, <2>2, <2>3
  <2> QED
    BY <1>3, <2>1, <2>4 DEF MailEnds
<1>8. MailEnds(added, memory, mb)
  BY <1>4, <1>6, <1>7 DEF Receive, ReadNext, IntoVec, DropReader, ReceiveRaw, HasMessage
<1> QED
  BY <1>1, <1>2, <1>5, <1>8 DEF Marks

\* All of it together.
MarkInv == TypeOK /\ \E S : Follows(S) /\ Holds(S, free, writer, mailbox) /\ Marks(S)

\* Nothing is buffered at the start.
LEMMA InitMarks == Init => MarkInv
<1> SUFFICES ASSUME Init PROVE MarkInv
  OBVIOUS
<1>1. PICK S : Follows(S) /\ Holds(S, free, writer, mailbox)
  BY InitHold DEF HoldInv
<1>2. calls = <<>> /\ \A c \in Channels : mailbox[c] = <<>>
  BY DEF Init
<1>3. \A w \in Writers : writer[w].len = 0
  BY DEF Init
<1>4. S \in SUBSET Writers /\ Own \in SUBSET Writers
  BY <1>1 DEF Follows, Own
<1>5. DOMAIN calls = {} /\ \A c \in Channels : DOMAIN mailbox[c] = {}
  BY <1>2
<1>6. MailEnds(added, memory, mailbox)
  BY <1>5 DEF MailEnds
<1>7. WritersEnd(added, memory, writer, S)
  BY <1>3, <1>4 DEF WritersEnd, EndsIn
<1>8. ClosedEnd(added, memory, writer, S, strategy, calls)
  BY <1>3, <1>4 DEF ClosedEnd, Closed
<1>9. PushesEnd(added, strategy, calls, Own)
  BY <1>5 DEF PushesEnd
<1>10. Quiet(writer, Own, calls)
  BY <1>3, <1>4, <1>5 DEF Quiet
<1> QED
  BY <1>1, <1>6, <1>7, <1>8, <1>9, <1>10, TypeInit DEF MarkInv, Marks

\* Every step keeps it.
LEMMA MarksStep == MarkInv /\ [Next]_vars => MarkInv'
<1> SUFFICES ASSUME MarkInv, [Next]_vars PROVE MarkInv'
  OBVIOUS
<1>0. TypeOK /\ TypeOK'
  BY TypeStep DEF MarkInv
<1>1. PICK S : Follows(S) /\ Holds(S, free, writer, mailbox) /\ Marks(S)
  BY DEF MarkInv
<1>2. CASE UNCHANGED vars
  <2>1. Own' = Own /\ Writers' = Writers
    BY <1>2, SameOwn DEF vars
  <2>2. Follows(S)'
    BY <1>1, <1>2, <2>1 DEF vars, Follows
  <2>3. Holds(S, free', writer', mailbox')
    BY <1>1, <1>2 DEF vars
  <2>4. Marks(S)'
    BY <1>1, <1>2, <2>1 DEF vars, Marks
  <2> QED
    BY <1>0, <2>2, <2>3, <2>4 DEF MarkInv
<1>3. ASSUME NEW call \in Call, Add(call) PROVE MarkInv'
  BY <1>0, <1>1, <1>3, SendersBook, AddKeepsMarks DEF MarkInv
<1>4. PICK call : call \in Call
  <2>1. [kind |-> "flush", key |-> 0] \in Call
    BY DEF Call
  <2> QED
    BY <2>1
<1>5. CASE PushIsFull \/ PushEvent \/ PushToNext \/ Flush
  <2>1. Follows(S)' /\ Holds(S, free', writer', mailbox')
    BY <1>0, <1>1, <1>4, <1>5, SendersBook
  <2>2. Marks(S)'
    BY <1>0, <1>1, <1>5, FullKeepsMarks, PushKeepsMarks, LoopKeepsMarks, FlushKeepsMarks
  <2> QED
    BY <1>0, <2>1, <2>2 DEF MarkInv
<1>6. CASE SendLocal \/ SendRemote \/ SendFails \/ TryGet \/ CopyFromWriter
  <2>1. PICK C : BecomesFrom(S, C)
    BY <1>0, <1>1, <1>6, SendersBuffers
  <2>2. Follows(C)' /\ Holds(C, free', writer', mailbox')
    BY <2>1 DEF BecomesFrom
  <2>3. ASSUME SendLocal \/ SendRemote \/ SendFails \/ CopyFromWriter
        PROVE  Changes(Own, S, Head(calls), C)
    <3>1. calls \in Seq(Steps) /\ calls # <<>> /\ calls' = Tail(calls)
      BY <1>0, <2>3 DEF TypeOK, SendLocal, SendRemote, SendFails, CopyFromWriter, Running
    <3>2. calls' # calls
      BY <3>1
    <3> QED
      BY <2>1, <3>2 DEF BecomesFrom
  <2>4. Marks(C)'
    <3>1. CASE SendLocal \/ SendRemote \/ SendFails
      BY <1>0, <1>1, <2>3, <3>1, SendKeepsMarks
    <3>2. CASE TryGet
      BY <1>0, <1>1, <2>1, <2>2, <3>2, GetKeepsMarks DEF BecomesFrom
    <3>3. CASE CopyFromWriter
      BY <1>0, <1>1, <2>3, <3>3, CopyKeepsMarks
    <3> QED
      BY <1>6, <3>1, <3>2, <3>3
  <2> QED
    BY <1>0, <2>2, <2>4 DEF MarkInv
<1>7. ASSUME NEW c \in Channels, Receive(c) PROVE MarkInv'
  BY <1>0, <1>1, <1>7, ReceiversBuffers, ReceiveKeepsMarks DEF MarkInv
<1> QED
  BY <1>2, <1>3, <1>5, <1>6, <1>7 DEF Next, SenderStep

\* In the contents of a message a marker is last.
LEMMA MarksAreLast == MarkInv => MarkersEndMessages
<1> SUFFICES ASSUME MarkInv, NEW c \in Channels, NEW i \in DOMAIN mailbox[c],
                    NEW k \in DOMAIN Contents(mailbox[c][i]),
                    added[Contents(mailbox[c][i])[k]].kind = "marker"
             PROVE  k = Len(Contents(mailbox[c][i]))
  BY DEF MarkersEndMessages
<1>1. PICK m : m = mailbox[c][i]
  OBVIOUS
<1>2. m \in Message /\ (m.buffer # NoBuffer => m.buffer \in Buffers)
  BY <1>1, MessageBuffers DEF MarkInv, TypeOK
<1>3. /\ m.buffer = NoBuffer => EndsIn(added, m.events, Len(m.events))
      /\ m.buffer # NoBuffer => EndsIn(added, memory[m.buffer], m.len)
  BY <1>1 DEF MarkInv, Marks, MailEnds
<1>4. CASE m.buffer = NoBuffer
  <2>1. PICK ev \in Seq(Event) : ev = m.events
    BY <1>2 DEF Message
  <2>2. k \in DOMAIN ev /\ added[ev[k]].kind = "marker" /\ Contents(m) = ev
    BY <1>1, <1>4, <2>1 DEF Contents
  <2>3. k \in 1..Len(ev)
    BY <2>1, <2>2
  <2> QED
    BY <1>1, <1>3, <1>4, <2>1, <2>2, <2>3 DEF EndsIn
<1>5. CASE m.buffer # NoBuffer
  <2>0. PICK f : f = memory[m.buffer]
    OBVIOUS
  <2>1. PICK from \in Nat, to \in Nat : from = m.current + 1 /\ to = m.len
    BY <1>2, PoolAssumption DEF Message
  <2>2. from > 0 /\ to \in 0..BufferSize
    BY <1>2, <2>0, <2>1, PoolAssumption DEF Message
  <2>3. \A j \in from..to : f[j] \in Event
    BY <1>2, <1>5, <2>0, <2>1, <2>2, PoolAssumption DEF MarkInv, TypeOK
  <2>4. PICK s : s = SubSeq(f, from, to)
    OBVIOUS
  <2>5. Contents(m) = s
    BY <1>5, <2>0, <2>1, <2>4 DEF Contents
  <2>6. /\ Len(s) = IF from <= to THEN to - from + 1 ELSE 0
        /\ \A j \in 1..(to - from + 1) : s[j] = f[from + j - 1]
        /\ s \in Seq(Event)
    BY <2>3, <2>4, SubSeqProperties
  <2>7. k \in 1..Len(s)
    BY <1>1, <2>5, <2>6
  <2>8. from <= to /\ k \in 1..(to - from + 1) /\ Len(s) = to - from + 1
    BY <2>6, <2>7
  <2>9. PICK j \in Nat : j = from + k - 1
    BY <2>2, <2>8
  <2>10. j \in 1..to /\ s[k] = f[j]
    BY <2>2, <2>6, <2>8, <2>9
  <2>11. j = to
    BY <1>1, <1>3, <1>5, <2>0, <2>1, <2>5, <2>10 DEF EndsIn
  <2> QED
    BY <1>1, <2>5, <2>8, <2>9, <2>11
<1> QED
  BY <1>4, <1>5

\* Behind a watermark, an epoch or a Death there is nothing in its message, with
\* any strategy, buffer size and number of channels, and whether the buffer was
\* full, copied for a Broadcast, or sent over the network: the receiver that
\* blocks a channel at an epoch blocks all that follows it.
THEOREM MarkersAreLast == Spec => []MarkersEndMessages
  BY InitMarks, MarksStep, MarksAreLast, PTL DEF Spec

-----------------------------------------------------------------------------
(* Every event once and in order.  The events of a channel are on a line:    *)
(* `n' of them, l[1] < ... < l[n].  The receiver has taken out the first     *)
(* ones, each message of the mailbox has the next ones from s[i] on, and the *)
(* last `len' are in the buffer `buf' of the writer.                         *)

\* How many events a message came with, and which.
Size(m) == IF m.buffer = NoBuffer THEN Len(m.events) ELSE m.len
Item(mem, m, k) == IF m.buffer = NoBuffer THEN m.events[k] ELSE mem[m.buffer][k]

\* The line is the events of `want' in their order,
IsLine(n, l, want) ==
    /\ n \in Nat /\ \A k \in 1..n : l[k] \in Nat
    /\ \A j, k \in 1..n : j < k => l[j] < l[k]
    /\ \A k \in 1..n : l[k] \in want
    /\ \A x \in want : \E k \in 1..n : x = l[k]

\* the messages q cut it where s says,
Cuts(l, s, q, mem) ==
    /\ \A i \in 1..(Len(q) + 1) : s[i] \in Nat
    /\ \A i, j \in 1..(Len(q) + 1) : i <= j => s[i] <= s[j]
    /\ \A i \in 1..Len(q) : s[i + 1] = s[i] + Size(q[i])
    /\ \A i \in 1..Len(q) : \A k \in 1..Size(q[i]) : Item(mem, q[i], k) = l[s[i] + k]

\* the receiver is in the first of them, and a message over the network is
\* read at once,
IsAt(i, m) ==
    /\ i > 1 => m.current = 0
    /\ m.current <= Size(m)
    /\ m.buffer = NoBuffer => m.current = 0
ReadsFirst(l, s, rc, q) ==
    /\ \A k \in 1..Len(rc) : rc[k] = l[k]
    /\ Len(rc) = s[1] + (IF q = <<>> THEN 0 ELSE q[1].current)
    /\ \A i \in 1..Len(q) : IsAt(i, q[i])

\* and the writer has the rest.
HasTail(n, l, from, mem, buf, len) ==
    n = from + len /\ \A k \in 1..len : mem[buf][k] = l[from + k]

LineOf(n, l, s, rc, q, mem, buf, len, want) ==
    /\ IsLine(n, l, want)
    /\ Cuts(l, s, q, mem)
    /\ ReadsFirst(l, s, rc, q)
    /\ HasTail(n, l, s[Len(q) + 1], mem, buf, len)

OnLine(rc, q, mem, buf, len, want) == \E n, l, s : LineOf(n, l, s, rc, q, mem, buf, len, want)

\* The length of a line is a number.
LEMMA LineWitness ==
    ASSUME NEW rc, NEW q, NEW mem, NEW buf, NEW len, NEW want, OnLine(rc, q, mem, buf, len, want)
    PROVE  \E n \in Nat : \E l, s : LineOf(n, l, s, rc, q, mem, buf, len, want)
  BY DEF OnLine, LineOf, IsLine

\* Memory mem2 has the same messages as mem, the same tail, and one event more.
SameMail(q, mem, mem2) ==
    \A i \in DOMAIN q : q[i].buffer # NoBuffer => mem2[q[i].buffer] = mem[q[i].buffer]
SameTail(mem, buf, mem2, buf2, len) == \A k \in 1..len : mem2[buf2][k] = mem[buf][k]
HasAt(mem, buf, at, e) == mem[buf][at] = e
Newest(e, want) == \A x \in want : x \in Nat /\ x < e

\* A message and its parts.
LEMMA MessageParts ==
    ASSUME NEW m \in Message
    PROVE  /\ Size(m) \in Nat /\ m.current \in Nat /\ m.len \in Nat /\ m.len <= BufferSize
           /\ m.events \in Seq(Event) /\ (m.buffer # NoBuffer => m.buffer \in Buffers)
  BY PoolAssumption DEF Message, Size

\* The messages, and what the receiver has, are before the tail.
LEMMA CutsWithin ==
    ASSUME NEW q \in Seq(Message), NEW l, NEW s, NEW mem, Cuts(l, s, q, mem), NEW i \in 1..Len(q)
    PROVE  /\ s[i] \in Nat /\ s[i + 1] \in Nat /\ s[Len(q) + 1] \in Nat /\ Size(q[i]) \in Nat
           /\ s[i + 1] = s[i] + Size(q[i]) /\ s[i + 1] <= s[Len(q) + 1]
<1>1. /\ Len(q) \in Nat /\ i + 1 \in 1..(Len(q) + 1) /\ Len(q) + 1 \in 1..(Len(q) + 1)
      /\ i + 1 <= Len(q) + 1 /\ i \in 1..(Len(q) + 1)
  OBVIOUS
<1>2. q[i] \in Message
  OBVIOUS
<1> QED
  BY <1>1, <1>2, MessageParts DEF Cuts

\* The receiver is not past the last of the messages.
LEMMA ReadsWithin ==
    ASSUME NEW rc \in Seq(Event), NEW q \in Seq(Message), NEW l, NEW s, NEW mem, Cuts(l, s, q, mem),
           ReadsFirst(l, s, rc, q)
    PROVE  s[Len(q) + 1] \in Nat /\ Len(rc) \in Nat /\ Len(rc) <= s[Len(q) + 1]
<1>1. CASE q = <<>>
  BY <1>1 DEF Cuts, ReadsFirst
<1>2. CASE q # <<>>
  <2>1. 1 \in 1..Len(q) /\ q[1] \in Message
    BY <1>2
  <2>2. PICK a \in Nat, b \in Nat, z \in Nat, m \in Nat, x \in Nat :
           a = s[1] /\ b = s[1 + 1] /\ z = s[Len(q) + 1] /\ m = Size(q[1]) /\ x = q[1].current
    BY <2>1, CutsWithin, MessageParts
  <2>3. b = a + m /\ b <= z
    BY <2>1, <2>2, CutsWithin
  <2>4. Len(rc) = a + x /\ x <= m
    BY <1>2, <2>1, <2>2 DEF ReadsFirst, IsAt
  <2> QED
    BY <2>2, <2>3, <2>4
<1> QED
  BY <1>1, <1>2

\* What is written elsewhere does not matter, and the tail may be copied.
LEMMA LineFrame ==
    ASSUME NEW rc \in Seq(Event), NEW q \in Seq(Message), NEW mem, NEW buf, NEW len \in Nat, NEW want,
           OnLine(rc, q, mem, buf, len, want), NEW mem2, NEW buf2,
           SameMail(q, mem, mem2), SameTail(mem, buf, mem2, buf2, len)
    PROVE  OnLine(rc, q, mem2, buf2, len, want)
<1>0. PICK n \in Nat : \E l, s : LineOf(n, l, s, rc, q, mem, buf, len, want)
  BY LineWitness
<1>1. PICK l, s : LineOf(n, l, s, rc, q, mem, buf, len, want)
  BY <1>0
<1>2. DOMAIN q = 1..Len(q)
  OBVIOUS
<1>3. Cuts(l, s, q, mem2)
  <2>1. \A i \in 1..Len(q) : \A k \in 1..Size(q[i]) : Item(mem2, q[i], k) = Item(mem, q[i], k)
    BY <1>2 DEF Item, SameMail
  <2>2. Cuts(l, s, q, mem)
    BY <1>1 DEF LineOf
  <2> QED
    BY <2>1, <2>2 DEF Cuts
<1>4. HasTail(n, l, s[Len(q) + 1], mem2, buf2, len)
  BY <1>1 DEF LineOf, HasTail, SameTail
<1> QED
  BY <1>1, <1>3, <1>4 DEF LineOf, OnLine

\* A push puts the newest event at the end of the line.
LEMMA LinePush ==
    ASSUME NEW rc \in Seq(Event), NEW q \in Seq(Message), NEW mem, NEW buf, NEW len \in Nat,
           NEW want,
           OnLine(rc, q, mem, buf, len, want), NEW e \in Nat, NEW mem2,
           SameMail(q, mem, mem2), SameTail(mem, buf, mem2, buf, len), HasAt(mem2, buf, len + 1, e),
           Newest(e, want)
    PROVE  OnLine(rc, q, mem2, buf, len + 1, want \cup {e})
<1>0. PICK n \in Nat : \E l, s : LineOf(n, l, s, rc, q, mem, buf, len, want)
  BY LineWitness
<1>1. PICK l, s : LineOf(n, l, s, rc, q, mem, buf, len, want)
  BY <1>0
<1>2. DOMAIN q = 1..Len(q) /\ Len(q) \in Nat /\ Len(rc) \in Nat
  OBVIOUS
<1>3. n = s[Len(q) + 1] + len /\ s[Len(q) + 1] \in Nat
  BY <1>1, <1>2 DEF LineOf, HasTail, Cuts
<1> DEFINE l2 == [k \in 1..(n + 1) |-> IF k = n + 1 THEN e ELSE l[k]]
<1>5. l2[n + 1] = e /\ \A k \in 1..n : l2[k] = l[k]
  OBVIOUS
<1> HIDE DEF l2
<1>4. \A k \in 1..n : l[k] \in Nat
  BY <1>1 DEF LineOf, IsLine
<1>6. IsLine(n + 1, l2, want \cup {e})
  <2>1. \A j, k \in 1..n : j < k => l[j] < l[k]
    BY <1>1 DEF LineOf, IsLine
  <2>2. \A k \in 1..n : l[k] \in want /\ l[k] < e
    BY <1>1 DEF LineOf, IsLine, Newest
  <2>3. \A x \in want : \E k \in 1..n : x = l[k]
    BY <1>1 DEF LineOf, IsLine
  <2>4. \A j, k \in 1..(n + 1) : j < k => l2[j] < l2[k]
    <3> SUFFICES ASSUME NEW j \in 1..(n + 1), NEW k \in 1..(n + 1), j < k PROVE l2[j] < l2[k]
      OBVIOUS
    <3>1. j \in 1..n
      OBVIOUS
    <3>2. CASE k = n + 1
      BY <1>5, <2>2, <3>1, <3>2
    <3>3. CASE k # n + 1
      <4>1. k \in 1..n
        BY <3>3
      <4> QED
        BY <1>5, <2>1, <3>1, <4>1
    <3> QED
      BY <3>2, <3>3
  <2>5. \A k \in 1..(n + 1) : l2[k] \in want \cup {e}
    <3>1. \A k \in 1..(n + 1) : k = n + 1 \/ k \in 1..n
      OBVIOUS
    <3> QED
      BY <1>5, <2>2, <3>1
  <2>6. \A x \in want \cup {e} : \E k \in 1..(n + 1) : x = l2[k]
    <3>1. \A k \in 1..n : k \in 1..(n + 1)
      BY <1>3
    <3>2. n + 1 \in 1..(n + 1)
      BY <1>3
    <3> QED
      BY <1>5, <2>3, <3>1, <3>2
  <2>7. \A k \in 1..(n + 1) : l2[k] \in Nat
    BY <1>4, <1>5
  <2> QED
    BY <2>4, <2>5, <2>6, <2>7 DEF IsLine
<1>8. Cuts(l2, s, q, mem2)
  <2> SUFFICES ASSUME NEW i \in 1..Len(q), NEW k \in 1..Size(q[i])
               PROVE  Item(mem2, q[i], k) = l2[s[i] + k]
    BY <1>1 DEF LineOf, Cuts
  <2>1. Item(mem2, q[i], k) = Item(mem, q[i], k)
    BY <1>2 DEF Item, SameMail
  <2>2. s[i] + k \in 1..n
    <3>1. PICK a \in Nat, b \in Nat, z \in Nat, m \in Nat :
             a = s[i] /\ b = s[i + 1] /\ z = s[Len(q) + 1] /\ m = Size(q[i])
      BY <1>1, CutsWithin DEF LineOf
    <3>2. b = a + m /\ b <= z /\ n = z + len
      BY <1>1, <1>3, <3>1, CutsWithin DEF LineOf
    <3>4. k \in 1..m
      BY <3>1
    <3>3. a + k \in 1..n
      BY <3>2, <3>4
    <3> QED
      BY <3>1, <3>3
  <2> QED
    BY <1>1, <1>5, <2>1, <2>2 DEF LineOf, Cuts
<1>9. ReadsFirst(l2, s, rc, q)
  <2>1. Len(rc) <= n
    BY <1>1, <1>3, ReadsWithin DEF LineOf
  <2>2. \A k \in 1..Len(rc) : k \in 1..n
    BY <1>2, <2>1
  <2> QED
    BY <1>1, <1>5, <2>2 DEF LineOf, ReadsFirst
<1>10. HasTail(n + 1, l2, s[Len(q) + 1], mem2, buf, len + 1)
  <2> SUFFICES ASSUME NEW k \in 1..(len + 1) PROVE mem2[buf][k] = l2[s[Len(q) + 1] + k]
    BY <1>2, <1>3 DEF HasTail
  <2>0. PICK z \in Nat : z = s[Len(q) + 1]
    BY <1>2, <1>3
  <2>1. CASE k = len + 1
    <3>0. n = z + len
      BY <1>3, <2>0
    <3>1. z + k = n + 1
      <4>1. z + (len + 1) = (z + len) + 1
        OBVIOUS
      <4> QED
        BY <2>1, <3>0, <4>1
    <3>2. mem2[buf][k] = e
      BY <1>2, <2>1 DEF HasAt
    <3> QED
      BY <1>5, <2>0, <3>1, <3>2
  <2>2. CASE k # len + 1
    <3>1. k \in 1..len
      BY <2>2
    <3>2. z + k \in 1..n
      BY <1>3, <2>0, <3>1
    <3>3. mem2[buf][k] = mem[buf][k]
      BY <3>1 DEF SameTail
    <3>4. HasTail(n, l, z, mem, buf, len)
      BY <1>1, <2>0 DEF LineOf
    <3>5. mem[buf][k] = l[z + k]
      BY <3>1, <3>4 DEF HasTail
    <3> QED
      BY <1>5, <2>0, <3>2, <3>3, <3>5
  <2> QED
    BY <2>1, <2>2
<1> QED
  BY <1>6, <1>8, <1>9, <1>10 DEF LineOf, OnLine

\* Message m has the events of the tail.
IsTail(m, mem, buf, len) ==
    m.current = 0 /\ Size(m) = len /\ \A k \in 1..len : Item(mem, m, k) = mem[buf][k]

\* A send makes the tail a message.
LEMMA LineSend ==
    ASSUME NEW rc \in Seq(Event), NEW q \in Seq(Message), NEW mem, NEW buf, NEW len \in Nat, NEW want,
           OnLine(rc, q, mem, buf, len, want), NEW m \in Message, IsTail(m, mem, buf, len), NEW buf2
    PROVE  OnLine(rc, Append(q, m), mem, buf2, 0, want)
<1>0. PICK n \in Nat : \E l, s : LineOf(n, l, s, rc, q, mem, buf, len, want)
  BY LineWitness
<1>1. PICK l, s : LineOf(n, l, s, rc, q, mem, buf, len, want)
  BY <1>0
<1>2. PICK p \in Nat : p = Len(q)
  OBVIOUS
<1>3. PICK z \in Nat : z = s[p + 1]
  BY <1>1, <1>2, ReadsWithin DEF LineOf
<1>4. n = z + len
  BY <1>1, <1>2, <1>3 DEF LineOf, HasTail
<1>5. PICK r : r = Append(q, m)
  OBVIOUS
<1>6. /\ r \in Seq(Message) /\ Len(r) = p + 1 /\ r[p + 1] = m /\ r # <<>>
      /\ \A i \in 1..p : r[i] = q[i]
  BY <1>2, <1>5
<1> DEFINE t == [i \in 1..(p + 2) |-> IF i = p + 2 THEN n ELSE s[i]]
<1>7. t[p + 2] = n /\ \A i \in 1..(p + 1) : t[i] = s[i]
  OBVIOUS
<1> HIDE DEF t
<1>8. /\ \A i \in 1..(p + 1) : s[i] \in Nat
      /\ \A i, j \in 1..(p + 1) : i <= j => s[i] <= s[j]
      /\ \A i \in 1..p : s[i + 1] = s[i] + Size(q[i])
      /\ \A i \in 1..p : \A k \in 1..Size(q[i]) : Item(mem, q[i], k) = l[s[i] + k]
  BY <1>1, <1>2 DEF LineOf, Cuts
<1>9. \A i \in 1..(p + 2) : t[i] \in Nat
  <2>1. \A i \in 1..(p + 2) : i = p + 2 \/ i \in 1..(p + 1)
    OBVIOUS
  <2> QED
    BY <1>7, <1>8, <2>1
<1>10. \A i, j \in 1..(p + 2) : i <= j => t[i] <= t[j]
  <2> SUFFICES ASSUME NEW i \in 1..(p + 2), NEW j \in 1..(p + 2), i <= j PROVE t[i] <= t[j]
    OBVIOUS
  <2>1. CASE j # p + 2
    <3>1. j \in 1..(p + 1) /\ i \in 1..(p + 1)
      BY <2>1
    <3> QED
      BY <1>7, <1>8, <3>1
  <2>2. CASE j = p + 2 /\ i = p + 2
    BY <1>9, <2>2
  <2>3. CASE j = p + 2 /\ i # p + 2
    <3>1. i \in 1..(p + 1) /\ p + 1 \in 1..(p + 1) /\ i <= p + 1
      BY <2>3
    <3>2. PICK a \in Nat : a = s[i]
      BY <1>8, <3>1
    <3>3. a <= z
      BY <1>3, <1>8, <3>1, <3>2
    <3>4. a <= n
      BY <1>4, <3>3
    <3> QED
      BY <1>7, <2>3, <3>1, <3>2, <3>4
  <2> QED
    BY <2>1, <2>2, <2>3
<1>11. \A i \in 1..(p + 1) : i \in 1..p \/ i = p + 1
  OBVIOUS
<1>12. \A i \in 1..(p + 1) : t[i + 1] = t[i] + Size(r[i])
  <2> SUFFICES ASSUME NEW i \in 1..(p + 1) PROVE t[i + 1] = t[i] + Size(r[i])
    OBVIOUS
  <2>1. CASE i \in 1..p
    <3>1. i + 1 \in 1..(p + 1)
      BY <2>1
    <3> QED
      BY <1>6, <1>7, <1>8, <2>1, <3>1
  <2>2. CASE i = p + 1
    <3>1. p + 1 \in 1..(p + 1) /\ (p + 1) + 1 = p + 2
      OBVIOUS
    <3>2. t[p + 1] = z /\ t[(p + 1) + 1] = n /\ Size(r[p + 1]) = len
      BY <1>3, <1>6, <1>7, <3>1 DEF IsTail
    <3> QED
      BY <1>4, <2>2, <3>2
  <2> QED
    BY <1>11, <2>1, <2>2
<1>13. \A i \in 1..(p + 1) : \A k \in 1..Size(r[i]) : Item(mem, r[i], k) = l[t[i] + k]
  <2> SUFFICES ASSUME NEW i \in 1..(p + 1), NEW k \in 1..Size(r[i])
               PROVE  Item(mem, r[i], k) = l[t[i] + k]
    OBVIOUS
  <2>1. CASE i \in 1..p
    BY <1>6, <1>7, <1>8, <2>1
  <2>2. CASE i = p + 1
    <3>1. t[i] = z /\ r[i] = m
      BY <1>3, <1>6, <1>7, <2>2
    <3>2. k \in 1..len
      BY <3>1 DEF IsTail
    <3>3. Item(mem, m, k) = mem[buf][k]
      BY <3>2 DEF IsTail
    <3>4. mem[buf][k] = l[z + k]
      BY <1>1, <1>2, <1>3, <3>2 DEF LineOf, HasTail
    <3> QED
      BY <3>1, <3>3, <3>4
  <2> QED
    BY <1>11, <2>1, <2>2
<1>14. Cuts(l, t, r, mem)
  <2>1. Len(r) + 1 = p + 2
    BY <1>6
  <2> QED
    BY <1>6, <1>9, <1>10, <1>12, <1>13, <2>1 DEF Cuts
<1>15. ReadsFirst(l, t, rc, r)
  <2>1. /\ \A k \in 1..Len(rc) : rc[k] = l[k]
        /\ Len(rc) = s[1] + (IF q = <<>> THEN 0 ELSE q[1].current)
        /\ \A i \in 1..p : IsAt(i, q[i])
    BY <1>1, <1>2 DEF LineOf, ReadsFirst
  <2>2. t[1] = s[1]
    BY <1>7
  <2>3. r[1].current = IF q = <<>> THEN 0 ELSE q[1].current
    <3>1. CASE q = <<>>
      <4>1. p + 1 = 1
        BY <1>2, <3>1
      <4> QED
        BY <1>6, <3>1, <4>1 DEF IsTail
    <3>2. CASE q # <<>>
      <4>1. 1 \in 1..p
        BY <1>2, <3>2
      <4> QED
        BY <1>6, <3>2, <4>1
    <3> QED
      BY <3>1, <3>2
  <2>4. \A i \in 1..(p + 1) : IsAt(i, r[i])
    <3>1. m.current = 0 /\ m.current <= Size(m)
      BY DEF IsTail
    <3> SUFFICES ASSUME NEW i \in 1..(p + 1)
                 PROVE  IsAt(i, r[i])
      OBVIOUS
    <3>3. CASE i = p + 1
      <4>1. r[i] = m
        BY <1>6, <3>3
      <4> QED
        BY <3>1, <4>1 DEF IsAt
    <3>4. CASE i \in 1..p
      <4>1. r[i] = q[i]
        BY <1>6, <3>4
      <4>2. IsAt(i, q[i])
        BY <1>1, <1>2, <3>4 DEF LineOf, ReadsFirst
      <4> QED
        BY <4>1, <4>2
    <3> QED
      BY <1>11, <3>3, <3>4
  <2> QED
    BY <1>6, <2>1, <2>2, <2>3, <2>4 DEF ReadsFirst
<1>16. HasTail(n, l, t[Len(r) + 1], mem, buf2, 0)
  <2>1. Len(r) + 1 = p + 2
    BY <1>6
  <2> QED
    BY <1>7, <2>1 DEF HasTail
<1> QED
  BY <1>1, <1>5, <1>14, <1>15, <1>16 DEF LineOf, OnLine

\* The events of the tail.
TailIs(X, mem, buf, len) == X = {mem[buf][k] : k \in 1..len}

\* A message that is lost takes the events of the tail with it.
LEMMA LineLose ==
    ASSUME NEW rc \in Seq(Event), NEW q \in Seq(Message), NEW mem, NEW buf, NEW len \in Nat, NEW want,
           OnLine(rc, q, mem, buf, len, want), NEW X, TailIs(X, mem, buf, len), NEW buf2
    PROVE  OnLine(rc, q, mem, buf2, 0, want \ X) /\ X \subseteq want
<1>01. X = {mem[buf][k] : k \in 1..len}
  BY DEF TailIs
<1>0. PICK n \in Nat : \E l, s : LineOf(n, l, s, rc, q, mem, buf, len, want)
  BY LineWitness
<1>1. PICK l, s : LineOf(n, l, s, rc, q, mem, buf, len, want)
  BY <1>0
<1>3. PICK z \in Nat : z = s[Len(q) + 1]
  BY <1>1, ReadsWithin DEF LineOf
<1>4. n = z + len /\ \A k \in 1..len : mem[buf][k] = l[z + k]
  BY <1>1, <1>3 DEF LineOf, HasTail
<1>5. \A k \in 1..len : z + k \in 1..n /\ z + k > z
  BY <1>4
<1>6. /\ \A k \in 1..n : l[k] \in Nat
      /\ \A j, k \in 1..n : j < k => l[j] < l[k]
      /\ \A k \in 1..n : l[k] \in want
      /\ \A x \in want : \E k \in 1..n : x = l[k]
  BY <1>1 DEF LineOf, IsLine
<1>7. X \subseteq want
  BY <1>01, <1>4, <1>5, <1>6
<1>8. \A k \in 1..z : k \in 1..n
  BY <1>4
<1>9. \A k \in 1..z : l[k] \notin X
  <2> SUFFICES ASSUME NEW k \in 1..z, NEW i \in 1..len, l[k] = mem[buf][i] PROVE FALSE
    BY <1>01
  <2>1. PICK j \in 1..n : j = z + i /\ k < j
    BY <1>4, <1>5
  <2>2. l[k] < l[j] /\ l[j] = l[k] /\ l[k] \in Nat
    BY <1>4, <1>6, <1>8, <2>1
  <2> QED
    BY <2>2
<1>10. \A x \in want \ X : \E k \in 1..z : x = l[k]
  <2> SUFFICES ASSUME NEW x \in want \ X PROVE \E k \in 1..z : x = l[k]
    OBVIOUS
  <2>1. PICK k \in 1..n : x = l[k]
    BY <1>6
  <2>2. CASE k > z
    <3>1. PICK i \in 1..len : k = z + i
      <4>1. k - z \in 1..len /\ k = z + (k - z)
        BY <1>4, <2>2
      <4> QED
        BY <4>1
    <3> QED
      BY <1>01, <1>4, <2>1, <3>1
  <2> QED
    BY <2>1, <2>2
<1>11. IsLine(z, l, want \ X)
  BY <1>6, <1>8, <1>9, <1>10 DEF IsLine
<1>12. HasTail(z, l, s[Len(q) + 1], mem, buf2, 0)
  BY <1>3 DEF HasTail
<1> QED
  BY <1>1, <1>7, <1>11, <1>12 DEF LineOf, OnLine

\* Two sequences after each other.
LEMMA Joined ==
    ASSUME NEW S, NEW a \in Seq(S), NEW b \in Seq(S)
    PROVE  /\ a \o b \in Seq(S) /\ Len(a \o b) = Len(a) + Len(b)
           /\ \A k \in 1..Len(a) : (a \o b)[k] = a[k]
           /\ \A k \in 1..Len(b) : (a \o b)[Len(a) + k] = b[k]
  BY ConcatProperties

\* The receiver reads on in the first message.
LEMMA LineRead ==
    ASSUME NEW rc \in Seq(Event), NEW q \in Seq(Message), q # <<>>, NEW mem, NEW buf, NEW len \in Nat,
           NEW want, OnLine(rc, q, mem, buf, len, want), q[1].buffer # NoBuffer,
           mem \in [Buffers -> [1..BufferSize -> Event]],
           NEW to \in Nat, q[1].current <= to, to <= q[1].len
    PROVE  OnLine(rc \o SubSeq(mem[q[1].buffer], q[1].current + 1, to),
                  [q EXCEPT ![1].current = to], mem, buf, len, want)
<1>0. PICK n \in Nat : \E l, s : LineOf(n, l, s, rc, q, mem, buf, len, want)
  BY LineWitness
<1>1. PICK l, s : LineOf(n, l, s, rc, q, mem, buf, len, want)
  BY <1>0
<1>2. q[1] \in Message /\ 1 \in 1..Len(q)
  OBVIOUS
<1>20. PICK x \in Nat : x = q[1].current
  BY <1>2, MessageParts
<1>3. PICK f : x = q[1].current /\ f = mem[q[1].buffer]
  BY <1>20
<1>4. Size(q[1]) = q[1].len /\ q[1].len \in Nat /\ q[1].len <= BufferSize /\ q[1].buffer \in Buffers
  BY <1>2, MessageParts DEF Size
<1>5. \A k \in (x + 1)..to : f[k] \in Event
  <2>1. \A k \in 1..BufferSize : f[k] \in Event
    BY <1>3, <1>4
  <2>2. \A k \in (x + 1)..to : k \in 1..BufferSize
    BY <1>4, PoolAssumption
  <2> QED
    BY <2>1, <2>2
<1>6. PICK g : g = SubSeq(f, x + 1, to)
  OBVIOUS
<1>7. /\ g \in Seq(Event) /\ Len(g) = to - x
      /\ \A k \in 1..(to - x) : g[k] = f[x + k]
  <2>1. /\ g \in Seq(Event) /\ Len(g) = (IF x + 1 <= to THEN to - (x + 1) + 1 ELSE 0)
        /\ \A k \in 1..(to - (x + 1) + 1) : g[k] = f[(x + 1) + k - 1]
    <3>1. x + 1 \in Nat
      OBVIOUS
    <3> QED
      BY <1>5, <1>6, <3>1, SubSeqProperties
  <2>2. x <= to
    BY <1>3
  <2>3. to - (x + 1) + 1 = to - x /\ \A k \in 1..(to - x) : (x + 1) + k - 1 = x + k
    OBVIOUS
  <2>4. Len(g) = to - x
    BY <2>1, <2>2
  <2> QED
    BY <2>1, <2>3, <2>4
<1>8. PICK rc2 : rc2 = rc \o g
  OBVIOUS
<1>9. PICK y \in Nat : y = Len(rc)
  OBVIOUS
<1>10. /\ rc2 \in Seq(Event) /\ Len(rc2) = y + (to - x)
       /\ \A k \in 1..y : rc2[k] = rc[k]
       /\ \A k \in 1..(to - x) : rc2[y + k] = g[k]
  <2>1. /\ rc2 \in Seq(Event) /\ Len(rc2) = Len(rc) + Len(g)
        /\ \A k \in 1..Len(rc) : rc2[k] = rc[k]
        /\ \A k \in 1..Len(g) : rc2[Len(rc) + k] = g[k]
    <3>1. PICK h \in Seq(Event) : h = g
      BY <1>7
    <3> QED
      BY <1>8, <3>1, Joined
  <2> QED
    BY <1>7, <1>9, <2>1
<1>11. PICK a \in Nat : a = s[1] /\ y = a + x
  <2>1. s[1] \in Nat
    BY <1>1, <1>2, CutsWithin DEF LineOf
  <2>2. Len(rc) = s[1] + q[1].current
    BY <1>1 DEF LineOf, ReadsFirst
  <2> QED
    BY <1>3, <1>9, <2>1, <2>2
<1>12. \A k \in 1..(a + to) : rc2[k] = l[k]
  <2>0. y = a + x
    BY <1>11
  <2> SUFFICES ASSUME NEW k \in 1..(a + to) PROVE rc2[k] = l[k]
    OBVIOUS
  <2>1. CASE k <= y
    <3>1. k \in 1..y
      BY <2>1
    <3> QED
      BY <1>1, <1>9, <1>10, <3>1 DEF LineOf, ReadsFirst
  <2>2. CASE k > y
    <3>1. PICK i \in 1..(to - x) : k = y + i
      <4>1. k - y \in 1..(to - x) /\ k = y + (k - y)
        BY <2>0, <2>2
      <4> QED
        BY <4>1
    <3>2. rc2[k] = f[x + i]
      BY <1>7, <1>10, <3>1
    <3>3. x + i \in 1..Size(q[1])
      BY <1>4, <3>1
    <3>4. Item(mem, q[1], x + i) = l[s[1] + (x + i)]
      BY <1>1, <1>2, <3>3 DEF LineOf, Cuts
    <3>5. Item(mem, q[1], x + i) = f[x + i]
      BY <1>3 DEF Item
    <3>6. s[1] + (x + i) = k
      BY <1>11, <3>1
    <3> QED
      BY <3>2, <3>4, <3>5, <3>6
  <2> QED
    BY <2>1, <2>2
<1>13. PICK r : r = [q EXCEPT ![1].current = to]
  OBVIOUS
<1>14. /\ r \in Seq(Message) /\ r # <<>> /\ Len(r) = Len(q) /\ r[1].current = to
       /\ \A i \in 1..Len(q) : i # 1 => r[i] = q[i]
       /\ r[1].buffer = q[1].buffer /\ r[1].len = q[1].len /\ r[1].events = q[1].events
  <2>1. PICK m : m = [q[1] EXCEPT !.current = to]
    OBVIOUS
  <2>2. /\ m \in Message /\ m.current = to
        /\ m.buffer = q[1].buffer /\ m.len = q[1].len /\ m.events = q[1].events
    <3>1. to \in 0..BufferSize
      BY <1>4, PoolAssumption
    <3> QED
      BY <1>2, <2>1, <3>1 DEF Message
  <2>3. r = [q EXCEPT ![1] = m]
    BY <1>13, <2>1
  <2>4. /\ r \in Seq(Message) /\ Len(r) = Len(q)
        /\ \A j \in 1..Len(q) : r[j] = IF j = 1 THEN m ELSE q[j]
    BY <1>2, <2>2, <2>3, ExceptSeq
  <2>5. r[1] = m /\ r # <<>>
    BY <1>2, <2>4
  <2> QED
    BY <2>2, <2>4, <2>5
<1>15. \A i \in 1..Len(q) : Size(r[i]) = Size(q[i]) /\ \A k : Item(mem, r[i], k) = Item(mem, q[i], k)
  BY <1>14 DEF Size, Item
<1>16. Cuts(l, s, r, mem)
  BY <1>1, <1>14, <1>15 DEF LineOf, Cuts
<1>17. ReadsFirst(l, s, rc2, r)
  <2>1. Len(rc2) = a + to
    BY <1>10, <1>11
  <2>2. \A i \in 1..Len(q) : IsAt(i, q[i])
    BY <1>1 DEF LineOf, ReadsFirst
  <2>3. \A i \in 1..Len(r) : IsAt(i, r[i])
    BY <1>4, <1>14, <1>15, <2>2 DEF IsAt
  <2> QED
    BY <1>11, <1>12, <1>14, <2>1, <2>3 DEF ReadsFirst
<1>18. HasTail(n, l, s[Len(r) + 1], mem, buf, len)
  BY <1>1, <1>14 DEF LineOf
<1>19. OnLine(rc2, r, mem, buf, len, want)
  BY <1>1, <1>16, <1>17, <1>18 DEF LineOf, OnLine
<1> QED
  BY <1>3, <1>6, <1>8, <1>13, <1>19

\* The first message is gone once all of it was read.
LEMMA LineShift ==
    ASSUME NEW rc \in Seq(Event), NEW q \in Seq(Message), q # <<>>, NEW mem, NEW buf, NEW len \in Nat,
           NEW want, NEW n \in Nat, NEW l, NEW s, LineOf(n, l, s, rc, q, mem, buf, len, want),
           NEW rc2 \in Seq(Event), Len(rc2) = s[2], \A k \in 1..Len(rc2) : rc2[k] = l[k]
    PROVE  OnLine(rc2, Tail(q), mem, buf, len, want)
<1>1. PICK r : r = Tail(q)
  OBVIOUS
<1>2. PICK p \in Nat : Len(q) = p + 1
  <2>1. Len(q) - 1 \in Nat /\ Len(q) = (Len(q) - 1) + 1
    OBVIOUS
  <2> QED
    BY <2>1
<1>3. r \in Seq(Message) /\ Len(r) = p /\ \A i \in 1..p : r[i] = q[i + 1]
  BY <1>1, <1>2
<1> DEFINE t == [i \in 1..(p + 1) |-> s[i + 1]]
<1>4. \A i \in 1..(p + 1) : t[i] = s[i + 1]
  OBVIOUS
<1> HIDE DEF t
<1>5. /\ \A i \in 1..(p + 2) : s[i] \in Nat
      /\ \A i, j \in 1..(p + 2) : i <= j => s[i] <= s[j]
      /\ \A i \in 1..(p + 1) : s[i + 1] = s[i] + Size(q[i])
      /\ \A i \in 1..(p + 1) : \A k \in 1..Size(q[i]) : Item(mem, q[i], k) = l[s[i] + k]
  BY <1>2 DEF LineOf, Cuts
<1>6. /\ \A i \in 1..(p + 1) : i + 1 \in 1..(p + 2)
      /\ \A i \in 1..p : i + 1 \in 1..(p + 1) /\ i + 1 > 1 /\ i \in 1..(p + 1)
  OBVIOUS
<1>7. Cuts(l, t, r, mem)
  <2>1. \A i \in 1..(p + 1) : t[i] \in Nat
    BY <1>4, <1>5, <1>6
  <2>2. \A i, j \in 1..(p + 1) : i <= j => t[i] <= t[j]
    <3> SUFFICES ASSUME NEW i \in 1..(p + 1), NEW j \in 1..(p + 1), i <= j PROVE t[i] <= t[j]
      OBVIOUS
    <3>1. i + 1 <= j + 1
      OBVIOUS
    <3> QED
      BY <1>4, <1>5, <1>6, <3>1
  <2>3. ASSUME NEW i \in 1..p
        PROVE  t[i + 1] = t[i] + Size(r[i]) /\ \A k \in 1..Size(r[i]) : Item(mem, r[i], k) = l[t[i] + k]
    <3>1. PICK j \in 1..(p + 1) : j = i + 1
      BY <1>6
    <3>2. r[i] = q[j] /\ t[i] = s[j] /\ t[j] = s[j + 1] /\ i \in 1..(p + 1)
      BY <1>3, <1>4, <1>6, <3>1
    <3>3. s[j + 1] = s[j] + Size(q[j]) /\ \A k \in 1..Size(q[j]) : Item(mem, q[j], k) = l[s[j] + k]
      BY <1>5
    <3> QED
      BY <3>1, <3>2, <3>3
  <2> QED
    BY <1>3, <2>1, <2>2, <2>3 DEF Cuts
<1>8. ReadsFirst(l, t, rc2, r)
  <2>1. t[1] = s[2]
    BY <1>4
  <2>2. \A i \in 1..(p + 1) : IsAt(i, q[i])
    BY <1>2 DEF LineOf, ReadsFirst
  <2>3. \A i \in 1..p : /\ r[i].current = 0 /\ r[i].current <= Size(r[i])
    BY <1>3, <1>6, <2>2 DEF IsAt
  <2>4. Len(rc2) = t[1] + (IF r = <<>> THEN 0 ELSE r[1].current)
    <3>1. t[1] \in Nat
      BY <1>5, <2>1
    <3>2. CASE r = <<>>
      BY <2>1, <3>1, <3>2
    <3>3. CASE r # <<>>
      <4>1. 1 \in 1..p
        BY <1>3, <3>3
      <4>2. r[1].current = 0
        BY <2>3, <4>1
      <4> QED
        BY <2>1, <3>1, <3>3, <4>2
    <3> QED
      BY <3>2, <3>3
  <2> QED
    BY <1>3, <2>3, <2>4 DEF ReadsFirst, IsAt
<1>9. HasTail(n, l, t[Len(r) + 1], mem, buf, len)
  <2>1. t[Len(r) + 1] = s[Len(q) + 1]
    BY <1>2, <1>3, <1>4
  <2> QED
    BY <2>1 DEF LineOf
<1> QED
  BY <1>1, <1>7, <1>8, <1>9 DEF LineOf, OnLine

\* A reader that has read all is dropped.
LEMMA LineDrop ==
    ASSUME NEW rc \in Seq(Event), NEW q \in Seq(Message), q # <<>>, NEW mem, NEW buf, NEW len \in Nat,
           NEW want, OnLine(rc, q, mem, buf, len, want), q[1].buffer # NoBuffer, q[1].current = q[1].len
    PROVE  OnLine(rc, Tail(q), mem, buf, len, want)
<1>0. PICK n \in Nat : \E l, s : LineOf(n, l, s, rc, q, mem, buf, len, want)
  BY LineWitness
<1>1. PICK l, s : LineOf(n, l, s, rc, q, mem, buf, len, want)
  BY <1>0
<1>2. 1 \in 1..Len(q) /\ 1 + 1 = 2
  OBVIOUS
<1>3. s[2] = s[1] + q[1].len
  BY <1>1, <1>2 DEF LineOf, Cuts, Size
<1>4. Len(rc) = s[2] /\ \A k \in 1..Len(rc) : rc[k] = l[k]
  BY <1>1, <1>3 DEF LineOf, ReadsFirst
<1> QED
  BY <1>1, <1>4, LineShift

\* A message from the network is read at once.
LEMMA LineRaw ==
    ASSUME NEW rc \in Seq(Event), NEW q \in Seq(Message), q # <<>>, NEW mem, NEW buf, NEW len \in Nat,
           NEW want, OnLine(rc, q, mem, buf, len, want), q[1].buffer = NoBuffer
    PROVE  OnLine(rc \o q[1].events, Tail(q), mem, buf, len, want)
<1>0. PICK n \in Nat : \E l, s : LineOf(n, l, s, rc, q, mem, buf, len, want)
  BY LineWitness
<1>1. PICK l, s : LineOf(n, l, s, rc, q, mem, buf, len, want)
  BY <1>0
<1>2. 1 \in 1..Len(q) /\ 1 + 1 = 2 /\ q[1] \in Message
  OBVIOUS
<1>3. PICK g \in Seq(Event) : g = q[1].events
  BY <1>2, MessageParts
<1>4. PICK a \in Nat, y \in Nat, z \in Nat : a = s[1] /\ y = Len(g) /\ z = s[2]
  BY <1>1, <1>2, CutsWithin DEF LineOf
<1>5. z = a + y /\ \A k \in 1..y : g[k] = l[a + k]
  BY <1>1, <1>2, <1>3, <1>4 DEF LineOf, Cuts, Size, Item
<1>6. Len(rc) = a /\ \A k \in 1..a : rc[k] = l[k]
  <2>1. q[1].current = 0 /\ Len(rc) = s[1] + q[1].current
    BY <1>1, <1>2 DEF LineOf, ReadsFirst, IsAt
  <2> QED
    BY <1>1, <1>4, <2>1 DEF LineOf, ReadsFirst
<1>7. PICK rc2 : rc2 = rc \o g
  OBVIOUS
<1>8. /\ rc2 \in Seq(Event) /\ Len(rc2) = z
      /\ \A k \in 1..a : rc2[k] = rc[k]
      /\ \A k \in 1..y : rc2[a + k] = g[k]
  <2>1. /\ rc2 \in Seq(Event) /\ Len(rc2) = Len(rc) + Len(g)
        /\ \A k \in 1..Len(rc) : rc2[k] = rc[k]
        /\ \A k \in 1..Len(g) : rc2[Len(rc) + k] = g[k]
    BY <1>7, Joined
  <2> QED
    BY <1>4, <1>5, <1>6, <2>1
<1>9. ASSUME NEW k \in 1..z PROVE rc2[k] = l[k]
  <2>1. CASE k <= a
    BY <1>6, <1>8, <2>1
  <2>2. CASE k > a
    <3>1. PICK i \in 1..y : k = a + i
      <4>1. k - a \in 1..y /\ k = a + (k - a)
        BY <1>5, <2>2
      <4> QED
        BY <4>1
    <3> QED
      BY <1>5, <1>8, <3>1
  <2> QED
    BY <2>1, <2>2
<1>10. OnLine(rc2, Tail(q), mem, buf, len, want)
  BY <1>1, <1>4, <1>8, <1>9, LineShift
<1> QED
  BY <1>3, <1>7, <1>10

\* The parts 0..m of channel c's events begin where u says, and follow each
\* other on the line.
PartsFollow(c, m, u, l) ==
    /\ u[0] = 0
    /\ \A i \in 0..(m + 1) : u[i] \in Nat
    /\ \A i, j \in 0..(m + 1) : i <= j => u[i] <= u[j]
    /\ \A i \in 0..m : DOMAIN Part(c, i) = 1..(u[i + 1] - u[i])
    /\ \A i \in 0..m : \A k \in 1..(u[i + 1] - u[i]) : Part(c, i)[k] = l[u[i] + k]

\* What follows each other on the line is in order, and nothing is left out.
LEMMA PartsAreTheLine ==
    ASSUME NEW c, NEW m \in Nat, NEW u, NEW l, NEW n \in Nat, NEW want, PartsFollow(c, m, u, l),
           IsLine(n, l, want), u[m + 1] <= n
    PROVE  /\ InOrder(c, 0..m)
           /\ EventsIn(c, 0..m) = {l[k] : k \in 1..u[m + 1]}
<1>1. /\ u[0] = 0
      /\ \A i \in 0..(m + 1) : u[i] \in Nat
      /\ \A i, j \in 0..(m + 1) : i <= j => u[i] <= u[j]
      /\ \A i \in 0..m : DOMAIN Part(c, i) = 1..(u[i + 1] - u[i])
      /\ \A i \in 0..m : \A k \in 1..(u[i + 1] - u[i]) : Part(c, i)[k] = l[u[i] + k]
  BY DEF PartsFollow
<1>2. PICK z \in Nat : z = u[m + 1]
  <2>1. m + 1 \in 0..(m + 1)
    OBVIOUS
  <2> QED
    BY <1>1, <2>1
<1>3. ASSUME NEW p \in Places(c, 0..m)
      PROVE  \E i \in 0..m, k \in Nat, a \in Nat, b \in Nat :
                /\ p = <<i, k>> /\ a = u[i] /\ b = u[i + 1] /\ k \in 1..(b - a) /\ b <= z
                /\ a + k \in 1..z /\ EventAt(c, p) = l[a + k]
  <2>1. PICK i \in 0..m : p \in {i} \X DOMAIN Part(c, i)
    BY DEF Places
  <2>2. PICK k \in DOMAIN Part(c, i) : p = <<i, k>>
    BY <2>1
  <2>3. i \in 0..(m + 1) /\ i + 1 \in 0..(m + 1) /\ m + 1 \in 0..(m + 1) /\ i <= i + 1 /\ i + 1 <= m + 1
    OBVIOUS
  <2>4. PICK a \in Nat, b \in Nat : a = u[i] /\ b = u[i + 1]
    BY <1>1, <2>3
  <2>5. a <= b /\ b <= z
    BY <1>1, <1>2, <2>3, <2>4
  <2>6. k \in 1..(b - a)
    BY <1>1, <2>4
  <2>7. k \in Nat /\ a + k \in 1..z
    BY <2>5, <2>6
  <2>8. Part(c, i)[k] = l[a + k]
    BY <1>1, <2>4, <2>6
  <2>9. EventAt(c, p) = l[a + k]
    BY <2>2, <2>8 DEF EventAt
  <2> QED
    BY <2>2, <2>4, <2>5, <2>6, <2>7, <2>9
<1>4. /\ \A j, k \in 1..n : j < k => l[j] < l[k]
      /\ \A k \in 1..z : k \in 1..n
  BY <1>2 DEF IsLine
<1>5. InOrder(c, 0..m)
  <2> SUFFICES ASSUME NEW p \in Places(c, 0..m), NEW q \in Places(c, 0..m), Before(p, q)
               PROVE  EventAt(c, p) < EventAt(c, q)
    BY DEF InOrder
  <2>1. PICK i \in 0..m, k \in Nat, a \in Nat, b \in Nat :
                /\ p = <<i, k>> /\ a = u[i] /\ b = u[i + 1] /\ k \in 1..(b - a) /\ b <= z
                /\ a + k \in 1..z /\ EventAt(c, p) = l[a + k]
    BY <1>3
  <2>2. PICK j \in 0..m, h \in Nat, x \in Nat, y \in Nat :
                /\ q = <<j, h>> /\ x = u[j] /\ y = u[j + 1] /\ h \in 1..(y - x) /\ y <= z
                /\ x + h \in 1..z /\ EventAt(c, q) = l[x + h]
    BY <1>3
  <2>3. i < j \/ (i = j /\ k < h)
    BY <2>1, <2>2 DEF Before
  <2>4. CASE i < j
    <3>1. i + 1 \in 0..(m + 1) /\ j \in 0..(m + 1) /\ i + 1 <= j
      BY <2>4
    <3>2. b <= x
      BY <1>1, <2>1, <2>2, <3>1
    <3>3. a + k < x + h
      <4>1. k \in 1..(b - a) /\ h \in 1..(y - x)
        BY <2>1, <2>2
      <4> QED
        BY <3>2, <4>1
    <3> QED
      BY <1>4, <2>1, <2>2, <3>3
  <2>5. CASE i = j /\ k < h
    <3>1. a = x
      BY <2>1, <2>2, <2>5
    <3>2. a + k < x + h
      BY <2>5, <3>1
    <3> QED
      BY <1>4, <2>1, <2>2, <3>2
  <2> QED
    BY <2>3, <2>4, <2>5
<1>6. ASSUME NEW x \in EventsIn(c, 0..m) PROVE x \in {l[k] : k \in 1..z}
  <2>1. PICK p \in Places(c, 0..m) : x = EventAt(c, p)
    BY DEF EventsIn
  <2> QED
    BY <1>3, <2>1
<1>7. ASSUME NEW k \in 1..z PROVE l[k] \in EventsIn(c, 0..m)
  <2> DEFINE D == {d \in 0..(m + 1) : k <= u[d]}
  <2>1. D \in SUBSET Nat /\ m + 1 \in D
    BY <1>2
  <2>2. PICK j \in D : \A d \in D : j <= d
    BY <2>1, LeastNumber
  <2>3. j \in 0..(m + 1) /\ k <= u[j] /\ j # 0
    BY <1>1
  <2>4. PICK i \in 0..m : j = i + 1
    <3>1. j - 1 \in 0..m /\ j = (j - 1) + 1
      BY <2>3
    <3> QED
      BY <3>1
  <2>5. i \in 0..(m + 1) /\ i \notin D
    BY <2>2, <2>4
  <2>6. PICK a \in Nat, b \in Nat : a = u[i] /\ b = u[i + 1]
    BY <1>1, <2>3, <2>4, <2>5
  <2>7. a < k /\ k <= b
    BY <2>3, <2>4, <2>5, <2>6
  <2>8. PICK h \in 1..(b - a) : k = a + h
    <3>1. k - a \in 1..(b - a) /\ k = a + (k - a)
      BY <2>7
    <3> QED
      BY <3>1
  <2>9. h \in DOMAIN Part(c, i) /\ Part(c, i)[h] = l[k]
    BY <1>1, <2>6, <2>8
  <2>10. <<i, h>> \in Places(c, 0..m)
    BY <2>9 DEF Places
  <2>11. EventAt(c, <<i, h>>) = l[k]
    BY <2>9 DEF EventAt
  <2> QED
    BY <2>10, <2>11 DEF EventsIn
<1> QED
  BY <1>2, <1>5, <1>6, <1>7

-----------------------------------------------------------------------------
(* Which channels the events are for, from any sequence of calls `ad'.       *)

RunOf(ad, n) == {k \in 1..(n - 1) : \A j \in k..(n - 1) : ad[j].kind = "element"}
OverflowsOf(ad, n) ==
    ad[n].kind # "flush" /\ RunOf(ad, n) # {} /\ Cardinality(RunOf(ad, n)) % BufferSize = 0
EndsOf(ad, n) == {k \in 1..n : ad[k].kind # "element"}
FullOf(ad, n) == {k \in 1..n : OverflowsOf(ad, k)}
SentOf(ad, n) == Cardinality(EndsOf(ad, n)) + Cardinality(FullOf(ad, n))
ForOf(ad, str, n, c) ==
    /\ ad[n].kind # "flush"
    /\ CASE str = "KeyBy" -> ad[n].kind = "marker" \/ KeyIndex(ad[n].key) = c
         [] str = "RoundRobin" ->
              c = Turn(IF ad[n].kind = "marker" THEN SentOf(ad, n) - 1 ELSE SentOf(ad, n))
         [] str = "Forward" -> c = 1
         [] OTHER -> str # "Mute"
WantOf(ad, str, lo, c) == {n \in DOMAIN ad : ForOf(ad, str, n, c) /\ n \notin lo}

\* How many events RoundRobin's buffer has after call n.
FilledOf(ad, n) ==
    IF RunOf(ad, n + 1) = {} THEN 0 ELSE ((Cardinality(RunOf(ad, n + 1)) - 1) % BufferSize) + 1

\* They are what the reference says of `added'.
LEMMA ReferenceIs ==
    ASSUME NEW c
    PROVE  Expected(c) = WantOf(added, strategy, lost[c], c)
<1>1. \A n : Run(n) = RunOf(added, n)
  BY DEF Run, RunOf
<1>2. \A n : Overflows(n) <=> OverflowsOf(added, n)
  BY <1>1, Zenon DEF Overflows, OverflowsOf
<1>3. \A n : Sent(n) = SentOf(added, n)
  <2> SUFFICES ASSUME NEW n PROVE Sent(n) = SentOf(added, n)
    OBVIOUS
  <2>1. {k \in 1..n : Overflows(k)} = FullOf(added, n)
    BY <1>2, Zenon DEF FullOf
  <2> QED
    BY <2>1, Zenon DEF Sent, SentOf, EndsOf
<1>4. \A n : IsFor(n, c) <=> ForOf(added, strategy, n, c)
  BY <1>3, Zenon DEF IsFor, ForOf
<1> QED
  BY <1>4, Zenon DEF Expected, WantOf

\* The remainder of a number in its place,
LEMMA ModuloIs ==
    ASSUME NEW b \in Nat, b > 0, NEW d \in Nat, NEW r \in 0..(b - 1)
    PROVE  ((b * d) + r) % b = r
  OBVIOUS

\* and of the next number.
LEMMA NextModulo ==
    ASSUME NEW b \in Nat, b > 0, NEW x \in Nat
    PROVE  /\ x % b \in 0..(b - 1)
           /\ (x + 1) % b = IF (x % b) + 1 = b THEN 0 ELSE (x % b) + 1
<1>1. PICK r \in 0..(b - 1) : r = x % b
  OBVIOUS
<1>2. PICK d \in Nat : x = (b * d) + r
  <2>1. x = (b * (x \div b)) + (x % b) /\ x \div b \in Nat
    OBVIOUS
  <2> QED
    BY <1>1, <2>1
<1>3. CASE r + 1 = b
  <2>1. PICK e \in Nat : e = d + 1
    OBVIOUS
  <2>2. x + 1 = (b * e) + 0
    BY <1>2, <1>3, <2>1
  <2>3. ((b * e) + 0) % b = 0
    BY ModuloIs
  <2> QED
    BY <1>1, <1>3, <2>2, <2>3
<1>4. CASE r + 1 # b
  <2>1. PICK t \in 0..(b - 1) : t = r + 1
    BY <1>4
  <2>2. x + 1 = (b * d) + t
    BY <1>2, <2>1
  <2>3. ((b * d) + t) % b = t
    BY ModuloIs
  <2> QED
    BY <1>1, <1>4, <2>1, <2>2, <2>3
<1> QED
  BY <1>1, <1>3, <1>4

\* Channels take turns.
LEMMA TurnIs ==
    ASSUME NEW m \in Nat
    PROVE  Turn(m) \in Channels /\ Turn(m + 1) = (Turn(m) % N) + 1
<1>1. N \in Nat /\ N > 0
  BY StrategyAssumption
<1>2. PICK r \in 0..(N - 1) : r = m % N
  BY <1>1, NextModulo
<1>3. (m + 1) % N = IF r + 1 = N THEN 0 ELSE r + 1
  BY <1>1, <1>2, NextModulo
<1>4. Turn(m) = r + 1 /\ Turn(m + 1) = ((m + 1) % N) + 1
  BY <1>2 DEF Turn
<1>5. (r + 1) % N = IF r + 1 = N THEN 0 ELSE r + 1
  BY <1>1
<1> QED
  BY <1>1, <1>3, <1>4, <1>5 DEF Channels

\* What one call more changes: nothing for the calls before it.
LEMMA EarlierCalls ==
    ASSUME NEW ad \in Seq(Call), NEW x \in Call, NEW ad2, ad2 = Append(ad, x)
    PROVE  /\ \A k \in 1..(Len(ad) + 1) : RunOf(ad2, k) = RunOf(ad, k)
           /\ \A k \in 1..Len(ad) : SentOf(ad2, k) = SentOf(ad, k)
           /\ \A k \in 1..Len(ad) : \A str, c : ForOf(ad2, str, k, c) <=> ForOf(ad, str, k, c)
<1>1. PICK n \in Nat : n = Len(ad)
  OBVIOUS
<1>2. \A k \in 1..n : ad2[k] = ad[k]
  BY <1>1
<1>3. ASSUME NEW k \in 1..(n + 1) PROVE RunOf(ad2, k) = RunOf(ad, k)
  <2>1. \A i \in 1..(k - 1) : \A j \in i..(k - 1) : j \in 1..n
    OBVIOUS
  <2>2. \A i \in 1..(k - 1) : (\A j \in i..(k - 1) : ad2[j].kind = "element")
                             <=> (\A j \in i..(k - 1) : ad[j].kind = "element")
    BY <1>2, <2>1
  <2> QED
    BY <2>2, Zenon DEF RunOf
<1>4. ASSUME NEW k \in 1..n PROVE OverflowsOf(ad2, k) <=> OverflowsOf(ad, k)
  <2>3. k \in 1..(n + 1)
    OBVIOUS
  <2>1. ad2[k] = ad[k]
    BY <1>2
  <2>2. RunOf(ad2, k) = RunOf(ad, k)
    BY <1>3, <2>3
  <2> QED
    BY <2>1, <2>2, Zenon DEF OverflowsOf
<1>5. ASSUME NEW k \in 1..n PROVE SentOf(ad2, k) = SentOf(ad, k)
  <2>1. \A i \in 1..k : i \in 1..n
    OBVIOUS
  <2>2. EndsOf(ad2, k) = EndsOf(ad, k)
    BY <1>2, <2>1 DEF EndsOf
  <2>3. \A i \in 1..k : OverflowsOf(ad2, i) <=> OverflowsOf(ad, i)
    BY <1>4, <2>1
  <2>4. FullOf(ad2, k) = FullOf(ad, k)
    BY <2>3, Zenon DEF FullOf
  <2> QED
    BY <2>2, <2>4 DEF SentOf
<1>6. ASSUME NEW k \in 1..n, NEW str, NEW c PROVE ForOf(ad2, str, k, c) <=> ForOf(ad, str, k, c)
  BY <1>2, <1>5, Zenon DEF ForOf
<1> QED
  BY <1>1, <1>3, <1>5, <1>6

\* The sets that are counted are finite.
LEMMA CountsAreNumbers ==
    ASSUME NEW ad, NEW n \in Nat
    PROVE  /\ IsFiniteSet(RunOf(ad, n + 1)) /\ Cardinality(RunOf(ad, n + 1)) \in Nat
           /\ RunOf(ad, n + 1) # {} => Cardinality(RunOf(ad, n + 1)) > 0
           /\ IsFiniteSet(EndsOf(ad, n)) /\ Cardinality(EndsOf(ad, n)) \in Nat
           /\ IsFiniteSet(FullOf(ad, n)) /\ Cardinality(FullOf(ad, n)) \in Nat
           /\ n + 1 \notin RunOf(ad, n + 1) /\ n + 1 \notin EndsOf(ad, n) /\ n + 1 \notin FullOf(ad, n)
<1>1. IsFiniteSet(1..n) /\ (n + 1) - 1 = n /\ n + 1 \notin 1..n
  BY FS_Interval
<1>2. /\ RunOf(ad, n + 1) \in SUBSET (1..n) /\ EndsOf(ad, n) \in SUBSET (1..n)
      /\ FullOf(ad, n) \in SUBSET (1..n)
  BY <1>1 DEF RunOf, EndsOf, FullOf
<1>3. \A S \in SUBSET (1..n) :
        IsFiniteSet(S) /\ Cardinality(S) \in Nat /\ (S # {} => Cardinality(S) > 0) /\ n + 1 \notin S
  <2> SUFFICES ASSUME NEW S \in SUBSET (1..n)
               PROVE  IsFiniteSet(S) /\ Cardinality(S) \in Nat /\ (S # {} => Cardinality(S) > 0) /\ n + 1 \notin S
    OBVIOUS
  <2>1. IsFiniteSet(S)
    BY <1>1, FS_Subset
  <2>2. Cardinality(S) \in Nat /\ (Cardinality(S) = 0 <=> S = {})
    BY <2>1, FS_CardinalityType, FS_EmptySet
  <2>3. n + 1 \notin S
    BY <1>1
  <2>4. S # {} => Cardinality(S) > 0
    <3>1. PICK y \in Nat : y = Cardinality(S)
      BY <2>2
    <3>2. y # 0 => y > 0
      OBVIOUS
    <3>3. S # {} => y # 0
      BY <2>2, <3>1
    <3> QED
      BY <3>1, <3>2, <3>3
  <2> QED
    BY <2>1, <2>2, <2>3, <2>4
<1> QED
  BY <1>2, <1>3

\* One call more: RoundRobin's messages and the events in its buffer.
CountsMove(ad, ad2, x, n) ==
    /\ SentOf(ad, n) \in Nat /\ FilledOf(ad, n) \in 0..BufferSize
    /\ SentOf(ad2, n + 1) = SentOf(ad, n) + (IF x.kind = "element" THEN 0 ELSE 1)
          + (IF x.kind # "flush" /\ FilledOf(ad, n) = BufferSize THEN 1 ELSE 0)
    /\ FilledOf(ad2, n + 1) = IF x.kind # "element" THEN 0
          ELSE IF FilledOf(ad, n) = BufferSize THEN 1 ELSE FilledOf(ad, n) + 1

\* The next call moves them so.
LEMMA NextCall ==
    ASSUME NEW ad \in Seq(Call), NEW x \in Call, NEW ad2, ad2 = Append(ad, x), NEW n \in Nat, n = Len(ad)
    PROVE  CountsMove(ad, ad2, x, n)
<1>1. BufferSize \in Nat /\ BufferSize > 0
  BY PoolAssumption
<1>2. PICK A, B, R : A = EndsOf(ad, n) /\ B = FullOf(ad, n) /\ R = RunOf(ad, n + 1)
  OBVIOUS
<1>3. /\ IsFiniteSet(R) /\ (R # {} => Cardinality(R) > 0) /\ IsFiniteSet(A) /\ IsFiniteSet(B)
      /\ n + 1 \notin R /\ n + 1 \notin A /\ n + 1 \notin B
  BY <1>2, CountsAreNumbers
<1>4. PICK r \in Nat, a \in Nat, b \in Nat : r = Cardinality(R) /\ a = Cardinality(A) /\ b = Cardinality(B)
  BY <1>2, CountsAreNumbers
<1>5. SentOf(ad, n) = a + b
  BY <1>2, <1>4 DEF SentOf
<1>6. PICK f : f = FilledOf(ad, n)
  OBVIOUS
<1>7. f = IF R = {} THEN 0 ELSE ((r - 1) % BufferSize) + 1
  BY <1>2, <1>4, <1>6 DEF FilledOf
<1>8. f \in 0..BufferSize /\ (R = {} => f = 0)
      /\ (R # {} => (r % BufferSize) + 1 = IF f = BufferSize THEN 1 ELSE f + 1)
      /\ ((R # {} /\ r % BufferSize = 0) <=> f = BufferSize)
  <2>1. CASE R = {}
    BY <1>1, <1>7, <2>1
  <2>2. CASE R # {}
    <3>1. PICK y \in Nat : r = y + 1
      <4>1. r > 0
        BY <1>3, <1>4, <2>2
      <4>2. r - 1 \in Nat /\ r = (r - 1) + 1
        BY <4>1
      <4> QED
        BY <4>2
    <3>2. PICK z \in 0..(BufferSize - 1) : z = y % BufferSize
      BY <1>1, NextModulo
    <3>3. (y + 1) % BufferSize = IF z + 1 = BufferSize THEN 0 ELSE z + 1
      BY <1>1, <3>2, NextModulo
    <3>4. f = z + 1
      <4>1. r - 1 = y
        BY <3>1
      <4> QED
        BY <1>7, <2>2, <3>2, <4>1
    <3> QED
      BY <1>1, <2>2, <3>1, <3>2, <3>3, <3>4
  <2> QED
    BY <2>1, <2>2
<1>9. /\ \A k \in 1..n : ad2[k] = ad[k]
      /\ ad2[n + 1] = x
      /\ \A k \in 1..(n + 1) : k \in 1..n \/ k = n + 1
      /\ \A k \in 1..n : k \in 1..(n + 1)
      /\ n + 1 \in 1..(n + 1)
  OBVIOUS
<1>10. EndsOf(ad2, n + 1) = IF x.kind = "element" THEN A ELSE A \cup {n + 1}
  BY <1>2, <1>9 DEF EndsOf
<1>11. RunOf(ad2, n + 1) = R /\ \A k \in 1..n : OverflowsOf(ad2, k) <=> OverflowsOf(ad, k)
  <2>1. \A k \in 1..(n + 1) : RunOf(ad2, k) = RunOf(ad, k)
    BY EarlierCalls
  <2>2. RunOf(ad2, n + 1) = R
    BY <1>2, <1>9, <2>1
  <2>3. ASSUME NEW k \in 1..n PROVE OverflowsOf(ad2, k) <=> OverflowsOf(ad, k)
    <3>1. RunOf(ad2, k) = RunOf(ad, k) /\ ad2[k] = ad[k]
      BY <1>9, <2>1
    <3> QED
      BY <3>1, Zenon DEF OverflowsOf
  <2> QED
    BY <2>2, <2>3
<1>12. OverflowsOf(ad2, n + 1) <=> (x.kind # "flush" /\ f = BufferSize)
  <2>1. OverflowsOf(ad2, n + 1) <=> (x.kind # "flush" /\ R # {} /\ r % BufferSize = 0)
    BY <1>4, <1>9, <1>11 DEF OverflowsOf
  <2> QED
    BY <1>8, <2>1
<1>13. FullOf(ad2, n + 1) = IF x.kind # "flush" /\ f = BufferSize THEN B \cup {n + 1} ELSE B
  BY <1>2, <1>9, <1>11, <1>12 DEF FullOf
<1>14. /\ Cardinality(A \cup {n + 1}) = a + 1 /\ Cardinality(B \cup {n + 1}) = b + 1
       /\ Cardinality(R \cup {n + 1}) = r + 1
  BY <1>3, <1>4, FS_AddElement
<1>15. SentOf(ad2, n + 1) = (a + b) + (IF x.kind = "element" THEN 0 ELSE 1)
                 + (IF x.kind # "flush" /\ f = BufferSize THEN 1 ELSE 0)
  <2>1. Cardinality(EndsOf(ad2, n + 1)) = a + (IF x.kind = "element" THEN 0 ELSE 1)
    BY <1>4, <1>10, <1>14
  <2>2. Cardinality(FullOf(ad2, n + 1)) = b + (IF x.kind # "flush" /\ f = BufferSize THEN 1 ELSE 0)
    BY <1>4, <1>13, <1>14
  <2>3. PICK u \in {0, 1}, v \in {0, 1} :
           /\ u = (IF x.kind = "element" THEN 0 ELSE 1)
           /\ v = (IF x.kind # "flush" /\ f = BufferSize THEN 1 ELSE 0)
    OBVIOUS
  <2>4. SentOf(ad2, n + 1) = (a + u) + (b + v)
    BY <2>1, <2>2, <2>3 DEF SentOf
  <2>5. (a + u) + (b + v) = (a + b) + u + v
    OBVIOUS
  <2> QED
    BY <2>3, <2>4, <2>5
<1>16. RunOf(ad2, (n + 1) + 1) = IF x.kind = "element" THEN R \cup {n + 1} ELSE {}
  <2>1. ((n + 1) + 1) - 1 = n + 1 /\ (n + 1) - 1 = n
    OBVIOUS
  <2>2. /\ \A k \in 1..(n + 1) : n + 1 \in k..(n + 1)
        /\ \A k \in 1..n : \A j \in k..(n + 1) : j \in k..n \/ j = n + 1
        /\ \A k \in 1..n : \A j \in k..n : j \in k..(n + 1) /\ j \in 1..n
        /\ \A j \in (n + 1)..(n + 1) : j = n + 1
    OBVIOUS
  <2>3. RunOf(ad2, (n + 1) + 1) = {k \in 1..(n + 1) : \A j \in k..(n + 1) : ad2[j].kind = "element"}
    BY <2>1 DEF RunOf
  <2>4. R = {k \in 1..n : \A j \in k..n : ad[j].kind = "element"}
    BY <1>2, <2>1 DEF RunOf
  <2>5. CASE x.kind # "element"
    BY <1>9, <2>2, <2>3, <2>5
  <2>6. CASE x.kind = "element"
    <3>1. \A k \in 1..n : (\A j \in k..(n + 1) : ad2[j].kind = "element")
                          <=> (\A j \in k..n : ad[j].kind = "element")
      BY <1>9, <2>2, <2>6
    <3>2. \A j \in (n + 1)..(n + 1) : ad2[j].kind = "element"
      BY <1>9, <2>2, <2>6
    <3> QED
      BY <1>9, <2>3, <2>4, <2>6, <3>1, <3>2
  <2> QED
    BY <2>5, <2>6
<1>17. FilledOf(ad2, n + 1) = IF x.kind # "element" THEN 0 ELSE IF f = BufferSize THEN 1 ELSE f + 1
  <2>1. CASE x.kind # "element"
    BY <1>16, <2>1 DEF FilledOf
  <2>2. CASE x.kind = "element"
    <3>1. FilledOf(ad2, n + 1) = (((r + 1) - 1) % BufferSize) + 1
      <4>1. RunOf(ad2, (n + 1) + 1) = R \cup {n + 1}
        BY <1>16, <2>2
      <4> QED
        BY <1>14, <4>1 DEF FilledOf
    <3>2. (r + 1) - 1 = r
      OBVIOUS
    <3>3. CASE R # {}
      BY <1>8, <2>2, <3>1, <3>2, <3>3
    <3>4. CASE R = {}
      <4>1. r = 0
        BY <1>4, <3>4, FS_EmptySet
      <4>2. 0 % BufferSize = 0 /\ f = 0
        BY <1>1, <1>8, <3>4
      <4> QED
        BY <1>1, <2>2, <3>1, <3>2, <4>1, <4>2
    <3> QED
      BY <3>3, <3>4
  <2> QED
    BY <2>1, <2>2
<1> QED
  BY <1>5, <1>6, <1>8, <1>15, <1>17 DEF CountsMove

-----------------------------------------------------------------------------
(* What the calls that are left do to the books of the channels: which       *)
(* channels' events end in a writer's buffer (open), which of them the event *)
(* being added has still to reach (waits), whether the Copier has its copy,  *)
(* and for RoundRobin how many messages there were before the one that its   *)
(* buffer is for, and how many events that has.                              *)

Books == [open : SUBSET Channels, waits : SUBSET Channels, msgs : Nat, len : Nat, copy : {"none", "made"}]

\* The writer of a channel, the channels that are open between two calls, and
\* the channels that a push to writer w is for.
WriterOf(str, c) == IF str = "KeyBy" THEN c ELSE 1
Base(str, m) == {c \in Channels : (str = "Forward" => c = 1) /\ (str = "RoundRobin" => c = Turn(m))}
Targets(str, m, w) == {c \in Base(str, m) : str = "KeyBy" => c = w}

\* A push of event e: RoundRobin starts the next message when the buffer is full.
PushMoves(str, e, A, st, B) ==
    /\ st.event = e /\ A.open = Base(str, A.msgs) /\ B.open = Base(str, B.msgs)
    /\ IF str = "RoundRobin" /\ A.len = BufferSize THEN B.msgs = A.msgs + 1 /\ B.len = 1
       ELSE B.msgs = A.msgs /\ B.len = IF str = "RoundRobin" THEN A.len + 1 ELSE A.len
    /\ Targets(str, B.msgs, st.writer) \subseteq A.waits
    /\ B.waits = A.waits \ Targets(str, B.msgs, st.writer)
PushAllMoves(str, e, A, st, B) ==
    /\ str = "KeyBy" /\ st.event = e /\ A.open = Channels /\ st.left \subseteq A.waits
    /\ B.open = A.open /\ B.waits = A.waits \ st.left /\ B.msgs = A.msgs /\ B.len = A.len

\* Broadcast's flush goes on with the channels that are left.
FlushMoves(str, A, st, B) ==
    /\ A.open = IF str = "Broadcast" THEN st.left ELSE Base(str, A.msgs)
    /\ str = "Broadcast" => N \in st.left
    /\ B.open = Base(str, B.msgs) /\ B.waits = A.waits
    /\ IF str = "RoundRobin" THEN B.msgs = A.msgs + 1 /\ B.len = 0
       ELSE B.msgs = A.msgs /\ B.len = A.len

\* A send takes the buffer of the channel, or the copy of it; but for the copy,
\* no other channel is open with the same writer.
SendMoves(str, A, st, B) ==
    /\ st.chan \in A.open
    /\ IF st.writer = Copier THEN A.copy = "made"
       ELSE /\ A.copy = "none" /\ st.writer = WriterOf(str, st.chan)
            /\ \A d \in A.open : WriterOf(str, d) = st.writer => d = st.chan
    /\ B.open = A.open \ {st.chan} /\ B.waits = A.waits /\ B.len = A.len
    /\ B.msgs = IF str = "RoundRobin" THEN A.msgs + 1 ELSE A.msgs

\* A writer with a new buffer opens its channels.
GetMoves(str, A, st, B) ==
    /\ B.waits = A.waits /\ B.msgs = A.msgs
    /\ IF st.writer = Copier THEN B.open = A.open /\ B.len = A.len
       ELSE /\ \A d \in A.open : WriterOf(str, d) # st.writer
            /\ B.open = A.open \cup Targets(str, A.msgs, st.writer)
            /\ B.len = IF str = "RoundRobin" THEN 0 ELSE A.len
CopyMoves(str, A, B) ==
    /\ str = "Broadcast" /\ A.open # {}
    /\ B.open = A.open /\ B.waits = A.waits /\ B.msgs = A.msgs /\ B.len = A.len

\* The books before the call st, and after it.
Moves(str, e, A, st, B) ==
    /\ A \in Books /\ B \in Books
    /\ st.op \in {"push", "push_all", "flush", "send", "get", "copy"}
    /\ st.op # "send" => A.copy = "none"
    /\ B.copy = IF st.op = "copy" THEN "made" ELSE "none"
    /\ st.op = "push" => PushMoves(str, e, A, st, B)
    /\ st.op = "push_all" => PushAllMoves(str, e, A, st, B)
    /\ st.op = "flush" => FlushMoves(str, A, st, B)
    /\ st.op = "send" => SendMoves(str, A, st, B)
    /\ st.op = "get" => GetMoves(str, A, st, B)
    /\ st.op = "copy" => CopyMoves(str, A, B)

\* The books before each of the calls s, the first being A and the last B.
IsRun(str, e, s, o, A, B) ==
    /\ o[1] = A /\ o[Len(s) + 1] = B
    /\ \A k \in 1..Len(s) : Moves(str, e, o[k], s[k], o[k + 1])
Runs(str, e, A, s, B) == \E o : IsRun(str, e, s, o, A, B)

\* No call at all.
LEMMA RunsNowhere ==
    ASSUME NEW str, NEW e, NEW A, NEW B
    PROVE  Runs(str, e, A, <<>>, B) <=> A = B
<1>1. ASSUME A = B PROVE Runs(str, e, A, <<>>, B)
  <2>1. IsRun(str, e, <<>>, <<A>>, A, B)
    BY <1>1 DEF IsRun
  <2> QED
    BY <2>1 DEF Runs
<1>2. ASSUME Runs(str, e, A, <<>>, B) PROVE A = B
  BY <1>2 DEF Runs, IsRun
<1> QED
  BY <1>1, <1>2

\* The calls without the first one.
LEMMA RunsTail ==
    ASSUME NEW S, NEW s \in Seq(S), s # <<>>, NEW str, NEW e, NEW A, NEW B, Runs(str, e, A, s, B)
    PROVE  \E C : Moves(str, e, A, Head(s), C) /\ Runs(str, e, C, Tail(s), B)
<1>1. PICK o : IsRun(str, e, s, o, A, B)
  BY DEF Runs
<1>2. /\ Len(s) \in Nat /\ Len(s) > 0 /\ Head(s) = s[1] /\ Len(Tail(s)) = Len(s) - 1
      /\ \A k \in 1..Len(Tail(s)) : Tail(s)[k] = s[k + 1]
  OBVIOUS
<1> DEFINE r == [k \in 1..Len(s) |-> o[k + 1]]
<1>3. \A k \in 1..Len(s) : r[k] = o[k + 1]
  OBVIOUS
<1> HIDE DEF r
<1>4. Moves(str, e, A, Head(s), r[1])
  BY <1>1, <1>2, <1>3 DEF IsRun
<1>5. r[Len(Tail(s)) + 1] = B
  BY <1>1, <1>2, <1>3 DEF IsRun
<1>6. ASSUME NEW k \in 1..Len(Tail(s)) PROVE Moves(str, e, r[k], Tail(s)[k], r[k + 1])
  <2>1. k \in 1..Len(s) /\ k + 1 \in 1..Len(s) /\ Tail(s)[k] = s[k + 1]
    BY <1>2
  <2>2. Moves(str, e, o[k + 1], s[k + 1], o[(k + 1) + 1])
    BY <1>1, <2>1 DEF IsRun
  <2> QED
    BY <1>3, <2>1, <2>2
<1>7. IsRun(str, e, Tail(s), r, r[1], B)
  BY <1>5, <1>6 DEF IsRun
<1> QED
  BY <1>4, <1>7 DEF Runs

\* Calls in front of others.
LEMMA RunsConcat ==
    ASSUME NEW S, NEW s \in Seq(S), NEW t \in Seq(S), NEW str, NEW e, NEW A, NEW B, NEW C,
           Runs(str, e, A, s, B), Runs(str, e, B, t, C)
    PROVE  Runs(str, e, A, s \o t, C)
<1>1. PICK o : IsRun(str, e, s, o, A, B)
  BY DEF Runs
<1>2. PICK q : IsRun(str, e, t, q, B, C)
  BY DEF Runs
<1>3. PICK st \in Seq(S) : st = s \o t
  BY ConcatProperties
<1>4. PICK m \in Nat, n \in Nat : m = Len(s) /\ n = Len(t)
  OBVIOUS
<1>5. /\ Len(st) = m + n
      /\ \A k \in 1..m : st[k] = s[k]
      /\ \A k \in 1..n : st[m + k] = t[k]
  BY <1>3, <1>4
<1> DEFINE r == [k \in 1..(m + n + 1) |-> IF k <= m THEN o[k] ELSE q[k - m]]
<1>6. /\ \A k \in 1..m : r[k] = o[k]
      /\ \A k \in 1..(n + 1) : r[m + k] = q[k]
      /\ r[m + 1] = q[1]
  OBVIOUS
<1>7. o[1] = A /\ o[m + 1] = B /\ q[1] = B /\ q[n + 1] = C
  BY <1>1, <1>2, <1>4 DEF IsRun
<1> HIDE DEF r
<1>8. r[1] = A /\ r[m + n + 1] = C
  <2>1. r[m + (n + 1)] = C
    BY <1>6, <1>7
  <2>2. CASE m = 0
    BY <1>6, <1>7, <2>1, <2>2
  <2>3. CASE m > 0
    BY <1>6, <1>7, <2>1, <2>3
  <2> QED
    BY <2>2, <2>3
<1>9. ASSUME NEW k \in 1..(m + n) PROVE Moves(str, e, r[k], st[k], r[k + 1])
  <2>1. CASE k <= m
    <3>1. Moves(str, e, o[k], s[k], o[k + 1]) /\ st[k] = s[k] /\ r[k] = o[k]
      BY <1>1, <1>4, <1>5, <1>6, <2>1 DEF IsRun
    <3>2. r[k + 1] = o[k + 1]
      BY <1>6, <1>7, <2>1
    <3> QED
      BY <3>1, <3>2
  <2>2. CASE k > m
    <3>1. PICK i \in 1..n : k = m + i
      <4>1. k - m \in 1..n /\ k = m + (k - m)
        BY <2>2
      <4> QED
        BY <4>1
    <3>2. Moves(str, e, q[i], t[i], q[i + 1]) /\ st[k] = t[i]
      BY <1>2, <1>4, <1>5, <3>1 DEF IsRun
    <3>3. r[k] = q[i] /\ r[k + 1] = q[i + 1]
      <4>1. i + 1 \in 1..(n + 1) /\ i \in 1..(n + 1) /\ m + (i + 1) = k + 1
        BY <3>1
      <4> QED
        BY <1>6, <3>1, <4>1
    <3> QED
      BY <3>2, <3>3
  <2> QED
    BY <2>1, <2>2
<1>10. IsRun(str, e, st, r, A, C)
  BY <1>5, <1>8, <1>9 DEF IsRun
<1> QED
  BY <1>3, <1>10 DEF Runs

\* One call, two of them, and so on.
LEMMA RunsOne ==
    ASSUME NEW str, NEW e, NEW A, NEW B, NEW a, Moves(str, e, A, a, B)
    PROVE  Runs(str, e, A, <<a>>, B)
<1>1. IsRun(str, e, <<a>>, <<A, B>>, A, B)
  BY DEF IsRun
<1> QED
  BY <1>1 DEF Runs

\* Two calls.
LEMMA RunsTwo ==
    ASSUME NEW str, NEW e, NEW A, NEW B, NEW C, NEW a, NEW b, Moves(str, e, A, a, B), Moves(str, e, B, b, C)
    PROVE  Runs(str, e, A, <<a, b>>, C)
<1>1. IsRun(str, e, <<a, b>>, <<A, B, C>>, A, C)
  BY DEF IsRun
<1> QED
  BY <1>1 DEF Runs

\* Four calls.
LEMMA RunsFour ==
    ASSUME NEW str, NEW e, NEW A, NEW B, NEW C, NEW D, NEW E, NEW a, NEW b, NEW c, NEW d,
           Moves(str, e, A, a, B), Moves(str, e, B, b, C), Moves(str, e, C, c, D), Moves(str, e, D, d, E)
    PROVE  Runs(str, e, A, <<a, b, c, d>>, E)
<1>1. IsRun(str, e, <<a, b, c, d>>, <<A, B, C, D, E>>, A, E)
  BY DEF IsRun
<1> QED
  BY <1>1 DEF Runs

-----------------------------------------------------------------------------
(* The books, and what is left to do.                                        *)

\* Between two calls every event is where it belongs, and RoundRobin has sent
\* what the reference says.
Done(str, ad, B) ==
    /\ B.open = Base(str, B.msgs) /\ B.waits = {} /\ B.copy = "none"
    /\ str = "RoundRobin" => B.msgs = SentOf(ad, Len(ad)) /\ B.len = FilledOf(ad, Len(ad))
Planned(str, ad, cs, A) == \E B : Runs(str, Len(ad), A, cs, B) /\ Done(str, ad, B)

\* A record of books with other entries.
Book(open, waits, msgs, len, copy) ==
    [open |-> open, waits |-> waits, msgs |-> msgs, len |-> len, copy |-> copy]

\* The books are what they say.
LEMMA BookIs ==
    ASSUME NEW open \in SUBSET Channels, NEW waits \in SUBSET Channels, NEW msgs \in Nat, NEW len \in Nat,
           NEW copy \in {"none", "made"}
    PROVE  LET A == Book(open, waits, msgs, len, copy)
           IN  /\ A \in Books /\ A.open = open /\ A.waits = waits /\ A.msgs = msgs /\ A.len = len
               /\ A.copy = copy
  BY DEF Book, Books

\* Books with the same entries are the same.
LEMMA SameBooks ==
    ASSUME NEW A \in Books, NEW B \in Books, A.open = B.open, A.waits = B.waits, A.msgs = B.msgs,
           A.len = B.len, A.copy = B.copy
    PROVE  A = B
  BY DEF Books

\* The entries of books.
LEMMA BookTypes ==
    ASSUME NEW A \in Books
    PROVE  /\ A.open \in SUBSET Channels /\ A.waits \in SUBSET Channels /\ A.msgs \in Nat /\ A.len \in Nat
           /\ A.copy \in {"none", "made"}
  BY DEF Books

\* The channels that are open between two calls.
LEMMA BaseIs ==
    ASSUME NEW str, NEW m \in Nat
    PROVE  /\ Base(str, m) \in SUBSET Channels
           /\ str = "RoundRobin" => Base(str, m) = {Turn(m)}
           /\ str = "Forward" => Base(str, m) = {1}
           /\ str \notin {"RoundRobin", "Forward"} => Base(str, m) = Channels
           /\ \A k \in Nat : str # "RoundRobin" => Base(str, k) = Base(str, m)
           /\ \A w \in Channels : str = "KeyBy" => Targets(str, m, w) = {w}
           /\ \A w : str # "KeyBy" => Targets(str, m, w) = Base(str, m)
           /\ Base(str, m) # {}
<1>1. Turn(m) \in Channels /\ 1 \in Channels
  BY TurnIs, WriterFacts
<1> QED
  BY <1>1 DEF Base, Targets

\* What add and flush leave to do: the books before a call have the channels that
\* it is for waiting.
ForNew(ad, str) == {c \in Channels : ForOf(ad, str, Len(ad), c)}

\* The calls that the steps make, and what they do to the books.
LEMMA MovesOf ==
    ASSUME NEW str, NEW e, NEW A \in Books, NEW B \in Books, NEW w, NEW c, NEW left
    PROVE  /\ (A.copy = "none" /\ B.copy = "none" /\ PushMoves(str, e, A, Push(w, e), B))
                 => Moves(str, e, A, Push(w, e), B)
           /\ (A.copy = "none" /\ B.copy = "none" /\ PushAllMoves(str, e, A, PushAll(left, e), B))
                 => Moves(str, e, A, PushAll(left, e), B)
           /\ (A.copy = "none" /\ B.copy = "none" /\ FlushMoves(str, A, FlushOf(left), B))
                 => Moves(str, e, A, FlushOf(left), B)
           /\ (B.copy = "none" /\ SendMoves(str, A, Send(w, c), B)) => Moves(str, e, A, Send(w, c), B)
           /\ (A.copy = "none" /\ B.copy = "none" /\ GetMoves(str, A, Get(w), B))
                 => Moves(str, e, A, Get(w), B)
           /\ (A.copy = "none" /\ B.copy = "made" /\ CopyMoves(str, A, B)) => Moves(str, e, A, Copy, B)
  BY DEF Moves, Push, PushAll, FlushOf, Send, Get, Copy, Step

\* A flush between two calls: the next message for RoundRobin, else the books
\* stay as they are.
LEMMA FlushPlans ==
    ASSUME NEW str, NEW e, NEW A \in Books, A.copy = "none", A.open = Base(str, A.msgs), NEW B,
           B = IF str = "RoundRobin" THEN Book(Base(str, A.msgs + 1), A.waits, A.msgs + 1, 0, "none") ELSE A
    PROVE  B \in Books /\ Moves(str, e, A, FlushOf(Channels), B)
<1>1. A.msgs \in Nat /\ A.waits \in SUBSET Channels
  BY BookTypes
<1>2. CASE str = "RoundRobin"
  <2>1. B = Book(Base(str, A.msgs + 1), A.waits, A.msgs + 1, 0, "none")
    BY <1>2
  <2>2. Base(str, A.msgs + 1) \in SUBSET Channels
    BY DEF Base
  <2>3. /\ B \in Books /\ B.open = Base(str, A.msgs + 1) /\ B.waits = A.waits /\ B.msgs = A.msgs + 1
        /\ B.len = 0 /\ B.copy = "none"
    BY <1>1, <2>1, <2>2, BookIs
  <2>4. FlushMoves(str, A, FlushOf(Channels), B)
    BY <1>2, <2>3 DEF FlushMoves
  <2> QED
    BY <2>3, <2>4, MovesOf
<1>3. CASE str # "RoundRobin"
  <2>1. str = "Broadcast" => Base(str, A.msgs) = Channels /\ N \in Channels
    BY <1>1, BaseIs, WriterFacts
  <2>2. FlushMoves(str, A, FlushOf(Channels), B)
    BY <1>3, <2>1 DEF FlushMoves, FlushOf, Step
  <2> QED
    BY <1>3, <2>2, MovesOf
<1> QED
  BY <1>2, <1>3

\* An event more in the buffer of RoundRobin, or the first one of the next message.
Fills(str, A, k, len) ==
    /\ k = IF str = "RoundRobin" /\ A.len = BufferSize THEN A.msgs + 1 ELSE A.msgs
    /\ len = IF str # "RoundRobin" THEN A.len ELSE IF A.len = BufferSize THEN 1 ELSE A.len + 1

AtRest(str, A) == A \in Books /\ A.copy = "none" /\ A.open = Base(str, A.msgs)
Pushed(str, e, A, w, B, k, len) ==
    /\ AtRest(str, B) /\ Moves(str, e, A, Push(w, e), B)
    /\ B.waits = {} /\ B.msgs = k /\ B.len = len

\* A push between two calls, as the first thing that a call does: the event
\* reaches the channels that it is for.
LEMMA PushPlans ==
    ASSUME NEW str, NEW e, NEW A, AtRest(str, A), NEW w, NEW k \in Nat, NEW len \in Nat, NEW B,
           Fills(str, A, k, len), A.waits = Targets(str, k, w), B = Book(Base(str, k), {}, k, len, "none")
    PROVE  Pushed(str, e, A, w, B, k, len)
<1>1. Base(str, k) \in SUBSET Channels
  BY DEF Base
<1>2. /\ B \in Books /\ B.open = Base(str, k) /\ B.waits = {} /\ B.msgs = k /\ B.len = len
      /\ B.copy = "none"
  BY <1>1, BookIs
<1>3. PushMoves(str, e, A, Push(w, e), B)
  BY <1>2 DEF PushMoves, Push, Step, Fills, AtRest
<1> QED
  BY <1>2, <1>3, MovesOf DEF AtRest, Pushed

\* What add and flush leave to do brings the event to the channels it is for.
LEMMA AddPlans ==
    ASSUME strategy \in Strategies, added \in Seq(Call), NEW call \in Call, NEW ad, ad = Append(added, call),
           NEW n \in Nat, n = Len(added),
           NEW A \in Books, Done(strategy, added, A), NEW B,
           B = Book(A.open, ForNew(ad, strategy), A.msgs, A.len, "none")
    PROVE  B \in Books /\ Planned(strategy, ad, AddSteps(call, n + 1), B)
<1>1. /\ Len(ad) = n + 1 /\ ad[n + 1] = call
      /\ call.kind \in {"element", "marker", "flush"} /\ (call.kind = "element" => call.key \in Nat)
  <2>1. Len(ad) = n + 1 /\ ad[n + 1] = call
    OBVIOUS
  <2>2. call.kind \in {"element", "marker", "flush"} /\ (call.kind = "element" => call.key \in Nat)
    BY KeyAssumption DEF Call
  <2> QED
    BY <2>1, <2>2
<1>2. /\ strategy \in {"Forward", "Broadcast", "RoundRobin", "KeyBy", "Mute"}
  BY StrategyAssumption
<1>3. /\ B \in Books /\ B.open = A.open /\ B.waits = ForNew(ad, strategy) /\ B.msgs = A.msgs
      /\ B.len = A.len /\ B.copy = "none" /\ B.msgs \in Nat /\ B.len \in Nat
  <2>1. ForNew(ad, strategy) \in SUBSET Channels
    BY DEF ForNew
  <2> QED
    BY <2>1, BookIs, BookTypes
<1>4. B.open = Base(strategy, B.msgs)
  BY <1>3 DEF Done
<1>50. CountsMove(added, ad, call, n)
  BY NextCall
<1>5. PICK m \in Nat, f \in Nat : m = SentOf(added, n) /\ f = FilledOf(added, n)
  <2>1. SentOf(added, n) \in Nat /\ FilledOf(added, n) \in 0..BufferSize
    BY <1>50 DEF CountsMove
  <2>2. FilledOf(added, n) \in Nat
    BY <2>1, PoolAssumption
  <2> QED
    BY <2>1, <2>2
<1>60. PICK m2, f2 : m2 = SentOf(ad, n + 1) /\ f2 = FilledOf(ad, n + 1)
  OBVIOUS
<1>6. /\ m2 = m + (IF call.kind = "element" THEN 0 ELSE 1)
                + (IF call.kind # "flush" /\ f = BufferSize THEN 1 ELSE 0)
      /\ f2 = IF call.kind # "element" THEN 0 ELSE IF f = BufferSize THEN 1 ELSE f + 1
  BY <1>5, <1>50, <1>60 DEF CountsMove
<1>7. strategy = "RoundRobin" => B.msgs = m /\ B.len = f
  BY <1>3, <1>5 DEF Done
<1>8. \A c \in Channels : c \in B.waits <=> ForOf(ad, strategy, n + 1, c)
  BY <1>1, <1>3 DEF ForNew
<1>9. ASSUME NEW D, Runs(strategy, n + 1, B, AddSteps(call, n + 1), D), D.open = Base(strategy, D.msgs), D.waits = {},
             D.copy = "none", strategy = "RoundRobin" => D.msgs = m2 /\ D.len = f2
      PROVE  Planned(strategy, ad, AddSteps(call, n + 1), B)
  <2>1. Done(strategy, ad, D)
    BY <1>1, <1>60, <1>9 DEF Done
  <2> QED
    BY <1>1, <1>9, <2>1 DEF Planned
<1>10. CASE call.kind = "flush"
  <2> DEFINE D == IF strategy = "RoundRobin" THEN Book(Base(strategy, B.msgs + 1), B.waits, B.msgs + 1, 0, "none") ELSE B
  <2>1. Moves(strategy, n + 1, B, FlushOf(Channels), D)
    BY <1>3, <1>4, FlushPlans
  <2>2. AddSteps(call, n + 1) = <<FlushOf(Channels)>>
    BY <1>10 DEF AddSteps
  <2>3. Runs(strategy, n + 1, B, AddSteps(call, n + 1), D)
    BY <2>1, <2>2, RunsOne
  <2>4. B.waits = {}
    <3>1. \A c \in Channels : c \notin B.waits
      BY <1>1, <1>8, <1>10 DEF ForOf
    <3> QED
      BY <1>3, <3>1, BookTypes
  <2>5. CASE strategy = "RoundRobin"
    <3>1. Base(strategy, B.msgs + 1) \in SUBSET Channels
      BY DEF Base
    <3>2. /\ D.open = Base(strategy, B.msgs + 1) /\ D.waits = {} /\ D.msgs = B.msgs + 1
          /\ D.len = 0 /\ D.copy = "none"
      BY <1>3, <2>4, <2>5, <3>1, BookIs
    <3>3. m2 = m + 1 /\ f2 = 0
      BY <1>6, <1>10
    <3> HIDE DEF D
    <3> QED
      BY <1>3, <1>7, <1>9, <2>3, <2>5, <3>2, <3>3
  <2>6. CASE strategy # "RoundRobin"
    <3>1. D = B
      BY <2>6
    <3> HIDE DEF D
    <3> QED
      BY <1>3, <1>4, <1>9, <2>3, <2>4, <2>6, <3>1
  <2> QED
    BY <2>5, <2>6
<1>11. CASE call.kind # "flush" /\ strategy = "Mute"
  <2>1. AddSteps(call, n + 1) = <<>>
    BY <1>11 DEF AddSteps
  <2>2. B.waits = {}
    <3>1. \A c \in Channels : c \notin B.waits
      BY <1>1, <1>8, <1>11 DEF ForOf
    <3> QED
      BY <1>3, <3>1, BookTypes
  <2>3. Runs(strategy, n + 1, B, AddSteps(call, n + 1), B)
    BY <2>1, RunsNowhere
  <2> QED
    BY <1>3, <1>4, <1>9, <1>11, <2>2, <2>3
<1>12. CASE call.kind = "marker" /\ strategy = "KeyBy"
  <2>1. AddSteps(call, n + 1) = <<PushAll(Channels, n + 1), FlushOf(Channels)>>
    BY <1>12 DEF AddSteps, KeyByAdd
  <2>2. B.waits = Channels
    <3>1. \A c \in Channels : c \in B.waits
      BY <1>1, <1>8, <1>12 DEF ForOf
    <3> QED
      BY <1>3, <3>1, BookTypes
  <2>3. B.open = Channels /\ Base(strategy, B.msgs) = Channels
    BY <1>3, <1>4, <1>12, BaseIs
  <2> DEFINE D == Book(Channels, {}, B.msgs, B.len, "none")
  <2>4. /\ D \in Books /\ D.open = Channels /\ D.waits = {} /\ D.msgs = B.msgs /\ D.len = B.len /\ D.copy = "none"
    BY <1>3, BookIs
  <2> HIDE DEF D
  <2>5. PushAllMoves(strategy, n + 1, B, PushAll(Channels, n + 1), D)
    BY <1>12, <2>2, <2>3, <2>4 DEF PushAllMoves, PushAll, Step
  <2>6. Moves(strategy, n + 1, B, PushAll(Channels, n + 1), D)
    BY <1>3, <2>4, <2>5, MovesOf
  <2>7. Moves(strategy, n + 1, D, FlushOf(Channels), D)
    BY <1>12, <2>3, <2>4, FlushPlans
  <2>8. Runs(strategy, n + 1, B, AddSteps(call, n + 1), D)
    BY <2>1, <2>6, <2>7, RunsTwo
  <2> QED
    BY <1>3, <1>9, <1>12, <2>3, <2>4, <2>8
<1>13. CASE call.kind # "flush" /\ strategy # "Mute" /\ ~ (call.kind = "marker" /\ strategy = "KeyBy")
  <2>30. PICK w : w = IF strategy = "KeyBy" THEN KeyIndex(call.key) ELSE 1
    OBVIOUS
  <2>3. PICK k \in Nat, len \in Nat :
          /\ k = IF strategy = "RoundRobin" /\ B.len = BufferSize THEN B.msgs + 1 ELSE B.msgs
          /\ len = IF strategy # "RoundRobin" THEN B.len ELSE IF B.len = BufferSize THEN 1 ELSE B.len + 1
    BY <1>3
  <2>31. strategy # "KeyBy" => Targets(strategy, k, w) = Base(strategy, k)
    BY DEF Targets
  <2>33. Fills(strategy, B, k, len)
    BY <2>3 DEF Fills
  <2>32. PICK D : D = Book(Base(strategy, k), {}, k, len, "none")
    OBVIOUS
  <2>1. AddSteps(call, n + 1) =
          IF call.kind = "marker" THEN <<Push(w, n + 1), FlushOf(Channels)>> ELSE <<Push(w, n + 1)>>
    BY <1>1, <1>2, <1>13, <2>30 DEF AddSteps, ForwardAdd, BroadcastAdd, RoundRobinAdd, KeyByAdd
  <2>2. strategy = "KeyBy" => w \in Channels /\ call.kind = "element"
    BY <1>1, <1>13, <2>30, KeyRangesCover
  <2>4. B.waits = Targets(strategy, k, w)
    <3>1. CASE strategy = "KeyBy"
      <4>1. Targets(strategy, k, w) = {w}
        BY <2>2, <2>3, <3>1, BaseIs
      <4>2. \A c \in Channels : c \in B.waits <=> w = c
        BY <1>1, <1>8, <1>13, <2>30, <3>1 DEF ForOf
      <4> QED
        BY <1>3, <2>2, <3>1, <4>1, <4>2, BookTypes
    <3>2. CASE strategy = "RoundRobin"
      <4>1. Targets(strategy, k, w) = {Turn(k)} /\ Turn(k) \in Channels
        BY <2>31, <3>2, BaseIs, TurnIs
      <4>2. \A c \in Channels : c \in B.waits <=> c = Turn(IF call.kind = "marker" THEN m2 - 1 ELSE m2)
        BY <1>1, <1>60, <1>8, <1>13, <3>2 DEF ForOf
      <4>3. k = IF call.kind = "marker" THEN m2 - 1 ELSE m2
        BY <1>1, <1>6, <1>7, <1>13, <2>3, <3>2
      <4> QED
        BY <1>3, <4>1, <4>2, <4>3, BookTypes
    <3>3. CASE strategy = "Forward"
      <4>1. Targets(strategy, k, w) = {1} /\ 1 \in Channels
        BY <2>3, <3>3, BaseIs, WriterFacts
      <4>2. \A c \in Channels : c \in B.waits <=> c = 1
        BY <1>1, <1>8, <1>13, <3>3 DEF ForOf
      <4> QED
        BY <1>3, <4>1, <4>2, BookTypes
    <3>4. CASE strategy = "Broadcast"
      <4>1. Targets(strategy, k, w) = Channels
        BY <2>31, <3>4, BaseIs
      <4>2. \A c \in Channels : c \in B.waits
        BY <1>1, <1>8, <1>13, <3>4 DEF ForOf
      <4> QED
        BY <1>3, <4>1, <4>2, BookTypes
    <3> QED
      BY <1>2, <1>13, <3>1, <3>2, <3>3, <3>4
  <2>50. AtRest(strategy, B)
    BY <1>3, <1>4 DEF AtRest
  <2>51. Pushed(strategy, n + 1, B, w, D, k, len)
    BY <2>32, <2>33, <2>4, <2>50, PushPlans
  <2>5. /\ D \in Books /\ Moves(strategy, n + 1, B, Push(w, n + 1), D)
        /\ D.open = Base(strategy, D.msgs) /\ D.waits = {} /\ D.copy = "none" /\ D.msgs = k /\ D.len = len
    BY <2>51 DEF Pushed, AtRest
  <2>6. strategy = "RoundRobin" => k = m + (IF f = BufferSize THEN 1 ELSE 0) /\ len = IF f = BufferSize THEN 1 ELSE f + 1
    BY <1>7, <2>3
  <2>7. CASE call.kind = "element"
    <3>1. Runs(strategy, n + 1, B, AddSteps(call, n + 1), D)
      <4>1. AddSteps(call, n + 1) = <<Push(w, n + 1)>>
        BY <2>1, <2>7
      <4> QED
        BY <2>5, <4>1, RunsOne
    <3>2. strategy = "RoundRobin" => D.msgs = m2 /\ D.len = f2
      BY <1>6, <2>5, <2>6, <2>7
    <3> QED
      BY <1>3, <1>9, <2>5, <3>1, <3>2
  <2>8. CASE call.kind = "marker"
    <3> DEFINE E == IF strategy = "RoundRobin" THEN Book(Base(strategy, D.msgs + 1), D.waits, D.msgs + 1, 0, "none") ELSE D
    <3>1. Moves(strategy, n + 1, D, FlushOf(Channels), E)
      BY <2>5, FlushPlans
    <3>2. Runs(strategy, n + 1, B, AddSteps(call, n + 1), E)
      <4>1. AddSteps(call, n + 1) = <<Push(w, n + 1), FlushOf(Channels)>>
        BY <2>1, <2>8
      <4> HIDE DEF E
      <4> QED
        BY <2>5, <3>1, <4>1, RunsTwo
    <3>3. CASE strategy = "RoundRobin"
      <4>1. Base(strategy, D.msgs + 1) \in SUBSET Channels
        BY DEF Base
      <4>2. /\ E.open = Base(strategy, D.msgs + 1) /\ E.waits = {} /\ E.msgs = D.msgs + 1
            /\ E.len = 0 /\ E.copy = "none"
        BY <2>3, <2>5, <3>3, <4>1, BookIs
      <4>3. m2 = k + 1 /\ f2 = 0
        BY <1>6, <2>6, <2>8, <3>3
      <4> HIDE DEF E
      <4> QED
        BY <1>3, <1>9, <2>5, <3>2, <3>3, <4>2, <4>3
    <3>4. CASE strategy # "RoundRobin"
      <4>1. E = D
        BY <3>4
      <4> HIDE DEF E
      <4> QED
        BY <1>3, <1>9, <2>5, <3>2, <3>4, <4>1
    <3> QED
      BY <3>3, <3>4
  <2> QED
    BY <1>1, <1>13, <2>7, <2>8
<1> QED
  BY <1>1, <1>3, <1>10, <1>11, <1>12, <1>13

\* The first of the calls that are left.
LEMMA PlannedTail ==
    ASSUME NEW str, NEW ad, NEW cs \in Seq(Steps), cs # <<>>, NEW A, Planned(str, ad, cs, A)
    PROVE  \E C : Moves(str, Len(ad), A, Head(cs), C) /\ Planned(str, ad, Tail(cs), C)
<1>1. PICK B : Runs(str, Len(ad), A, cs, B) /\ Done(str, ad, B)
  BY DEF Planned
<1>2. PICK C : Moves(str, Len(ad), A, Head(cs), C) /\ Runs(str, Len(ad), C, Tail(cs), B)
  BY <1>1, RunsTail
<1> QED
  BY <1>1, <1>2 DEF Planned

\* Other calls in front of them.
LEMMA PlannedConcat ==
    ASSUME NEW str, NEW ad, NEW s \in Seq(Steps), NEW t \in Seq(Steps), NEW A, NEW C,
           Runs(str, Len(ad), A, s, C), Planned(str, ad, t, C)
    PROVE  Planned(str, ad, s \o t, A)
<1>1. PICK B : Runs(str, Len(ad), C, t, B) /\ Done(str, ad, B)
  BY DEF Planned
<1>2. Runs(str, Len(ad), A, s \o t, B)
  BY <1>1, RunsConcat
<1> QED
  BY <1>1, <1>2 DEF Planned

\* Another first call.
LEMMA PlannedFirst ==
    ASSUME NEW str, NEW ad, NEW cs \in Seq(Steps), cs # <<>>, NEW A, NEW C,
           Moves(str, Len(ad), A, Head(cs), C), Planned(str, ad, Tail(cs), C)
    PROVE  Planned(str, ad, cs, A)
<1>1. Runs(str, Len(ad), A, <<Head(cs)>>, C)
  BY RunsOne
<1>2. <<Head(cs)>> \in Seq(Steps) /\ Tail(cs) \in Seq(Steps) /\ cs = <<Head(cs)>> \o Tail(cs)
  OBVIOUS
<1>3. Planned(str, ad, <<Head(cs)>> \o Tail(cs), A)
  BY <1>1, <1>2, PlannedConcat
<1> QED
  BY <1>2, <1>3

\* The writer of a push, and what its buffer has.
LEMMA PushWriter ==
    ASSUME TypeOK, Running("push")
    PROVE  /\ Head(calls).writer \in Channels /\ (strategy # "KeyBy" => Head(calls).writer = 1)
           /\ writer[Head(calls).writer].len \in 0..BufferSize
<1>1. /\ Head(calls) \in Steps /\ Head(calls).op = "push"
      /\ writer[Head(calls).writer] \in [buffer : Buffers, len : 0..BufferSize]
  BY HeadType
<1>2. Head(calls).writer \in Writers \ {Copier}
  BY <1>1 DEF Steps
<1>3. strategy # "KeyBy" => Writers = {Copier, 1}
  BY DEF Writers
<1>4. strategy = "KeyBy" => Channels = Writers \ {Copier}
  BY WriterFacts
<1> QED
  BY <1>1, <1>2, <1>3, <1>4, WriterFacts

\* KeyBy sends one of its buffers and gets another one.
LEMMA RangePlans ==
    ASSUME NEW e, NEW A \in Books, A.copy = "none", NEW w \in A.open
    PROVE  Runs("KeyBy", e, A, <<Send(w, w), Get(w)>>, A)
<1>1. A.open \in SUBSET Channels /\ A.waits \in SUBSET Channels /\ A.msgs \in Nat /\ A.len \in Nat /\ w # Copier
  BY BookTypes DEF Channels, Copier
<1>2. PICK D : D = Book(A.open \ {w}, A.waits, A.msgs, A.len, "none")
  OBVIOUS
<1>3. /\ D \in Books /\ D.open = A.open \ {w} /\ D.waits = A.waits /\ D.msgs = A.msgs /\ D.len = A.len
      /\ D.copy = "none"
  <2>1. A.open \ {w} \in SUBSET Channels
    BY <1>1
  <2> QED
    BY <1>1, <1>2, <2>1, BookIs
<1>4. SendMoves("KeyBy", A, Send(w, w), D)
  BY <1>1, <1>3 DEF SendMoves, Send, Step, WriterOf
<1>5. GetMoves("KeyBy", D, Get(w), A)
  <2>1. Targets("KeyBy", D.msgs, w) = {w}
    BY <1>1, <1>3, BaseIs
  <2>2. A.open = D.open \cup {w}
    BY <1>3
  <2> QED
    BY <1>1, <1>3, <2>1, <2>2 DEF GetMoves, Get, Step, WriterOf
<1>6. Moves("KeyBy", e, A, Send(w, w), D) /\ Moves("KeyBy", e, D, Get(w), A)
  BY <1>3, <1>4, <1>5, MovesOf
<1> QED
  BY <1>6, RunsTwo

\* The other strategies send their buffer, to the channel that is open, and get
\* another one.
Sent1(str, A, B) ==
    /\ B \in Books /\ B.open = Base(str, B.msgs) /\ B.waits = A.waits /\ B.copy = "none"
    /\ B.msgs = IF str = "RoundRobin" THEN A.msgs + 1 ELSE A.msgs
    /\ B.len = IF str = "RoundRobin" THEN 0 ELSE A.len

\* So they do.
LEMMA OnePlans ==
    ASSUME NEW str, str # "KeyBy", NEW e, NEW A \in Books, A.copy = "none", NEW c \in Channels, A.open = {c},
           NEW B, Sent1(str, A, B)
    PROVE  Runs(str, e, A, <<Send(1, c), Get(1)>>, B)
<1>1. A.open \in SUBSET Channels /\ A.waits \in SUBSET Channels /\ A.msgs \in Nat /\ A.len \in Nat /\ 1 # Copier
  BY BookTypes DEF Copier
<1>2. PICK m \in Nat : m = IF str = "RoundRobin" THEN A.msgs + 1 ELSE A.msgs
  BY <1>1
<1>3. PICK D : D = Book({}, A.waits, m, A.len, "none")
  OBVIOUS
<1>4. /\ D \in Books /\ D.open = {} /\ D.waits = A.waits /\ D.msgs = m /\ D.len = A.len /\ D.copy = "none"
  BY <1>1, <1>3, BookIs
<1>5. SendMoves(str, A, Send(1, c), D)
  BY <1>1, <1>2, <1>4 DEF SendMoves, Send, Step, WriterOf
<1>6. B \in Books /\ B.open = Base(str, m) /\ B.waits = A.waits /\ B.copy = "none" /\ B.msgs = m
  BY <1>2 DEF Sent1
<1>7. GetMoves(str, D, Get(1), B)
  <2>1. Targets(str, D.msgs, 1) = Base(str, m)
    BY <1>4 DEF Targets
  <2> QED
    BY <1>1, <1>4, <1>6, <2>1 DEF GetMoves, Get, Step, Sent1
<1>8. Moves(str, e, A, Send(1, c), D) /\ Moves(str, e, D, Get(1), B)
  BY <1>4, <1>5, <1>6, <1>7, MovesOf
<1> QED
  BY <1>8, RunsTwo

\* Broadcast's next copy.
LEMMA CopyPlans ==
    ASSUME NEW e, NEW A \in Books, A.copy = "none", A.open # {N}, N \in A.open, NEW c \in First(A.open), NEW B,
           Sent1("Broadcast", A, B)
    PROVE  Runs("Broadcast", e, A, CopyTo(c, A.open), B)
<1>1. A.open \in SUBSET Channels /\ A.waits \in SUBSET Channels /\ A.msgs \in Nat /\ A.len \in Nat
  BY BookTypes
<1>2. c \in A.open /\ c \in Channels /\ c # N
  <2>1. c \in A.open /\ \A d \in A.open : c <= d
    BY DEF First
  <2>2. \A d \in Channels : d \in Nat /\ d <= N
    BY StrategyAssumption DEF Channels
  <2>3. ASSUME c = N PROVE FALSE
    <3>1. \A d \in A.open : d = N
      BY <1>1, <2>1, <2>2, <2>3
    <3> QED
      BY <3>1
  <2> QED
    BY <1>1, <2>1, <2>3
<1>3. PICK D, E : /\ D = Book(A.open, A.waits, A.msgs, A.len, "made")
                  /\ E = Book(A.open \ {c}, A.waits, A.msgs, A.len, "none")
  OBVIOUS
<1>4. /\ D \in Books /\ D.open = A.open /\ D.waits = A.waits /\ D.msgs = A.msgs /\ D.len = A.len
      /\ D.copy = "made"
  BY <1>1, <1>3, BookIs
<1>5. /\ E \in Books /\ E.open = A.open \ {c} /\ E.waits = A.waits /\ E.msgs = A.msgs /\ E.len = A.len
      /\ E.copy = "none"
  <2>1. A.open \ {c} \in SUBSET Channels
    BY <1>1
  <2> QED
    BY <1>1, <1>3, <2>1, BookIs
<1>6. GetMoves("Broadcast", A, Get(Copier), A)
  BY DEF GetMoves, Get, Step
<1>7. CopyMoves("Broadcast", A, D)
  BY <1>2, <1>4 DEF CopyMoves
<1>8. SendMoves("Broadcast", D, Send(Copier, c), E)
  BY <1>2, <1>4, <1>5 DEF SendMoves, Send, Step
<1>9. FlushMoves("Broadcast", E, FlushOf(A.open \ {c}), B)
  BY <1>2, <1>5 DEF FlushMoves, FlushOf, Step, Sent1
<1>10. /\ Moves("Broadcast", e, A, Get(Copier), A) /\ Moves("Broadcast", e, A, Copy, D)
       /\ Moves("Broadcast", e, D, Send(Copier, c), E)
  BY <1>4, <1>5, <1>6, <1>7, <1>8, MovesOf
<1>11. Moves("Broadcast", e, E, FlushOf(A.open \ {c}), B)
  BY <1>5, <1>9, MovesOf DEF Sent1
<1> QED
  BY <1>10, <1>11, RunsFour DEF CopyTo

\* A full buffer is flushed first.
LEMMA FullPlans ==
    ASSUME TypeOK, NEW A, Planned(strategy, added, calls, A), PushIsFull,
           strategy = "RoundRobin" => (A.open # {} => writer[1].len = A.len)
    PROVE  Planned(strategy, added, calls', A)
<1>1. calls \in Seq(Steps) /\ calls # <<>> /\ Running("push")
  BY DEF TypeOK, PushIsFull, Running
<1>2. PICK B : Moves(strategy, Len(added), A, Head(calls), B) /\ Planned(strategy, added, Tail(calls), B)
  BY <1>1, PlannedTail
<1>3. PICK w : w = Head(calls).writer
  OBVIOUS
<1>4. /\ Head(calls).op = "push" /\ writer[w].len >= BufferSize /\ calls' = FlushFull(w) \o calls
  BY <1>3 DEF PushIsFull, Running
<1>5. w \in Channels /\ (strategy # "KeyBy" => w = 1) /\ writer[w].len \in 0..BufferSize
  BY <1>1, <1>3, PushWriter
<1>6. /\ PushMoves(strategy, Len(added), A, Head(calls), B) /\ A \in Books /\ B \in Books
      /\ A.copy = "none" /\ B.copy = "none"
  BY <1>2, <1>4 DEF Moves
<1>7. /\ A.open = Base(strategy, A.msgs) /\ A.msgs \in Nat /\ A.len \in Nat
      /\ A.open \in SUBSET Channels /\ A.waits \in SUBSET Channels
  BY <1>6, BookTypes DEF PushMoves
<1>8. CASE strategy = "KeyBy"
  <2>1. FlushFull(w) = <<Send(w, w), Get(w)>> /\ FlushFull(w) \in Seq(Steps)
    <3>1. w \in Writers
      BY <1>5, <1>8, WriterFacts
    <3>2. Send(w, w) \in Steps /\ Get(w) \in Steps
      BY <1>5, <3>1, StepTypes
    <3> QED
      BY <1>8, <3>2 DEF FlushFull, FlushBuffer
  <2>2. w \in A.open
    BY <1>5, <1>7, <1>8, BaseIs
  <2>3. Runs(strategy, Len(added), A, FlushFull(w), A)
    BY <1>6, <1>8, <2>1, <2>2, RangePlans
  <2> QED
    BY <1>1, <1>4, <2>1, <2>3, PlannedConcat
<1>9. CASE strategy # "KeyBy"
  <2>1. FlushFull(w) = <<FlushOf(Channels)>> /\ FlushFull(w) \in Seq(Steps)
    <3>1. FlushOf(Channels) \in Steps
      BY StepTypes
    <3> QED
      BY <1>9, <3>1 DEF FlushFull
  <2>2. PICK D : D = IF strategy = "RoundRobin" THEN Book(Base(strategy, A.msgs + 1), A.waits, A.msgs + 1, 0, "none") ELSE A
    OBVIOUS
  <2>3. D \in Books /\ Moves(strategy, Len(added), A, FlushOf(Channels), D)
    BY <1>6, <1>7, <2>2, FlushPlans
  <2>4. Runs(strategy, Len(added), A, FlushFull(w), D)
    BY <2>1, <2>3, RunsOne
  <2>5. Planned(strategy, added, calls, D)
    <3>1. CASE strategy = "RoundRobin"
      <4>1. Base(strategy, A.msgs + 1) \in SUBSET Channels
        BY DEF Base
      <4>2. /\ D.open = Base(strategy, A.msgs + 1) /\ D.waits = A.waits /\ D.msgs = A.msgs + 1
            /\ D.len = 0 /\ D.copy = "none"
        BY <1>7, <2>2, <3>1, <4>1, BookIs
      <4>3. A.len = BufferSize
        <5>1. A.open # {}
          BY <1>7, BaseIs
        <5>2. writer[1].len = A.len /\ w = 1
          BY <1>5, <3>1, <5>1
        <5> QED
          BY <1>4, <1>5, <5>2, PoolAssumption
      <4>4. PushMoves(strategy, Len(added), D, Head(calls), B)
        BY <1>6, <3>1, <4>2, <4>3, PoolAssumption DEF PushMoves
      <4>5. Moves(strategy, Len(added), D, Head(calls), B)
        BY <1>4, <1>6, <2>3, <4>2, <4>4 DEF Moves
      <4> QED
        BY <1>1, <1>2, <4>5, PlannedFirst
    <3>2. CASE strategy # "RoundRobin"
      BY <2>2, <3>2
    <3> QED
      BY <3>1, <3>2
  <2> QED
    BY <1>1, <1>4, <2>1, <2>4, <2>5, PlannedConcat
<1> QED
  BY <1>8, <1>9

\* KeyBy's loop over its buffers.
LEMMA LoopPlans ==
    ASSUME TypeOK, NEW A, Planned(strategy, added, calls, A), PushToNext
    PROVE  Planned(strategy, added, calls', A)
<1>1. calls \in Seq(Steps) /\ calls # <<>> /\ Running("push_all")
  BY DEF TypeOK, PushToNext, Running
<1>2. PICK B : Moves(strategy, Len(added), A, Head(calls), B) /\ Planned(strategy, added, Tail(calls), B)
  BY <1>1, PlannedTail
<1>3. PICK left, e : left = Head(calls).left /\ e = Head(calls).event
  OBVIOUS
<1>4. left \in SUBSET Channels /\ e \in Event /\ Tail(calls) \in Seq(Steps) /\ Head(calls).op = "push_all"
  BY <1>1, <1>3, HeadType
<1>5. /\ PushAllMoves(strategy, Len(added), A, Head(calls), B) /\ A \in Books /\ B \in Books
      /\ A.copy = "none" /\ B.copy = "none"
  BY <1>2, <1>4 DEF Moves
<1>6. /\ strategy = "KeyBy" /\ e = Len(added) /\ A.open = Channels /\ left \subseteq A.waits
      /\ B.open = A.open /\ B.waits = A.waits \ left /\ B.msgs = A.msgs /\ B.len = A.len
  BY <1>3, <1>5 DEF PushAllMoves
<1>7. A.msgs \in Nat /\ A.len \in Nat /\ A.waits \in SUBSET Channels
  BY <1>5, BookTypes
<1>8. CASE left = {} /\ calls' = Tail(calls)
  <2>1. A.waits \ left = A.waits
    BY <1>8
  <2>2. A = B
    BY <1>5, <1>6, <2>1, SameBooks
  <2> QED
    BY <1>2, <1>8, <2>2
<1>9. ASSUME NEW w \in left, calls' = <<Push(w, e), PushAll(left \ {w}, e)>> \o Tail(calls)
      PROVE  Planned(strategy, added, calls', A)
  <2>1. PICK D : D = Book(A.open, A.waits \ {w}, A.msgs, A.len, "none")
    OBVIOUS
  <2>2. /\ D \in Books /\ D.open = A.open /\ D.waits = A.waits \ {w} /\ D.msgs = A.msgs /\ D.len = A.len
        /\ D.copy = "none"
    <3>1. A.waits \ {w} \in SUBSET Channels /\ A.open \in SUBSET Channels
      BY <1>6, <1>7
    <3> QED
      BY <1>7, <2>1, <3>1, BookIs
  <2>3. Base(strategy, A.msgs) = Channels /\ Targets(strategy, A.msgs, w) = {w}
    BY <1>4, <1>6, <1>7, BaseIs
  <2>4. PushMoves(strategy, Len(added), A, Push(w, e), D)
    BY <1>6, <2>2, <2>3 DEF PushMoves, Push, Step
  <2>5. PushAllMoves(strategy, Len(added), D, PushAll(left \ {w}, e), B)
    <3>1. left \ {w} \subseteq A.waits \ {w} /\ (A.waits \ {w}) \ (left \ {w}) = A.waits \ left
      BY <1>6
    <3> QED
      BY <1>6, <2>2, <3>1 DEF PushAllMoves, PushAll, Step
  <2>6. /\ Moves(strategy, Len(added), A, Push(w, e), D)
        /\ Moves(strategy, Len(added), D, PushAll(left \ {w}, e), B)
    BY <1>5, <1>6, <2>2, <2>4, <2>5, MovesOf
  <2>7. Runs(strategy, Len(added), A, <<Push(w, e), PushAll(left \ {w}, e)>>, B)
    BY <2>6, RunsTwo
  <2>8. <<Push(w, e), PushAll(left \ {w}, e)>> \in Seq(Steps)
    <3>1. w \in Writers \ {Copier} /\ left \ {w} \in SUBSET Channels
      BY <1>4, <1>6, WriterFacts
    <3>2. Push(w, e) \in Steps /\ PushAll(left \ {w}, e) \in Steps
      BY <1>4, <1>6, <3>1, StepTypes
    <3> QED
      BY <3>2
  <2> QED
    BY <1>2, <1>4, <1>9, <2>7, <2>8, PlannedConcat
<1> QED
  BY <1>3, <1>8, <1>9 DEF PushToNext

\* A flush that starts does what was planned of it.
LEMMA FlushesPlan ==
    ASSUME TypeOK, NEW A, Planned(strategy, added, calls, A), Flush,
           strategy = "RoundRobin" => curr_index = Turn(A.msgs)
    PROVE  Planned(strategy, added, calls', A)
<1>1. calls \in Seq(Steps) /\ calls # <<>> /\ Running("flush")
  BY DEF TypeOK, Flush, Running
<1>2. PICK B : Moves(strategy, Len(added), A, Head(calls), B) /\ Planned(strategy, added, Tail(calls), B)
  BY <1>1, PlannedTail
<1>3. PICK left \in SUBSET Channels : left = Head(calls).left
  BY <1>1, HeadType
<1>4. PICK p \in FlushSteps(left) : calls' = p \o Tail(calls)
  BY <1>3 DEF Flush
<1>5. Tail(calls) \in Seq(Steps) /\ Head(calls).op = "flush"
  BY <1>1, HeadType
<1>6. /\ FlushMoves(strategy, A, Head(calls), B) /\ A \in Books /\ B \in Books
      /\ A.copy = "none" /\ B.copy = "none"
  BY <1>2, <1>5 DEF Moves
<1>7. strategy \in Strategies /\ curr_index \in Channels
      /\ strategy \in {"Forward", "Broadcast", "RoundRobin", "KeyBy", "Mute"}
  BY StrategyAssumption DEF TypeOK
<1>8. p \in Seq(Steps)
  BY <1>7, FlushStepsType
<1>9. A.msgs \in Nat /\ A.len \in Nat /\ A.waits \in SUBSET Channels
  BY <1>6, BookTypes
<1>10. Sent1(strategy, A, B)
  BY <1>6 DEF FlushMoves, Sent1
<1>11. /\ strategy = "Broadcast" => A.open = left /\ N \in left
       /\ strategy # "Broadcast" => A.open = Base(strategy, A.msgs)
  BY <1>3, <1>6 DEF FlushMoves
<1>12. strategy \in {"KeyBy", "Mute"} => A = B
  <2>1. strategy \in {"KeyBy", "Mute"} => A.open = B.open /\ A.waits = B.waits /\ A.msgs = B.msgs /\ A.len = B.len
    BY <1>10, <1>11 DEF Sent1
  <2> QED
    BY <1>6, <2>1, SameBooks
<1>13. Runs(strategy, Len(added), A, p, B)
  <2>1. CASE strategy = "Forward"
    <3>1. p = <<Send(1, 1), Get(1)>> /\ A.open = {1} /\ 1 \in Channels
      BY <1>4, <1>9, <1>11, <2>1, BaseIs, WriterFacts DEF FlushSteps, ForwardFlush
    <3> QED
      BY <1>6, <1>10, <2>1, <3>1, OnePlans
  <2>2. CASE strategy = "RoundRobin"
    <3>1. p = <<Send(1, curr_index), Get(1)>>
      BY <2>2 DEF FlushSteps, RoundRobinFlush
    <3>2. A.open = {curr_index}
      BY <1>9, <1>11, <2>2, BaseIs
    <3> QED
      BY <1>6, <1>7, <1>10, <2>2, <3>1, <3>2, OnePlans
  <2>3. CASE strategy = "Broadcast"
    <3>1. p \in BroadcastFlush(left)
      BY <2>3 DEF FlushSteps
    <3>2. CASE left = {N}
      <4>1. p = <<Send(1, N), Get(1)>> /\ A.open = {N} /\ N \in Channels
        BY <1>11, <2>3, <3>1, <3>2, WriterFacts DEF BroadcastFlush
      <4> QED
        BY <1>6, <1>10, <2>3, <4>1, OnePlans
    <3>3. CASE left # {N}
      <4>1. PICK c \in First(left) : p = CopyTo(c, left)
        BY <3>1, <3>3 DEF BroadcastFlush
      <4>2. A.open = left /\ N \in left
        BY <1>11, <2>3
      <4> QED
        BY <1>6, <1>10, <2>3, <3>3, <4>1, <4>2, CopyPlans
    <3> QED
      BY <3>2, <3>3
  <2>4. CASE strategy = "Mute"
    <3>1. p = <<>>
      BY <2>4 DEF FlushSteps
    <3> QED
      BY <1>12, <2>4, <3>1, RunsNowhere
  <2>5. CASE strategy = "KeyBy"
    <3>1. p \in KeyByFlush(left)
      BY <2>5 DEF FlushSteps
    <3>2. CASE left = {}
      <4>1. p = <<>>
        BY <3>1, <3>2 DEF KeyByFlush
      <4> QED
        BY <1>12, <2>5, <4>1, RunsNowhere
    <3>3. CASE left # {}
      <4>1. PICK w \in left : p = Append(FlushBuffer(w), FlushOf(left \ {w}))
        BY <3>1, <3>3 DEF KeyByFlush
      <4>2. w \in A.open /\ w \in Writers /\ w \in Channels
        BY <1>9, <1>11, <2>5, BaseIs, WriterFacts
      <4>3. Runs(strategy, Len(added), A, <<Send(w, w), Get(w)>>, A)
        BY <1>6, <2>5, <4>2, RangePlans
      <4>4. Moves(strategy, Len(added), A, FlushOf(left \ {w}), B)
        <5>1. FlushMoves(strategy, A, FlushOf(left \ {w}), B)
          BY <1>6, <2>5 DEF FlushMoves
        <5> QED
          BY <1>6, <5>1, MovesOf
      <4>5. Runs(strategy, Len(added), A, <<FlushOf(left \ {w})>>, B)
        BY <4>4, RunsOne
      <4>6. Send(w, w) \in Steps /\ Get(w) \in Steps /\ FlushOf(left \ {w}) \in Steps
        <5>1. left \ {w} \in SUBSET Channels
          OBVIOUS
        <5> QED
          BY <4>2, <5>1, StepTypes
      <4>7. PICK a \in Steps, b \in Steps, f \in Steps : a = Send(w, w) /\ b = Get(w) /\ f = FlushOf(left \ {w})
        BY <4>6
      <4>8. Runs(strategy, Len(added), A, <<a, b>> \o <<f>>, B)
        <5>1. <<a, b>> \in Seq(Steps) /\ <<f>> \in Seq(Steps)
          OBVIOUS
        <5> QED
          BY <4>3, <4>5, <4>7, <5>1, RunsConcat
      <4>9. p = <<a, b>> \o <<f>>
        <5>1. FlushBuffer(w) = <<a, b>>
          BY <4>7 DEF FlushBuffer
        <5>2. <<a, b>> \in Seq(Steps)
          OBVIOUS
        <5>3. Append(<<a, b>>, f) = <<a, b>> \o <<f>>
          BY <5>2, AppendIsConcat
        <5> QED
          BY <4>1, <4>7, <5>1, <5>3
      <4> QED
        BY <4>8, <4>9
    <3> QED
      BY <3>2, <3>3
  <2> QED
    BY <1>7, <2>1, <2>2, <2>3, <2>4, <2>5
<1> QED
  BY <1>2, <1>4, <1>5, <1>8, <1>13, PlannedConcat

-----------------------------------------------------------------------------
(* The books are right about the state, and every channel's events are on    *)
(* its line.                                                                 *)

\* The Copier has what writer 1 has.
CopyIs(S, str, mem, wr) ==
    /\ str = "Broadcast" /\ Copier \in S /\ 1 \in S /\ wr[Copier].len = wr[1].len
    /\ SameTail(mem, wr[1].buffer, mem, wr[Copier].buffer, wr[1].len)

\* RoundRobin's index and its buffer.
TurnsAre(A, str, wr, ci, pan) ==
    str = "RoundRobin" => (~ pan => ci = Turn(A.msgs)) /\ (A.open # {} => wr[1].len = A.len)

\* The event that is being added waits for channels that it is for.
WaitsAre(A, str, ad, lo) ==
    /\ \A c \in A.waits : Len(ad) \in WantOf(ad, str, lo[c], c)
    /\ \A c \in Channels : lo[c] \subseteq DOMAIN ad
OpenAre(S, A, str) == \A c \in A.open : WriterOf(str, c) \in S

Ready(S, A) ==
    /\ A \in Books /\ OpenAre(S, A, strategy)
    /\ A.copy = "made" => CopyIs(S, strategy, memory, writer)
    /\ TurnsAre(A, strategy, writer, curr_index, panicked)
    /\ WaitsAre(A, strategy, added, lost)

\* What channel c's line ends with, and the events on it.
TailLen(A, str, wr, c) == IF c \in A.open THEN wr[WriterOf(str, c)].len ELSE 0
WantNow(A, str, ad, lo, c) ==
    WantOf(ad, str, lo[c], c) \ (IF c \in A.waits THEN {Len(ad)} ELSE {})
HasLine(A, str, ad, lo, rc, mb, mem, wr, c) ==
    OnLine(rc[c], mb[c], mem, wr[WriterOf(str, c)].buffer, TailLen(A, str, wr, c), WantNow(A, str, ad, lo, c))
Lines(A) ==
    \A c \in Channels : HasLine(A, strategy, added, lost, received, mailbox, memory, writer, c)

LineAt(S, A) == Planned(strategy, added, calls, A) /\ Ready(S, A) /\ Lines(A)

\* A step of the sender that changes only what is left to do.
LEMMA LineOfCalls ==
    ASSUME NEW S, NEW A, LineAt(S, A), Planned(strategy, added, calls', A),
           UNCHANGED <<strategy, memory, writer, curr_index, panicked, mailbox, received, added, lost>>
    PROVE  LineAt(S, A)'
<1>1. Planned(strategy, added, calls, A)'
  OBVIOUS
<1>2. Ready(S, A)'
  BY DEF LineAt, Ready
<1>3. Lines(A)'
  BY DEF LineAt, Lines
<1> QED
  BY <1>1, <1>2, <1>3 DEF LineAt

\* A full buffer, KeyBy's loop, and the flushes.
LEMMA CallsKeepLines ==
    ASSUME TypeOK, NEW S, NEW A, LineAt(S, A), PushIsFull \/ PushToNext \/ Flush
    PROVE  LineAt(S, A)'
<1>1. UNCHANGED <<strategy, memory, writer, curr_index, panicked, mailbox, received, added, lost>> /\ ~ panicked
  BY DEF PushIsFull, PushToNext, Flush, sender, pool, Running
<1>2. /\ strategy = "RoundRobin" => curr_index = Turn(A.msgs)
      /\ strategy = "RoundRobin" => (A.open # {} => writer[1].len = A.len)
      /\ Planned(strategy, added, calls, A)
  BY <1>1 DEF LineAt, Ready, TurnsAre
<1>3. Planned(strategy, added, calls', A)
  BY <1>2, FullPlans, LoopPlans, FlushesPlan
<1> QED
  BY <1>1, <1>3, LineOfCalls

\* One call more is wanted by the channels it is for.
WantsGrow(ad, ad2, str, lo, c) ==
    /\ WantOf(ad2, str, lo, c) =
          WantOf(ad, str, lo, c) \cup (IF c \in ForNew(ad2, str) THEN {Len(ad2)} ELSE {})
    /\ Len(ad2) = Len(ad) + 1 /\ Len(ad2) \notin WantOf(ad, str, lo, c)
    /\ lo \subseteq DOMAIN ad2

\* So it is after a call of add.
LEMMA WantsMore ==
    ASSUME NEW ad \in Seq(Call), NEW x \in Call, NEW ad2, ad2 = Append(ad, x), NEW str, NEW c \in Channels, NEW lo,
           lo \subseteq DOMAIN ad
    PROVE  WantsGrow(ad, ad2, str, lo, c)
<1>1. PICK n \in Nat : n = Len(ad)
  OBVIOUS
<1>2. Len(ad2) = n + 1 /\ DOMAIN ad2 = (1..n) \cup {n + 1} /\ DOMAIN ad = 1..n /\ n + 1 \notin 1..n
  BY <1>1
<1>3. \A k \in 1..n : ForOf(ad2, str, k, c) <=> ForOf(ad, str, k, c)
  BY <1>1, EarlierCalls
<1>4. c \in ForNew(ad2, str) <=> ForOf(ad2, str, n + 1, c)
  BY <1>2 DEF ForNew
<1>5. n + 1 \notin lo
  BY <1>2
<1> QED
  BY <1>1, <1>2, <1>3, <1>4, <1>5 DEF WantOf, WantsGrow

\* A call of add or flush.
LEMMA AddKeepsLines ==
    ASSUME TypeOK, NEW S, NEW A, LineAt(S, A), NEW call \in Call, Add(call)
    PROVE  \E B : LineAt(S, B)'
<1>1. /\ UNCHANGED <<strategy, memory, writer, curr_index, panicked, mailbox, received, lost>>
      /\ calls = <<>> /\ added' = Append(added, call) /\ calls' = AddSteps(call, Len(added) + 1)
      /\ strategy \in Strategies /\ added \in Seq(Call)
  BY DEF Add, Idle, sender, pool, TypeOK
<1>2. PICK n \in Nat : n = Len(added)
  BY <1>1
<1>3. PICK ad : ad = Append(added, call)
  OBVIOUS
<1>4. A \in Books /\ Done(strategy, added, A)
  <2>1. PICK D : Runs(strategy, Len(added), A, calls, D) /\ Done(strategy, added, D)
    BY DEF LineAt, Planned
  <2>2. A = D
    BY <1>1, <2>1, RunsNowhere
  <2> QED
    BY <2>1, <2>2 DEF LineAt, Ready
<1>5. PICK B : B = Book(A.open, ForNew(ad, strategy), A.msgs, A.len, "none")
  OBVIOUS
<1>6. B \in Books /\ Planned(strategy, ad, AddSteps(call, n + 1), B)
  BY <1>1, <1>2, <1>3, <1>4, <1>5, AddPlans
<1>7. /\ B.open = A.open /\ B.waits = ForNew(ad, strategy) /\ B.msgs = A.msgs
      /\ B.len = A.len /\ B.copy = "none"
  <2>1. ForNew(ad, strategy) \in SUBSET Channels
    BY DEF ForNew
  <2> QED
    BY <1>4, <1>5, <2>1, BookIs, BookTypes
<1>8. A.waits = {} /\ A.copy = "none"
  BY <1>4 DEF Done
<1>9. ASSUME NEW c \in Channels
      PROVE  /\ WantOf(ad, strategy, lost[c], c) =
                   WantOf(added, strategy, lost[c], c) \cup (IF c \in B.waits THEN {Len(ad)} ELSE {})
             /\ Len(ad) \notin WantOf(added, strategy, lost[c], c) /\ lost[c] \subseteq DOMAIN ad
  <2>1. lost[c] \subseteq DOMAIN added
    BY DEF LineAt, Ready, WaitsAre
  <2> QED
    <3>1. WantsGrow(added, ad, strategy, lost[c], c)
      BY <1>1, <1>3, <2>1, WantsMore
    <3> QED
      BY <1>7, <3>1 DEF WantsGrow
<1>10. Planned(strategy, added, calls, B)'
  BY <1>1, <1>2, <1>3, <1>6
<1>11. Ready(S, B)'
  <2>1. OpenAre(S, B, strategy)
    BY <1>7 DEF LineAt, Ready, OpenAre
  <2>2. TurnsAre(B, strategy, writer, curr_index, panicked)
    BY <1>7 DEF LineAt, Ready, TurnsAre
  <2>3. WaitsAre(B, strategy, ad, lost)
    <3>1. B.waits \subseteq Channels
      BY <1>6, BookTypes
    <3> QED
      BY <1>9, <3>1 DEF WaitsAre
  <2> QED
    BY <1>1, <1>3, <1>6, <1>7, <2>1, <2>2, <2>3 DEF Ready
<1>12. Lines(B)'
  <2>1. ASSUME NEW c \in Channels PROVE HasLine(B, strategy, ad, lost, received, mailbox, memory, writer, c)
    <3>1. HasLine(A, strategy, added, lost, received, mailbox, memory, writer, c)
      BY DEF LineAt, Lines
    <3>2. TailLen(B, strategy, writer, c) = TailLen(A, strategy, writer, c)
      BY <1>7 DEF TailLen
    <3>3. WantNow(B, strategy, ad, lost, c) = WantNow(A, strategy, added, lost, c)
      BY <1>8, <1>9 DEF WantNow
    <3> QED
      BY <3>1, <3>2, <3>3 DEF HasLine
  <2> QED
    BY <1>1, <1>3, <2>1 DEF Lines
<1> QED
  BY <1>10, <1>11, <1>12 DEF LineAt

\* The parts of a channel have their types.
LEMMA ChannelTypes ==
    ASSUME TypeOK, NEW c \in Channels
    PROVE  /\ received[c] \in Seq(Event) /\ mailbox[c] \in Seq(Message)
           /\ \A i \in DOMAIN mailbox[c] :
                mailbox[c][i].buffer # NoBuffer => mailbox[c][i].buffer \in Buffers
           /\ WriterOf(strategy, c) \in Own
           /\ \A A : TailLen(A, strategy, writer, c) \in Nat
<1>1. received[c] \in Seq(Event) /\ mailbox[c] \in Seq(Message)
  BY DEF TypeOK
<1>2. \A i \in DOMAIN mailbox[c] : mailbox[c][i].buffer # NoBuffer => mailbox[c][i].buffer \in Buffers
  BY MessageBuffers DEF TypeOK
<1>3. WriterOf(strategy, c) \in Own
  BY WriterFacts DEF WriterOf, Own
<1>4. writer[WriterOf(strategy, c)].len \in 0..BufferSize
  BY <1>3 DEF TypeOK, Own
<1>5. 0..BufferSize \subseteq Nat
  BY PoolAssumption
<1> QED
  BY <1>1, <1>2, <1>3, <1>4, <1>5 DEF TailLen

\* EventBuffer::push.
LEMMA PushKeepsLines ==
    ASSUME TypeOK, NEW S, Follows(S), Holds(S, free, writer, mailbox), NEW A, LineAt(S, A), PushEvent
    PROVE  \E B : LineAt(S, B)'
<1>1. /\ UNCHANGED <<strategy, curr_index, panicked, mailbox, received, added, lost>> /\ calls' = Tail(calls)
      /\ calls \in Seq(Steps) /\ calls # <<>> /\ Head(calls).op = "push" /\ Running("push") /\ ~ panicked
  BY FirstCall DEF PushEvent, Running
<1>2. PICK w \in Channels : w = Head(calls).writer /\ (strategy # "KeyBy" => w = 1)
  BY <1>1, PushWriter
<1>3. w \in Own /\ S = Own /\ w \in Writers
  <2>1. PICK C : Changes(Own, S, Head(calls), C)
    BY RunningFacts DEF PushEvent
  <2> QED
    BY <1>1, <1>2, <2>1 DEF Changes, Own
<1>4. PICK b \in Buffers, n \in 0..BufferSize : b = writer[w].buffer /\ n = writer[w].len
  BY <1>3 DEF TypeOK
<1>5. PICK at : at = n + 1
  OBVIOUS
<1>6. at \in 1..BufferSize /\ n \in Nat /\ n # BufferSize
  <2>1. writer[w].len + 1 <= BufferSize
    BY <1>1, <1>2 DEF PushEvent
  <2>2. BufferSize \in Nat
    BY PoolAssumption
  <2> QED
    BY <1>4, <1>5, <2>1, <2>2
<1>7. PICK e \in Nat : e = Len(added) /\ added \in Seq(Call) /\ DOMAIN added = 1..e
  BY DEF TypeOK
<1>8. PICK B : Moves(strategy, e, A, Head(calls), B) /\ Planned(strategy, added, Tail(calls), B)
  BY <1>1, <1>7, PlannedTail DEF LineAt
<1>9. /\ PushMoves(strategy, e, A, Head(calls), B) /\ A \in Books /\ B \in Books
      /\ A.copy = "none" /\ B.copy = "none"
  BY <1>1, <1>8 DEF Moves
<1>10. /\ A.msgs \in Nat /\ A.len \in Nat /\ A.open = Base(strategy, A.msgs) /\ Head(calls).event = e
       /\ A.waits \in SUBSET Channels
  BY <1>9, BookTypes DEF PushMoves
<1>11. strategy = "RoundRobin" => A.len = n
  <2>1. A.open # {}
    BY <1>10, BaseIs
  <2> QED
    BY <1>2, <1>4, <2>1 DEF LineAt, Ready, TurnsAre
<1>12. PICK T : T = Targets(strategy, A.msgs, w)
  OBVIOUS
<1>13. /\ B.msgs = A.msgs /\ B.open = A.open /\ T \subseteq A.waits /\ B.waits = A.waits \ T
       /\ strategy = "RoundRobin" => B.len = at
  BY <1>2, <1>5, <1>6, <1>9, <1>10, <1>11, <1>12 DEF PushMoves
<1>14. PICK mem, wr : mem = memory' /\ wr = writer'
  OBVIOUS
<1>15. mem = [memory EXCEPT ![b][at] = e] /\ wr = [writer EXCEPT ![w].len = at]
  BY <1>1, <1>2, <1>4, <1>5, <1>10, <1>14 DEF PushEvent
<1>16. /\ mem[b][at] = e /\ \A k \in 1..BufferSize : k # at => mem[b][k] = memory[b][k]
       /\ \A x \in Buffers : x # b => mem[x] = memory[x]
       /\ wr[w].buffer = b /\ wr[w].len = at /\ \A v \in Writers : v # w => wr[v] = writer[v]
  BY <1>3, <1>4, <1>6, <1>15 DEF TypeOK
<1>17. ASSUME NEW c \in Channels
       PROVE  HasLine(B, strategy, added, lost, received, mailbox, mem, wr, c)
  <2>1. /\ received[c] \in Seq(Event) /\ mailbox[c] \in Seq(Message)
        /\ \A i \in DOMAIN mailbox[c] : mailbox[c][i].buffer # NoBuffer => mailbox[c][i].buffer \in Buffers
        /\ WriterOf(strategy, c) \in Own /\ TailLen(A, strategy, writer, c) \in Nat
    BY ChannelTypes
  <2>2. SameMail(mailbox[c], memory, mem)
    <3>1. \A i \in DOMAIN mailbox[c] : mailbox[c][i].buffer # b
      BY <1>3, <1>4 DEF Holds, Apart
    <3> QED
      BY <1>16, <2>1, <3>1 DEF SameMail
  <2>3. PICK v \in Own : v = WriterOf(strategy, c)
    BY <2>1
  <2>4. OnLine(received[c], mailbox[c], memory, writer[v].buffer, TailLen(A, strategy, writer, c),
               WantNow(A, strategy, added, lost, c))
    BY <2>3 DEF LineAt, Lines, HasLine
  <2>5. CASE c \in T
    <3>1. c \in A.open /\ v = w /\ c \in A.waits /\ c \notin B.waits
      BY <1>2, <1>10, <1>12, <1>13, <2>3, <2>5 DEF Targets, WriterOf
    <3>2. TailLen(A, strategy, writer, c) = n /\ TailLen(B, strategy, wr, c) = n + 1
      BY <1>4, <1>5, <1>13, <1>16, <2>3, <3>1 DEF TailLen
    <3>3. PICK want : want = WantNow(A, strategy, added, lost, c)
      OBVIOUS
    <3>4. Newest(e, want) /\ WantNow(B, strategy, added, lost, c) = want \cup {e}
      <4>1. e \in WantOf(added, strategy, lost[c], c)
        BY <1>7, <3>1 DEF LineAt, Ready, WaitsAre
      <4>2. want = WantOf(added, strategy, lost[c], c) \ {e}
        BY <1>7, <3>1, <3>3 DEF WantNow
      <4>3. WantNow(B, strategy, added, lost, c) = WantOf(added, strategy, lost[c], c)
        BY <3>1 DEF WantNow
      <4>4. WantOf(added, strategy, lost[c], c) \subseteq 1..e
        BY <1>7 DEF WantOf
      <4>5. Newest(e, want)
        BY <4>2, <4>4 DEF Newest
      <4> QED
        BY <4>1, <4>2, <4>3, <4>5
    <3>5. SameTail(memory, b, mem, b, n) /\ HasAt(mem, b, n + 1, e)
      <4>1. \A k \in 1..n : k \in 1..BufferSize /\ k # at
        BY <1>4, <1>5, <1>6, PoolAssumption
      <4> QED
        BY <1>5, <1>16, <4>1 DEF SameTail, HasAt
    <3>6. OnLine(received[c], mailbox[c], memory, b, n, want)
      BY <1>4, <2>4, <3>1, <3>2, <3>3
    <3>7. OnLine(received[c], mailbox[c], mem, b, n + 1, want \cup {e})
      BY <1>6, <2>1, <2>2, <3>4, <3>5, <3>6, LinePush
    <3> QED
      BY <1>16, <2>3, <3>1, <3>2, <3>4, <3>7 DEF HasLine
  <2>6. CASE c \notin T
    <3>1. v = w => c \notin A.open
      BY <1>2, <1>10, <1>12, <2>3, <2>6 DEF Targets, WriterOf
    <3>2. TailLen(B, strategy, wr, c) = TailLen(A, strategy, writer, c) /\ wr[v].buffer = writer[v].buffer
      BY <1>4, <1>13, <1>16, <2>3, <3>1 DEF TailLen, Own
    <3>3. WantNow(B, strategy, added, lost, c) = WantNow(A, strategy, added, lost, c)
      BY <1>13, <2>6 DEF WantNow
    <3>4. SameTail(memory, writer[v].buffer, mem, writer[v].buffer, TailLen(A, strategy, writer, c))
      <4>1. CASE v = w
        <5>1. TailLen(A, strategy, writer, c) = 0
          BY <3>1, <4>1 DEF TailLen
        <5> QED
          BY <5>1 DEF SameTail
      <4>2. CASE v # w
        <5>1. writer[v].buffer \in Buffers /\ writer[v].buffer # b
          BY <1>3, <1>4, <4>2 DEF Holds, WritersHold, Own, TypeOK
        <5> QED
          BY <1>16, <5>1 DEF SameTail
      <4> QED
        BY <4>1, <4>2
    <3>5. OnLine(received[c], mailbox[c], mem, writer[v].buffer, TailLen(A, strategy, writer, c),
                 WantNow(A, strategy, added, lost, c))
      BY <2>1, <2>2, <2>4, <3>4, LineFrame
    <3> QED
      BY <2>3, <3>2, <3>3, <3>5 DEF HasLine
  <2> QED
    BY <2>5, <2>6
<1>18. Lines(B)'
  BY <1>1, <1>14, <1>17 DEF Lines
<1>19. Ready(S, B)'
  <2>1. OpenAre(S, B, strategy)
    BY <1>13 DEF LineAt, Ready, OpenAre
  <2>2. TurnsAre(B, strategy, wr, curr_index, panicked)
    <3>1. strategy = "RoundRobin" => w = 1
      BY <1>2
    <3> QED
      BY <1>13, <1>16, <3>1 DEF LineAt, Ready, TurnsAre
  <2>3. WaitsAre(B, strategy, added, lost)
    BY <1>13 DEF LineAt, Ready, WaitsAre
  <2> QED
    BY <1>1, <1>9, <1>14, <2>1, <2>2, <2>3 DEF Ready
<1>20. Planned(strategy, added, calls, B)'
  BY <1>1, <1>8
<1> QED
  BY <1>18, <1>19, <1>20 DEF LineAt

\* What a send finds: the line of its channel ends with what its writer has,
\* be that the channel's own writer or the Copier.
LEMMA SendsTail ==
    ASSUME TypeOK, NEW S, NEW A, Ready(S, A), Lines(A), NEW st, NEW B, SendMoves(strategy, A, st, B),
           st.writer \in Writers
    PROVE  /\ st.chan \in Channels
           /\ OnLine(received[st.chan], mailbox[st.chan], memory, writer[st.writer].buffer,
                     writer[st.writer].len, WantNow(A, strategy, added, lost, st.chan))
<1>1. PICK c : c = st.chan
  OBVIOUS
<1>2. c \in A.open /\ c \in Channels
  BY <1>1, BookTypes DEF SendMoves, Ready
<1>3. PICK v \in Own : v = WriterOf(strategy, c)
  BY <1>2, ChannelTypes
<1>4. TailLen(A, strategy, writer, c) = writer[v].len /\ writer[v].len \in Nat
  BY <1>2, <1>3, ChannelTypes DEF TailLen
<1>5. PICK want : want = WantNow(A, strategy, added, lost, c)
  OBVIOUS
<1>6. OnLine(received[c], mailbox[c], memory, writer[v].buffer, writer[v].len, want)
  BY <1>2, <1>3, <1>4, <1>5 DEF Lines, HasLine
<1>7. CASE st.writer # Copier
  <2>1. st.writer = v
    BY <1>1, <1>3, <1>7 DEF SendMoves
  <2> QED
    BY <1>1, <1>2, <1>5, <1>6, <2>1
<1>8. CASE st.writer = Copier
  <2>1. CopyIs(S, strategy, memory, writer)
    BY <1>8 DEF SendMoves, Ready
  <2>2. v = 1
    BY <1>3, <2>1 DEF CopyIs, WriterOf
  <2>3. received[c] \in Seq(Event) /\ mailbox[c] \in Seq(Message)
    BY <1>2, ChannelTypes
  <2>4. SameMail(mailbox[c], memory, memory)
    BY DEF SameMail
  <2>5. SameTail(memory, writer[1].buffer, memory, writer[Copier].buffer, writer[1].len)
        /\ writer[Copier].len = writer[1].len
    BY <2>1 DEF CopyIs
  <2>6. OnLine(received[c], mailbox[c], memory, writer[Copier].buffer, writer[1].len, want)
    BY <1>4, <1>6, <2>2, <2>3, <2>4, <2>5, LineFrame
  <2> QED
    BY <1>1, <1>2, <1>5, <1>8, <2>5, <2>6
<1> QED
  BY <1>7, <1>8

\* What has been lost is not wanted any more.
LEMMA WantsLess ==
    ASSUME NEW ad, NEW str, NEW lo, NEW X, NEW c
    PROVE  WantOf(ad, str, lo \cup X, c) = WantOf(ad, str, lo, c) \ X
  BY DEF WantOf

\* The line of a channel after a send: the message is in the mailbox, or its
\* events are lost.
SentLine(q, lo, c, want, ad, str) ==
    /\ \A buf : OnLine(received[c], q, memory, buf, 0, WantOf(ad, str, lo, c) \ want)
    /\ \A x \in want : x \in WantOf(ad, str, lost[c], c) => x \in WantOf(ad, str, lo, c)
    /\ lo \subseteq DOMAIN ad

\* The three ways a send ends.
LEMMA SendEnds ==
    ASSUME TypeOK, NEW c \in Channels, NEW w \in Writers, NEW X, lost[c] \subseteq DOMAIN added,
           OnLine(received[c], mailbox[c], memory, writer[w].buffer, writer[w].len,
                  WantOf(added, strategy, lost[c], c) \ X),
           c = Head(calls).chan, w = Head(calls).writer, SendLocal \/ SendRemote \/ SendFails
    PROVE  /\ SentLine(mailbox'[c], lost'[c], c, X, added, strategy)
           /\ \A d \in Channels : d # c => mailbox'[d] = mailbox[d] /\ lost'[d] = lost[d]
<1>1. PICK b \in Buffers, n \in 0..BufferSize : b = writer[w].buffer /\ n = writer[w].len
  BY DEF TypeOK
<1>2. n \in Nat
  BY PoolAssumption
<1>3. NoBuffer \notin Buffers
  BY PoolAssumption DEF NoBuffer, Buffers
<1>4. received[c] \in Seq(Event) /\ mailbox[c] \in Seq(Message) /\ mailbox \in [Channels -> Seq(Message)]
  BY ChannelTypes DEF TypeOK
<1>5. PICK want : want = WantOf(added, strategy, lost[c], c) \ X
  OBVIOUS
<1>6. OnLine(received[c], mailbox[c], memory, b, n, want)
  BY <1>1, <1>5
<1>7. PICK ev : ev = SubSeq(memory[b], 1, n)
  OBVIOUS
<1>8. ev \in Seq(Event) /\ Len(ev) = n /\ \A k \in 1..n : ev[k] = memory[b][k]
  <2>1. ev \in Seq(Event)
    <3>1. 1 \in Nat /\ 1 > 0
      OBVIOUS
    <3>2. SubSeq(memory[b], 1, n) \in Seq(Event)
      BY <3>1, ReadType, Zenon
    <3> QED
      BY <1>7, <3>2
  <2>2. \A k \in 1..n : memory[b][k] \in Event
    BY PoolAssumption DEF TypeOK
  <2> QED
    BY <1>2, <1>7, <2>1, <2>2, SubSeqProperties
<1>9. ASSUME NEW m \in Message, IsTail(m, memory, b, n), mailbox' = [mailbox EXCEPT ![c] = Append(@, m)], lost' = lost
      PROVE  /\ SentLine(mailbox'[c], lost'[c], c, X, added, strategy)
             /\ \A d \in Channels : d # c => mailbox'[d] = mailbox[d] /\ lost'[d] = lost[d]
  <2>1. mailbox'[c] = Append(mailbox[c], m) /\ \A d \in Channels : d # c => mailbox'[d] = mailbox[d]
    BY <1>4, <1>9
  <2>2. \A buf : OnLine(received[c], Append(mailbox[c], m), memory, buf, 0, want)
    BY <1>2, <1>4, <1>6, <1>9, LineSend
  <2> QED
    BY <1>5, <1>9, <2>1, <2>2 DEF SentLine
<1>10. CASE SendLocal
  <2>1. PICK m : m = [buffer |-> b, len |-> n, current |-> 0, events |-> <<>>]
    OBVIOUS
  <2>2. m \in Message /\ m.buffer = b /\ m.len = n /\ m.current = 0
    BY <2>1, EmptySeq, PoolAssumption DEF Message
  <2>3. mailbox' = [mailbox EXCEPT ![c] = Append(@, m)] /\ lost' = lost
    BY <1>1, <1>10, <2>1 DEF SendLocal
  <2>4. IsTail(m, memory, b, n)
    BY <1>3, <2>2 DEF IsTail, Size, Item
  <2> QED
    BY <1>9, <2>2, <2>3, <2>4
<1>11. CASE SendRemote
  <2>1. PICK m : m = [buffer |-> NoBuffer, len |-> 0, current |-> 0, events |-> ev]
    OBVIOUS
  <2>2. m \in Message /\ m.buffer = NoBuffer /\ m.events = ev /\ m.current = 0
    BY <1>8, <2>1, PoolAssumption DEF Message
  <2>3. mailbox' = [mailbox EXCEPT ![c] = Append(@, m)] /\ lost' = lost
    BY <1>1, <1>7, <1>11, <2>1 DEF SendRemote, Buffered
  <2>4. IsTail(m, memory, b, n)
    BY <1>8, <2>2 DEF IsTail, Size, Item
  <2> QED
    BY <1>9, <2>2, <2>3, <2>4
<1>12. CASE SendFails
  <2>1. PICK L : L = {memory[b][k] : k \in 1..n}
    OBVIOUS
  <2>10. TailIs(L, memory, b, n)
    BY <2>1 DEF TailIs
  <2>2. ToSet(ev) = L
    BY <1>8, <2>1 DEF ToSet
  <2>3. lost' = [lost EXCEPT ![c] = @ \cup L] /\ mailbox' = mailbox
    BY <1>1, <1>7, <1>12, <2>2 DEF SendFails, Buffered
  <2>4. lost \in [Channels -> SUBSET Event]
    BY DEF TypeOK
  <2>5. lost'[c] = lost[c] \cup L /\ \A d \in Channels : d # c => lost'[d] = lost[d]
    BY <2>3, <2>4
  <2>6. (\A buf : OnLine(received[c], mailbox[c], memory, buf, 0, want \ L)) /\ L \subseteq want
    <3>1. ASSUME NEW buf PROVE OnLine(received[c], mailbox[c], memory, buf, 0, want \ L) /\ L \subseteq want
      BY <1>2, <1>4, <1>6, <2>10, LineLose
    <3> QED
      BY <3>1
  <2>7. WantOf(added, strategy, lost[c] \cup L, c) = WantOf(added, strategy, lost[c], c) \ L
    BY WantsLess
  <2>8. want \ L = WantOf(added, strategy, lost[c] \cup L, c) \ X
    BY <1>5, <2>7
  <2>9. want \subseteq DOMAIN added
    BY <1>5 DEF WantOf
  <2> QED
    BY <1>5, <2>3, <2>5, <2>6, <2>7, <2>8, <2>9 DEF SentLine
<1> QED
  BY <1>10, <1>11, <1>12

\* The channels that stay as they are.
LEMMA OtherChannel ==
    ASSUME NEW A, NEW B, NEW str, NEW ad, NEW lo, NEW lo2, NEW rc, NEW mb, NEW mb2, NEW mem, NEW wr, NEW d,
           HasLine(A, str, ad, lo, rc, mb, mem, wr, d), mb2[d] = mb[d], lo2[d] = lo[d],
           d \in B.open <=> d \in A.open, d \in B.waits <=> d \in A.waits
    PROVE  HasLine(B, str, ad, lo2, rc, mb2, mem, wr, d)
<1>1. TailLen(B, str, wr, d) = TailLen(A, str, wr, d)
  BY DEF TailLen
<1>2. WantNow(B, str, ad, lo2, d) = WantNow(A, str, ad, lo, d)
  BY DEF WantNow
<1> QED
  BY <1>1, <1>2 DEF HasLine

\* The three ways a send ends.
LEMMA SendKeepsLines ==
    ASSUME TypeOK, NEW S, Follows(S), NEW A, LineAt(S, A), NEW C, Changes(Own, S, Head(calls), C),
           SendLocal \/ SendRemote \/ SendFails
    PROVE  \E B : LineAt(C, B)'
<1>1. /\ UNCHANGED <<strategy, memory, writer, received, added>> /\ calls' = Tail(calls)
      /\ calls \in Seq(Steps) /\ calls # <<>> /\ Head(calls).op = "send" /\ Running("send") /\ ~ panicked
      /\ (~ panicked' => NextIndex)
  BY FirstCall DEF SendLocal, SendRemote, SendFails, pool, Running
<1>2. PICK w \in Writers : w = Head(calls).writer
  BY <1>1, HeadType
<1>3. w \in S /\ C = S \ {w}
  BY <1>1, <1>2 DEF Changes
<1>4. PICK B : Moves(strategy, Len(added), A, Head(calls), B) /\ Planned(strategy, added, Tail(calls), B)
  BY <1>1, PlannedTail DEF LineAt
<1>5. A \in Books /\ B \in Books /\ B.copy = "none" /\ SendMoves(strategy, A, Head(calls), B)
  BY <1>1, <1>4 DEF Moves
<1>6. PICK c \in Channels : c = Head(calls).chan
  BY <1>1, <1>2, <1>5, SendsTail DEF LineAt
<1>7. /\ c \in A.open /\ B.open = A.open \ {c} /\ B.waits = A.waits /\ B.len = A.len
      /\ B.msgs = IF strategy = "RoundRobin" THEN A.msgs + 1 ELSE A.msgs
      /\ w # Copier => \A d \in A.open : WriterOf(strategy, d) = w => d = c
      /\ A.msgs \in Nat /\ A.open \in SUBSET Channels
  BY <1>2, <1>5, <1>6, BookTypes DEF SendMoves
<1>8. PICK X : X = IF c \in A.waits THEN {Len(added)} ELSE {}
  OBVIOUS
<1>9. OnLine(received[c], mailbox[c], memory, writer[w].buffer, writer[w].len,
             WantOf(added, strategy, lost[c], c) \ X)
  <2>1. OnLine(received[c], mailbox[c], memory, writer[w].buffer, writer[w].len,
               WantNow(A, strategy, added, lost, c))
    BY <1>2, <1>5, <1>6, SendsTail DEF LineAt
  <2> QED
    BY <1>8, <2>1 DEF WantNow
<1>10. lost[c] \subseteq DOMAIN added
  BY DEF LineAt, Ready, WaitsAre
<1>11. PICK mb, lo : mb = mailbox' /\ lo = lost'
  OBVIOUS
<1>12. /\ SentLine(mb[c], lo[c], c, X, added, strategy)
       /\ \A d \in Channels : d # c => mb[d] = mailbox[d] /\ lo[d] = lost[d]
  BY <1>2, <1>6, <1>9, <1>10, <1>11, SendEnds
<1>13. ASSUME NEW d \in Channels
       PROVE  HasLine(B, strategy, added, lo, received, mb, memory, writer, d)
  <2>1. CASE d = c
    <3>1. TailLen(B, strategy, writer, d) = 0
      BY <1>7, <2>1 DEF TailLen
    <3>2. WantNow(B, strategy, added, lo, d) = WantOf(added, strategy, lo[c], c) \ X
      BY <1>7, <1>8, <2>1 DEF WantNow
    <3> QED
      BY <1>12, <2>1, <3>1, <3>2 DEF SentLine, HasLine
  <2>2. CASE d # c
    <3>1. HasLine(A, strategy, added, lost, received, mailbox, memory, writer, d)
      BY DEF LineAt, Lines
    <3>2. (d \in B.open <=> d \in A.open) /\ (d \in B.waits <=> d \in A.waits)
      BY <1>7, <2>2
    <3> QED
      BY <1>12, <2>2, <3>1, <3>2, OtherChannel
  <2> QED
    BY <2>1, <2>2
<1>14. Lines(B)'
  BY <1>1, <1>11, <1>13 DEF Lines
<1>15. Ready(C, B)'
  <2>1. OpenAre(C, B, strategy)
    <3> SUFFICES ASSUME NEW d \in A.open, d # c PROVE WriterOf(strategy, d) \in S \ {w}
      BY <1>3, <1>7 DEF OpenAre
    <3>1. WriterOf(strategy, d) \in S
      BY DEF LineAt, Ready, OpenAre
    <3>2. WriterOf(strategy, d) # Copier
      BY <1>7, ChannelTypes DEF Own
    <3> QED
      BY <1>7, <3>1, <3>2
  <2>2. TurnsAre(B, strategy, writer, curr_index', panicked')
    <3> SUFFICES ASSUME strategy = "RoundRobin"
                 PROVE  (~ panicked' => curr_index' = Turn(B.msgs)) /\ (B.open # {} => writer[1].len = B.len)
      BY DEF TurnsAre
    <3>1. curr_index = Turn(A.msgs) /\ writer[1].len = A.len
      BY <1>1, <1>7 DEF LineAt, Ready, TurnsAre
    <3>2. ~ panicked' => curr_index' = (curr_index % N) + 1
      BY <1>1 DEF NextIndex
    <3>3. Turn(B.msgs) = (Turn(A.msgs) % N) + 1
      BY <1>7, TurnIs
    <3> QED
      BY <1>7, <3>1, <3>2, <3>3
  <2>3. WaitsAre(B, strategy, added, lo)
    <3>1. ASSUME NEW d \in A.waits PROVE Len(added) \in WantOf(added, strategy, lo[d], d)
      <4>1. Len(added) \in WantOf(added, strategy, lost[d], d) /\ d \in Channels
        BY <1>5, BookTypes DEF LineAt, Ready, WaitsAre
      <4>2. CASE d = c
        BY <1>8, <1>12, <3>1, <4>1, <4>2 DEF SentLine
      <4>3. CASE d # c
        BY <1>12, <4>1, <4>3
      <4> QED
        BY <4>2, <4>3
    <3>2. ASSUME NEW d \in Channels PROVE lo[d] \subseteq DOMAIN added
      <4>1. CASE d = c
        BY <1>12, <4>1 DEF SentLine
      <4>2. CASE d # c
        BY <1>12, <4>2 DEF LineAt, Ready, WaitsAre
      <4> QED
        BY <4>1, <4>2
    <3> QED
      BY <1>7, <3>1, <3>2 DEF WaitsAre
  <2> QED
    BY <1>1, <1>5, <1>11, <2>1, <2>2, <2>3 DEF Ready
<1>16. Planned(strategy, added, calls, B)'
  BY <1>1, <1>4
<1> QED
  BY <1>14, <1>15, <1>16 DEF LineAt

\* BufferPool::get.
LEMMA GetKeepsLines ==
    ASSUME TypeOK, NEW S, Follows(S), NEW A, LineAt(S, A), NEW C, TryGet,
           Changes(Own, S, Head(calls), C) \/ (C = S /\ calls' = calls), Follows(C)'
    PROVE  \E B : LineAt(C, B)'
<1>1. /\ UNCHANGED <<strategy, memory, curr_index, panicked, mailbox, received, added, lost>>
      /\ Running("get") /\ calls \in Seq(Steps) /\ calls # <<>> /\ Head(calls).op = "get"
      /\ Own' = Own /\ Writers' = Writers
  BY FirstCall, SameOwn DEF TryGet
<1>2. PICK w \in Writers : w = Head(calls).writer
  BY <1>1, HeadType
<1>3. CASE calls' = calls
  <2>1. Tail(calls) # calls
    BY <1>1
  <2>2. writer' = writer
    BY <1>3, <2>1 DEF TryGet
  <2>3. C = S
    <3>1. Owners = S
      BY <1>1, OwnersAre DEF Follows
    <3>2. Leads(Own, C, calls, Own) /\ C \in SUBSET Writers
      BY <1>1, <1>3 DEF Follows
    <3>3. Owners = C
      BY <1>1, <3>2, OwnersAre
    <3> QED
      BY <3>1, <3>3
  <2>4. Planned(strategy, added, calls', A)
    BY <1>3 DEF LineAt
  <2>5. LineAt(S, A)'
    BY <1>1, <2>2, <2>4, LineOfCalls
  <2> QED
    BY <2>3, <2>5
<1>4. CASE calls' # calls
  <2>1. w \notin S /\ C = S \cup {w}
    BY <1>1, <1>2, <1>4 DEF Changes
  <2>2. PICK b \in Buffers : b = curr_buffer
    BY DEF TypeOK
  <2>3. PICK wr : wr = writer'
    OBVIOUS
  <2>4. calls' = Tail(calls) /\ wr = [writer EXCEPT ![w] = [buffer |-> b, len |-> 0]]
    BY <1>2, <1>4, <2>2, <2>3 DEF TryGet
  <2>5. wr[w].len = 0 /\ \A v \in Writers : v # w => wr[v] = writer[v]
    BY <2>4 DEF TypeOK
  <2>6. PICK B : Moves(strategy, Len(added), A, Head(calls), B) /\ Planned(strategy, added, Tail(calls), B)
    BY <1>1, PlannedTail DEF LineAt
  <2>7. /\ A \in Books /\ B \in Books /\ B.copy = "none" /\ B.waits = A.waits /\ B.msgs = A.msgs
        /\ GetMoves(strategy, A, Head(calls), B)
    BY <1>1, <2>6 DEF Moves, GetMoves
  <2>8. /\ A.open \in SUBSET Channels /\ B.open \in SUBSET Channels
        /\ w = Copier => B.open = A.open /\ B.len = A.len
        /\ w # Copier => /\ \A d \in A.open : WriterOf(strategy, d) # w
                         /\ B.open = A.open \cup Targets(strategy, A.msgs, w)
                         /\ strategy = "RoundRobin" => B.len = 0
    BY <1>2, <2>7, BookTypes DEF GetMoves
  <2>9. w # Copier => /\ strategy # "KeyBy" => w = 1
                      /\ \A d \in Targets(strategy, A.msgs, w) : WriterOf(strategy, d) = w
    <3>1. w # Copier => (strategy # "KeyBy" => w = 1)
      BY DEF Writers
    <3> QED
      BY <3>1 DEF Targets, WriterOf
  <2>10. ASSUME NEW c \in Channels
         PROVE  HasLine(B, strategy, added, lost, received, mailbox, memory, wr, c)
    <3>1. PICK v \in Own : v = WriterOf(strategy, c)
      BY ChannelTypes
    <3>2. v \in Writers /\ v # Copier
      BY <3>1 DEF Own
    <3>3. HasLine(A, strategy, added, lost, received, mailbox, memory, writer, c)
      BY DEF LineAt, Lines
    <3>4. WantNow(B, strategy, added, lost, c) = WantNow(A, strategy, added, lost, c)
      BY <2>7 DEF WantNow
    <3>5. CASE v # w
      <4>1. wr[v] = writer[v] /\ (c \in B.open <=> c \in A.open)
        BY <2>5, <2>8, <2>9, <3>1, <3>2, <3>5
      <4>2. TailLen(B, strategy, wr, c) = TailLen(A, strategy, writer, c)
        BY <3>1, <4>1 DEF TailLen
      <4> QED
        BY <3>1, <3>3, <3>4, <4>1, <4>2 DEF HasLine
    <3>6. CASE v = w
      <4>1. c \notin A.open
        BY <2>8, <3>1, <3>2, <3>6
      <4>2. TailLen(A, strategy, writer, c) = 0 /\ TailLen(B, strategy, wr, c) = 0
        BY <2>5, <3>1, <3>6, <4>1 DEF TailLen
      <4>3. received[c] \in Seq(Event) /\ mailbox[c] \in Seq(Message)
        BY ChannelTypes
      <4>4. SameMail(mailbox[c], memory, memory) /\ SameTail(memory, writer[v].buffer, memory, wr[v].buffer, 0)
        BY DEF SameMail, SameTail
      <4>5. OnLine(received[c], mailbox[c], memory, writer[v].buffer, 0, WantNow(A, strategy, added, lost, c))
        BY <3>1, <3>3, <4>2 DEF HasLine
      <4>6. OnLine(received[c], mailbox[c], memory, wr[v].buffer, 0, WantNow(A, strategy, added, lost, c))
        BY <4>3, <4>4, <4>5, LineFrame
      <4> QED
        BY <3>1, <3>4, <4>2, <4>6 DEF HasLine
    <3> QED
      BY <3>5, <3>6
  <2>11. Lines(B)'
    BY <1>1, <2>3, <2>10 DEF Lines
  <2>12. Ready(C, B)'
    <3>1. OpenAre(C, B, strategy)
      <4>1. \A c \in A.open : WriterOf(strategy, c) \in S
        BY DEF LineAt, Ready, OpenAre
      <4> QED
        BY <2>1, <2>8, <2>9, <4>1 DEF OpenAre
    <3>2. TurnsAre(B, strategy, wr, curr_index, panicked)
      <4> SUFFICES ASSUME strategy = "RoundRobin"
                   PROVE  (~ panicked => curr_index = Turn(B.msgs)) /\ (B.open # {} => wr[1].len = B.len)
        BY DEF TurnsAre
      <4>1. (~ panicked => curr_index = Turn(A.msgs)) /\ (A.open # {} => writer[1].len = A.len)
        BY DEF LineAt, Ready, TurnsAre
      <4>2. CASE w = Copier
        <5>1. wr[1] = writer[1]
          BY <2>5, <4>2, WriterFacts
        <5> QED
          BY <2>7, <2>8, <4>1, <4>2, <5>1
      <4>3. CASE w # Copier
        BY <2>5, <2>7, <2>8, <2>9, <4>1, <4>3
      <4> QED
        BY <4>2, <4>3
    <3>3. WaitsAre(B, strategy, added, lost)
      BY <2>7 DEF LineAt, Ready, WaitsAre
    <3> QED
      BY <1>1, <2>3, <2>7, <3>1, <3>2, <3>3 DEF Ready
  <2>13. Planned(strategy, added, calls, B)'
    BY <1>1, <2>4, <2>6
  <2> QED
    BY <2>11, <2>12, <2>13 DEF LineAt
<1> QED
  BY <1>3, <1>4

\* copy_from_writer.
LEMMA CopyKeepsLines ==
    ASSUME TypeOK, NEW S, Follows(S), Holds(S, free, writer, mailbox), NEW A, LineAt(S, A), NEW C,
           Changes(Own, S, Head(calls), C), CopyFromWriter
    PROVE  \E B : LineAt(C, B)'
<1>1. /\ UNCHANGED <<strategy, curr_index, panicked, mailbox, received, added, lost>> /\ Running("copy")
      /\ calls' = Tail(calls) /\ calls \in Seq(Steps) /\ calls # <<>> /\ Head(calls).op = "copy"
  BY FirstCall DEF CopyFromWriter
<1>2. C = S /\ S = Own \cup {Copier}
  BY <1>1 DEF Changes
<1>3. Head(calls) \in Steps /\ strategy = "Broadcast"
  BY <1>1, HeadType DEF Steps
<1>4. 1 # Copier /\ Copier \in S /\ 1 \in S /\ Own = {1} /\ 1 \in Writers /\ Copier \in Writers
  BY <1>2, <1>3 DEF Own, Writers, Copier
<1>5. PICK b \in Buffers, x \in Buffers, n \in 0..BufferSize :
         b = writer[Copier].buffer /\ x = writer[1].buffer /\ n = writer[1].len
  BY <1>4 DEF TypeOK
<1>6. b # x
  BY <1>4, <1>5 DEF Holds, WritersHold
<1>7. PICK mem, wr : mem = memory' /\ wr = writer'
  OBVIOUS
<1>8. /\ mem[b] = [i \in 1..BufferSize |-> IF i <= n THEN memory[x][i] ELSE memory[b][i]]
      /\ \A y \in Buffers : y # b => mem[y] = memory[y]
  BY <1>5, <1>7 DEF CopyFromWriter, TypeOK
<1>9. wr[Copier].buffer = b /\ wr[Copier].len = n /\ wr[1] = writer[1]
  BY <1>4, <1>5, <1>7 DEF CopyFromWriter, TypeOK
<1>10. PICK B : Moves(strategy, Len(added), A, Head(calls), B) /\ Planned(strategy, added, Tail(calls), B)
  BY <1>1, PlannedTail DEF LineAt
<1>11. A \in Books /\ B \in Books /\ B.open = A.open /\ B.waits = A.waits
  BY <1>1, <1>10 DEF Moves, CopyMoves
<1>12. ASSUME NEW c \in Channels
       PROVE  HasLine(B, strategy, added, lost, received, mailbox, mem, wr, c)
  <2>1. /\ received[c] \in Seq(Event) /\ mailbox[c] \in Seq(Message)
        /\ \A i \in DOMAIN mailbox[c] : mailbox[c][i].buffer # NoBuffer => mailbox[c][i].buffer \in Buffers
        /\ TailLen(A, strategy, writer, c) \in Nat
    BY ChannelTypes
  <2>2. SameMail(mailbox[c], memory, mem)
    <3>1. \A i \in DOMAIN mailbox[c] : mailbox[c][i].buffer # b
      BY <1>4, <1>5 DEF Holds, Apart
    <3> QED
      BY <1>8, <2>1, <3>1 DEF SameMail
  <2>3. WriterOf(strategy, c) = 1
    BY <1>3 DEF WriterOf
  <2>4. OnLine(received[c], mailbox[c], memory, x, TailLen(A, strategy, writer, c),
               WantNow(A, strategy, added, lost, c))
    BY <1>5, <2>3 DEF LineAt, Lines, HasLine
  <2>5. SameTail(memory, x, mem, x, TailLen(A, strategy, writer, c))
    BY <1>6, <1>8 DEF SameTail
  <2>6. OnLine(received[c], mailbox[c], mem, x, TailLen(A, strategy, writer, c),
               WantNow(A, strategy, added, lost, c))
    BY <2>1, <2>2, <2>4, <2>5, LineFrame
  <2>7. TailLen(B, strategy, wr, c) = TailLen(A, strategy, writer, c)
    BY <1>9, <1>11, <2>3 DEF TailLen
  <2>8. WantNow(B, strategy, added, lost, c) = WantNow(A, strategy, added, lost, c)
    BY <1>11 DEF WantNow
  <2> QED
    BY <1>5, <1>9, <2>3, <2>6, <2>7, <2>8 DEF HasLine
<1>13. Lines(B)'
  BY <1>1, <1>7, <1>12 DEF Lines
<1>14. Ready(C, B)'
  <2>1. OpenAre(C, B, strategy)
    BY <1>2, <1>11 DEF LineAt, Ready, OpenAre
  <2>2. CopyIs(C, strategy, mem, wr)
    <3>1. \A k \in 1..n : k \in 1..BufferSize /\ k <= n
      BY PoolAssumption
    <3>2. \A k \in 1..n : mem[b][k] = memory[x][k] /\ mem[x] = memory[x]
      BY <1>6, <1>8, <3>1
    <3>3. SameTail(mem, x, mem, b, n)
      BY <3>2 DEF SameTail
    <3> QED
      BY <1>2, <1>3, <1>4, <1>5, <1>9, <3>3 DEF CopyIs
  <2>3. TurnsAre(B, strategy, wr, curr_index, panicked)
    BY <1>3 DEF TurnsAre
  <2>4. WaitsAre(B, strategy, added, lost)
    BY <1>11 DEF LineAt, Ready, WaitsAre
  <2> QED
    BY <1>1, <1>7, <1>11, <2>1, <2>2, <2>3, <2>4 DEF Ready
<1>15. Planned(strategy, added, calls, B)'
  BY <1>1, <1>10
<1> QED
  BY <1>13, <1>14, <1>15 DEF LineAt

\* The receivers.
LEMMA ReceiveKeepsLines ==
    ASSUME TypeOK, NEW S, NEW A, LineAt(S, A), NEW c \in Channels, Receive(c)
    PROVE  LineAt(S, A)'
<1>1. UNCHANGED <<strategy, memory, writer, curr_index, panicked, calls, added, lost>>
  <2>1. CASE ReadNext(c)
    BY <2>1 DEF ReadNext, ReadUpTo, sender, pool
  <2>2. CASE IntoVec(c)
    BY <2>2 DEF IntoVec, ReadUpTo, sender, pool
  <2>3. CASE DropReader(c)
    BY <2>3 DEF DropReader
  <2>4. CASE ReceiveRaw(c)
    BY <2>4 DEF ReceiveRaw, sender, pool
  <2> QED
    BY <2>1, <2>2, <2>3, <2>4 DEF Receive
<1>2. /\ mailbox \in [Channels -> Seq(Message)] /\ received \in [Channels -> Seq(Event)]
      /\ memory \in [Buffers -> [1..BufferSize -> Event]]
  BY DEF TypeOK
<1>3. PICK q \in Seq(Message), rc \in Seq(Event) : q = mailbox[c] /\ rc = received[c]
  BY <1>2
<1>4. PICK mb, rs : mb = mailbox' /\ rs = received'
  OBVIOUS
<1>5. PICK buf, want : buf = writer[WriterOf(strategy, c)].buffer /\ want = WantNow(A, strategy, added, lost, c)
  OBVIOUS
<1>6. PICK len \in Nat : len = TailLen(A, strategy, writer, c)
  BY ChannelTypes
<1>7. OnLine(rc, q, memory, buf, len, want)
  BY <1>3, <1>5, <1>6 DEF LineAt, Lines, HasLine
<1>8. q # <<>> => Head(q) = q[1] /\ q[1] \in Message
  OBVIOUS
<1>9. q # <<>>
  BY <1>3 DEF Receive, ReadNext, IntoVec, DropReader, ReceiveRaw, HasMessage
<1>10. ASSUME NEW to \in Nat, ReadUpTo(c, to), q[1].current <= to, to <= q[1].len, q[1].buffer # NoBuffer
       PROVE  OnLine(rs[c], mb[c], memory, buf, len, want) /\ \A d \in Channels : d # c => mb[d] = mailbox[d] /\ rs[d] = received[d]
  <2>1. /\ rs = [received EXCEPT ![c] = @ \o SubSeq(memory[q[1].buffer], q[1].current + 1, to)]
        /\ mb = [mailbox EXCEPT ![c][1].current = to]
    BY <1>3, <1>4, <1>8, <1>9, <1>10 DEF ReadUpTo
  <2>2. /\ rs[c] = rc \o SubSeq(memory[q[1].buffer], q[1].current + 1, to)
        /\ mb[c] = [q EXCEPT ![1].current = to]
        /\ \A d \in Channels : d # c => mb[d] = mailbox[d] /\ rs[d] = received[d]
    BY <1>2, <1>3, <2>1
  <2>3. OnLine(rc \o SubSeq(memory[q[1].buffer], q[1].current + 1, to), [q EXCEPT ![1].current = to],
               memory, buf, len, want)
    BY <1>2, <1>7, <1>9, <1>10, LineRead
  <2> QED
    BY <2>2, <2>3
<1>11. ASSUME mailbox' = [mailbox EXCEPT ![c] = Tail(@)]
       PROVE  mb[c] = Tail(q) /\ \A d \in Channels : d # c => mb[d] = mailbox[d]
  BY <1>2, <1>3, <1>4, <1>11
<1>12. OnLine(rs[c], mb[c], memory, buf, len, want) /\ \A d \in Channels : d # c => mb[d] = mailbox[d] /\ rs[d] = received[d]
  <2>0. q[1].current \in Nat /\ q[1].len \in Nat
    BY <1>8, <1>9, MessageParts
  <2>1. CASE ReadNext(c)
    <3>1. PICK to \in Nat : to = q[1].current + 1
      BY <2>0
    <3>2. ReadUpTo(c, to) /\ q[1].current < q[1].len /\ q[1].buffer # NoBuffer
      BY <1>3, <1>8, <1>9, <2>1, <3>1 DEF ReadNext, HasMessage
    <3>3. q[1].current <= to /\ to <= q[1].len
      BY <2>0, <3>1, <3>2
    <3> QED
      BY <1>10, <3>2, <3>3
  <2>2. CASE IntoVec(c)
    <3>1. ReadUpTo(c, q[1].len) /\ q[1].current = 0 /\ q[1].buffer # NoBuffer
      BY <1>3, <1>8, <1>9, <2>2 DEF IntoVec, HasMessage
    <3>2. q[1].current <= q[1].len /\ q[1].len <= q[1].len
      BY <2>0, <3>1
    <3> QED
      BY <1>10, <2>0, <3>1, <3>2
  <2>3. CASE DropReader(c)
    <3>1. rs = received /\ q[1].current = q[1].len /\ q[1].buffer # NoBuffer
          /\ mailbox' = [mailbox EXCEPT ![c] = Tail(@)]
      BY <1>3, <1>4, <1>8, <1>9, <2>3 DEF DropReader, HasMessage
    <3>2. OnLine(rc, Tail(q), memory, buf, len, want)
      BY <1>7, <1>9, <3>1, LineDrop
    <3> QED
      BY <1>3, <1>11, <3>1, <3>2
  <2>4. CASE ReceiveRaw(c)
    <3>1. rs = [received EXCEPT ![c] = @ \o q[1].events] /\ q[1].buffer = NoBuffer
          /\ mailbox' = [mailbox EXCEPT ![c] = Tail(@)]
      BY <1>3, <1>4, <1>8, <1>9, <2>4 DEF ReceiveRaw, HasMessage
    <3>2. OnLine(rc \o q[1].events, Tail(q), memory, buf, len, want)
      BY <1>7, <1>9, <3>1, LineRaw
    <3>3. rs[c] = rc \o q[1].events /\ \A d \in Channels : d # c => rs[d] = received[d]
      BY <1>2, <1>3, <3>1
    <3> QED
      BY <1>11, <3>1, <3>2, <3>3
  <2> QED
    BY <2>1, <2>2, <2>3, <2>4 DEF Receive
<1>13. ASSUME NEW d \in Channels PROVE HasLine(A, strategy, added, lost, rs, mb, memory, writer, d)
  <2>1. CASE d = c
    BY <1>5, <1>6, <1>12, <2>1 DEF HasLine
  <2>2. CASE d # c
    <3>1. HasLine(A, strategy, added, lost, received, mailbox, memory, writer, d)
      BY DEF LineAt, Lines
    <3> QED
      BY <1>12, <2>2, <3>1 DEF HasLine
  <2> QED
    BY <2>1, <2>2
<1>14. Lines(A)'
  BY <1>1, <1>4, <1>13 DEF Lines
<1>15. Ready(S, A)' /\ Planned(strategy, added, calls, A)'
  BY <1>1 DEF LineAt, Ready
<1> QED
  BY <1>14, <1>15 DEF LineAt

\* All of it together: what is left to do brings every event where it belongs,
\* and what has been done has brought it there.
LineInv == TypeOK /\ \E S : Follows(S) /\ Holds(S, free, writer, mailbox) /\ \E A : LineAt(S, A)

\* Nothing is on a line at the start.
LEMMA InitLines == Init => LineInv
<1> SUFFICES ASSUME Init PROVE LineInv
  OBVIOUS
<1>1. PICK S : Follows(S) /\ Holds(S, free, writer, mailbox)
  BY InitHold DEF HoldInv
<1>2. /\ calls = <<>> /\ added = <<>> /\ curr_index = 1 /\ strategy \in Strategies
      /\ \A c \in Channels : mailbox[c] = <<>> /\ received[c] = <<>> /\ lost[c] = {}
      /\ \A w \in Writers : writer[w].len = 0
  BY DEF Init
<1>3. S = Own
  BY <1>1, <1>2, LeadsNowhere DEF Follows
<1>4. PICK A : A = Book(Base(strategy, 0), {}, 0, 0, "none")
  OBVIOUS
<1>5. /\ A \in Books /\ A.open = Base(strategy, 0) /\ A.waits = {} /\ A.msgs = 0 /\ A.len = 0
      /\ A.copy = "none"
  <2>1. Base(strategy, 0) \in SUBSET Channels
    BY DEF Base
  <2> QED
    BY <1>4, <2>1, BookIs
<1>6. Len(added) = 0 /\ DOMAIN added = {}
  BY <1>2
<1>7. SentOf(added, 0) = 0 /\ FilledOf(added, 0) = 0
  <2>1. EndsOf(added, 0) = {} /\ FullOf(added, 0) = {} /\ RunOf(added, 0 + 1) = {}
    BY DEF EndsOf, FullOf, RunOf
  <2>2. Cardinality({}) = 0
    BY FS_EmptySet
  <2>3. Cardinality(EndsOf(added, 0)) = 0 /\ Cardinality(FullOf(added, 0)) = 0
    BY <2>1, <2>2
  <2>4. SentOf(added, 0) = 0
    BY <2>3 DEF SentOf
  <2>5. FilledOf(added, 0) = 0
    BY <2>1 DEF FilledOf
  <2> QED
    BY <2>4, <2>5
<1>8. Planned(strategy, added, calls, A)
  <2>1. Done(strategy, added, A)
    BY <1>5, <1>6, <1>7 DEF Done
  <2>2. Runs(strategy, Len(added), A, calls, A)
    BY <1>2, RunsNowhere
  <2> QED
    BY <2>1, <2>2 DEF Planned
<1>9. Turn(0) = 1
  BY StrategyAssumption DEF Turn
<1>10. Ready(S, A)
  <2>1. OpenAre(S, A, strategy)
    BY <1>3, <1>5, BookTypes, ChannelTypes, TypeInit DEF OpenAre
  <2>2. TurnsAre(A, strategy, writer, curr_index, panicked)
    BY <1>2, <1>5, <1>9, WriterFacts DEF TurnsAre
  <2>3. WaitsAre(A, strategy, added, lost)
    BY <1>2, <1>5 DEF WaitsAre
  <2> QED
    BY <1>5, <2>1, <2>2, <2>3 DEF Ready
<1>11. ASSUME NEW c \in Channels
       PROVE  HasLine(A, strategy, added, lost, received, mailbox, memory, writer, c)
  <2>1. TailLen(A, strategy, writer, c) = 0
    BY <1>2, ChannelTypes, TypeInit DEF TailLen, Own
  <2>2. WantNow(A, strategy, added, lost, c) = {}
    BY <1>6 DEF WantNow, WantOf
  <2>3. ASSUME NEW mem, NEW buf PROVE OnLine(<<>>, <<>>, mem, buf, 0, {})
    <3>1. PICK s : s = [i \in 1..1 |-> 0]
      OBVIOUS
    <3>2. s[1] = 0
      BY <3>1
    <3>3. Len(<<>>) = 0
      OBVIOUS
    <3>4. IsLine(0, s, {})
      BY DEF IsLine
    <3>5. Cuts(s, s, <<>>, mem)
      BY <3>2, <3>3 DEF Cuts
    <3>6. ReadsFirst(s, s, <<>>, <<>>)
      BY <3>2, <3>3 DEF ReadsFirst
    <3>7. HasTail(0, s, s[Len(<<>>) + 1], mem, buf, 0)
      BY <3>2, <3>3 DEF HasTail
    <3> QED
      BY <3>4, <3>5, <3>6, <3>7 DEF LineOf, OnLine
  <2> QED
    BY <1>2, <2>1, <2>2, <2>3 DEF HasLine
<1> QED
  BY <1>1, <1>8, <1>10, <1>11, TypeInit DEF LineInv, LineAt, Lines

\* Every step keeps it.
LEMMA LinesStep == LineInv /\ [Next]_vars => LineInv'
<1> SUFFICES ASSUME LineInv, [Next]_vars PROVE LineInv'
  OBVIOUS
<1>0. TypeOK /\ TypeOK'
  BY TypeStep DEF LineInv
<1>1. PICK S : Follows(S) /\ Holds(S, free, writer, mailbox) /\ \E A : LineAt(S, A)
  BY DEF LineInv
<1>2. PICK A : LineAt(S, A)
  BY <1>1
<1>3. ASSUME NEW C, Follows(C)', Holds(C, free', writer', mailbox'), \E B : LineAt(C, B)'
      PROVE  LineInv'
  BY <1>0, <1>3 DEF LineInv
<1>4. CASE UNCHANGED vars
  <2>1. Own' = Own /\ Writers' = Writers
    BY <1>4, SameOwn DEF vars
  <2>2. Follows(S)'
    BY <1>1, <1>4, <2>1 DEF vars, Follows
  <2>3. Holds(S, free', writer', mailbox')
    BY <1>1, <1>4 DEF vars
  <2>4. LineAt(S, A)'
    BY <1>2, <1>4 DEF vars, LineAt, Ready, Lines
  <2> QED
    BY <1>3, <2>2, <2>3, <2>4
<1>5. ASSUME NEW call \in Call, Add(call) PROVE LineInv'
  <2>1. Follows(S)' /\ Holds(S, free', writer', mailbox')
    BY <1>0, <1>1, <1>5, SendersBook
  <2>2. \E B : LineAt(S, B)'
    BY <1>0, <1>2, <1>5, AddKeepsLines
  <2> QED
    BY <1>3, <2>1, <2>2
<1>6. PICK call : call \in Call
  <2>1. [kind |-> "flush", key |-> 0] \in Call
    BY DEF Call
  <2> QED
    BY <2>1
<1>7. CASE PushIsFull \/ PushEvent \/ PushToNext \/ Flush
  <2>1. Follows(S)' /\ Holds(S, free', writer', mailbox')
    BY <1>0, <1>1, <1>6, <1>7, SendersBook
  <2>2. \E B : LineAt(S, B)'
    <3>1. CASE PushEvent
      BY <1>0, <1>1, <1>2, <3>1, PushKeepsLines
    <3>2. CASE PushIsFull \/ PushToNext \/ Flush
      BY <1>0, <1>2, <3>2, CallsKeepLines
    <3> QED
      BY <1>7, <3>1, <3>2
  <2> QED
    BY <1>3, <2>1, <2>2
<1>8. CASE SendLocal \/ SendRemote \/ SendFails \/ TryGet \/ CopyFromWriter
  <2>1. PICK C : BecomesFrom(S, C)
    BY <1>0, <1>1, <1>8, SendersBuffers
  <2>2. Follows(C)' /\ Holds(C, free', writer', mailbox')
    BY <2>1 DEF BecomesFrom
  <2>3. ASSUME SendLocal \/ SendRemote \/ SendFails \/ CopyFromWriter
        PROVE  Changes(Own, S, Head(calls), C)
    <3>1. calls \in Seq(Steps) /\ calls # <<>> /\ calls' = Tail(calls)
      BY <1>0, <2>3 DEF TypeOK, SendLocal, SendRemote, SendFails, CopyFromWriter, Running
    <3>2. calls' # calls
      BY <3>1
    <3> QED
      BY <2>1, <3>2 DEF BecomesFrom
  <2>4. \E B : LineAt(C, B)'
    <3>1. CASE SendLocal \/ SendRemote \/ SendFails
      BY <1>0, <1>1, <1>2, <2>3, <3>1, SendKeepsLines
    <3>2. CASE TryGet
      BY <1>0, <1>1, <1>2, <2>1, <2>2, <3>2, GetKeepsLines DEF BecomesFrom
    <3>3. CASE CopyFromWriter
      BY <1>0, <1>1, <1>2, <2>3, <3>3, CopyKeepsLines
    <3> QED
      BY <1>8, <3>1, <3>2, <3>3
  <2> QED
    BY <1>3, <2>2, <2>4
<1>9. ASSUME NEW c \in Channels, Receive(c) PROVE LineInv'
  <2>1. Follows(S)' /\ Holds(S, free', writer', mailbox')
    BY <1>0, <1>1, <1>9, ReceiversBuffers
  <2>2. LineAt(S, A)'
    BY <1>0, <1>2, <1>9, ReceiveKeepsLines
  <2> QED
    BY <1>3, <2>1, <2>2
<1> QED
  BY <1>4, <1>5, <1>7, <1>8, <1>9 DEF Next, SenderStep

\* What a message still holds, and what the writer of a channel holds for it
\* between two calls.
IsFrom(q, n, f, at) == DOMAIN q = 1..n /\ \A k \in 1..n : q[k] = f[at + k]
ItemsOf(mem, m) == IF m.buffer = NoBuffer THEN m.events ELSE mem[m.buffer]

\* A stretch of a buffer.
LEMMA StretchIs ==
    ASSUME TypeOK, NEW b \in Buffers, NEW at \in Nat, NEW to \in 0..BufferSize, at <= to
    PROVE  IsFrom(SubSeq(memory[b], at + 1, to), to - at, memory[b], at)
<1>1. PICK f \in [1..BufferSize -> Event] : f = memory[b]
  BY DEF TypeOK
<1>2. BufferSize \in Nat /\ to \in Nat /\ to <= BufferSize
  BY PoolAssumption
<1>3. PICK g \in Seq(Event) : g = SubSeq(f, at + 1, to)
  <2>1. at + 1 \in Nat /\ at + 1 > 0
    OBVIOUS
  <2> QED
    BY <1>1, <2>1, ReadType
<1>4. \A k \in (at + 1)..to : f[k] \in Event
  BY <1>2
<1>5. Len(g) = to - at /\ \A k \in 1..(to - at) : g[k] = f[at + k]
  BY <1>2, <1>3, <1>4, SubSeqProperties
<1> QED
  BY <1>1, <1>3, <1>5 DEF IsFrom

\* What a message still holds.
LEMMA ContentsAre ==
    ASSUME TypeOK, NEW m \in Message, NEW i, IsAt(i, m)
    PROVE  /\ IsFrom(Contents(m), Size(m) - m.current, ItemsOf(memory, m), m.current)
           /\ \A k : Item(memory, m, k) = ItemsOf(memory, m)[k]
<1>1. /\ m.len \in 0..BufferSize /\ m.current \in Nat /\ m.events \in Seq(Event)
      /\ m.buffer # NoBuffer => m.buffer \in Buffers
  BY MessageParts, PoolAssumption DEF Message
<1>2. \A k : Item(memory, m, k) = ItemsOf(memory, m)[k]
  BY DEF Item, ItemsOf
<1>3. CASE m.buffer = NoBuffer
  <2>1. Contents(m) = m.events /\ Size(m) = Len(m.events) /\ m.current = 0 /\ ItemsOf(memory, m) = m.events
    BY <1>3 DEF Contents, Size, IsAt, ItemsOf
  <2>2. DOMAIN m.events = 1..Len(m.events) /\ Len(m.events) \in Nat
    BY <1>1
  <2> QED
    BY <1>2, <2>1, <2>2 DEF IsFrom
<1>4. CASE m.buffer # NoBuffer
  <2>1. /\ Contents(m) = SubSeq(memory[m.buffer], m.current + 1, m.len) /\ Size(m) = m.len
        /\ m.current <= m.len /\ ItemsOf(memory, m) = memory[m.buffer]
    BY <1>4 DEF Contents, Size, IsAt, ItemsOf
  <2>2. IsFrom(SubSeq(memory[m.buffer], m.current + 1, m.len), m.len - m.current, memory[m.buffer], m.current)
    BY <1>1, <1>4, <2>1, StretchIs
  <2> QED
    BY <1>2, <2>1, <2>2
<1> QED
  BY <1>3, <1>4

\* What the writer holds for a channel between two calls.
LEMMA UnsentIs ==
    ASSUME TypeOK, NEW c \in Channels, NEW A \in Books, A.open = Base(strategy, A.msgs),
           strategy = "RoundRobin" => curr_index = Turn(A.msgs), NEW v, v = WriterOf(strategy, c)
    PROVE  IsFrom(Unsent(c), TailLen(A, strategy, writer, c), memory[writer[v].buffer], 0)
<1>1. v \in Writers /\ writer[v].buffer \in Buffers /\ writer[v].len \in 0..BufferSize /\ A.msgs \in Nat
  BY ChannelTypes, BookTypes DEF TypeOK, Own
<1>2. PICK n \in Nat : n = writer[v].len
  BY <1>1, PoolAssumption
<1>3. IsFrom(SubSeq(memory[writer[v].buffer], 1, n), n, memory[writer[v].buffer], 0)
  <2>1. IsFrom(SubSeq(memory[writer[v].buffer], 0 + 1, n), n - 0, memory[writer[v].buffer], 0)
    <3>1. 0 \in Nat /\ 0 <= n
      OBVIOUS
    <3> QED
      BY <1>1, <1>2, <3>1, StretchIs
  <2>2. 0 + 1 = 1 /\ n - 0 = n
    OBVIOUS
  <2> QED
    BY <2>1, <2>2
<1>4. IsFrom(Buffered(v), n, memory[writer[v].buffer], 0)
  BY <1>2, <1>3 DEF Buffered
<1>5. CASE c \in A.open
  <2>1. Unsent(c) = Buffered(v)
    <3>1. strategy = "RoundRobin" => c = curr_index
      BY <1>5 DEF Base
    <3>2. strategy = "Forward" => c = 1
      BY <1>5 DEF Base
    <3> QED
      BY <3>1, <3>2 DEF Unsent, WriterOf
  <2>2. TailLen(A, strategy, writer, c) = n
    BY <1>2, <1>5 DEF TailLen
  <2> QED
    BY <1>4, <2>1, <2>2
<1>6. CASE c \notin A.open
  <2>1. (strategy = "Forward" /\ c # 1) \/ (strategy = "RoundRobin" /\ c # curr_index)
    BY <1>6 DEF Base
  <2>2. Unsent(c) = <<>> /\ TailLen(A, strategy, writer, c) = 0
    BY <1>6, <2>1 DEF Unsent, TailLen
  <2> QED
    BY <2>2 DEF IsFrom
<1> QED
  BY <1>5, <1>6

\* Places after the first few.
LEMMA PlacesAfter ==
    ASSUME NEW x \in Nat, NEW y \in Nat, NEW t \in Nat, t <= y
    PROVE  /\ (x + y) - (x + t) = y - t /\ y - t \in Nat /\ x + t <= x + y
           /\ \A k \in 1..(y - t) : t + k \in 1..y /\ x + (t + k) = (x + t) + k
OBVIOUS

\* The parts of a channel's events follow each other on its line: those that are
\* sent, and between two calls all of them.
HasParts(c, p, n, l, buf, len) ==
    \E u : /\ PartsFollow(c, p, u, l) /\ u[p + 1] \in Nat /\ u[p + 1] <= n
           /\ IsFrom(Unsent(c), len, memory[buf], 0) => PartsFollow(c, p + 1, u, l) /\ u[(p + 1) + 1] = n

\* A line has them.
LEMMA LineParts ==
    ASSUME TypeOK, NEW c \in Channels, NEW p \in Nat, p = Len(mailbox[c]), NEW n \in Nat, NEW l, NEW s, NEW buf,
           NEW len \in Nat, NEW want, LineOf(n, l, s, received[c], mailbox[c], memory, buf, len, want)
    PROVE  HasParts(c, p, n, l, buf, len)
<1>1. PICK q \in Seq(Message), rc \in Seq(Event) : q = mailbox[c] /\ rc = received[c]
  BY ChannelTypes
<1>2. PICK r \in Nat : r = Len(rc) /\ DOMAIN rc = 1..r
  OBVIOUS
<1>3. Cuts(l, s, q, memory) /\ ReadsFirst(l, s, rc, q) /\ HasTail(n, l, s[p + 1], memory, buf, len)
  BY <1>1 DEF LineOf
<1>4. PICK z \in Nat : z = s[p + 1] /\ r <= z
  BY <1>1, <1>2, <1>3, ReadsWithin
<1>5. n = z + len /\ \A k \in 1..len : memory[buf][k] = l[z + k]
  BY <1>3, <1>4 DEF HasTail
<1>6. /\ \A i \in 1..(p + 1) : s[i] \in Nat
      /\ \A i, j \in 1..(p + 1) : i <= j => s[i] <= s[j]
  BY <1>1, <1>3 DEF Cuts
<1>7. ASSUME NEW i \in 1..p
      PROVE  /\ q[i] \in Message /\ IsAt(i, q[i]) /\ s[i + 1] = s[i] + Size(q[i]) /\ Size(q[i]) \in Nat
             /\ q[i].current \in Nat /\ q[i].current <= Size(q[i]) /\ (i > 1 => q[i].current = 0)
             /\ \A k \in 1..Size(q[i]) : Item(memory, q[i], k) = l[s[i] + k]
  <2>1. q[i] \in Message
    BY <1>1
  <2> QED
    BY <1>1, <1>3, <2>1, MessageParts DEF Cuts, ReadsFirst, IsAt
<1>8. r = s[1] + (IF p = 0 THEN 0 ELSE q[1].current) /\ \A k \in 1..r : rc[k] = l[k]
  <2>1. q = <<>> <=> p = 0
    BY <1>1
  <2> QED
    BY <1>2, <1>3, <2>1 DEF ReadsFirst
<1> DEFINE u == [i \in 0..(p + 2) |-> IF i = 0 THEN 0 ELSE IF i = 1 THEN r ELSE IF i = p + 2 THEN n ELSE s[i]]
<1>9. u[0] = 0 /\ u[1] = r /\ u[p + 2] = n /\ \A i \in 2..(p + 1) : u[i] = s[i]
  OBVIOUS
<1> HIDE DEF u
<1>10. \A i \in 1..p : u[i] = s[i] + q[i].current /\ u[i + 1] = s[i + 1]
  <2> SUFFICES ASSUME NEW i \in 1..p PROVE u[i] = s[i] + q[i].current /\ u[i + 1] = s[i + 1]
    OBVIOUS
  <2>1. i + 1 \in 2..(p + 1)
    OBVIOUS
  <2>2. CASE i = 1
    BY <1>8, <1>9, <2>1, <2>2
  <2>3. CASE i # 1
    <3>1. i \in 2..(p + 1) /\ i > 1 /\ i \in 1..(p + 1)
      BY <2>3
    <3>2. s[i] \in Nat /\ q[i].current = 0
      BY <1>6, <1>7, <3>1
    <3> QED
      BY <1>9, <2>1, <3>1, <3>2
  <2> QED
    BY <2>2, <2>3
<1>11. u[p + 1] = z
  <2>1. CASE p = 0
    BY <1>4, <1>6, <1>8, <1>9, <2>1
  <2>2. CASE p # 0
    <3>1. p \in 1..p
      BY <2>2
    <3> QED
      BY <1>4, <1>10, <3>1
  <2> QED
    BY <2>1, <2>2
<1>12. ASSUME NEW i \in 0..(p + 2) PROVE u[i] \in Nat
  <2>1. i = 0 \/ i = 1 \/ i = p + 2 \/ i \in 2..(p + 1)
    OBVIOUS
  <2>2. i \in 2..(p + 1) => i \in 1..(p + 1)
    OBVIOUS
  <2> QED
    BY <1>6, <1>9, <2>1, <2>2
<1>13. ASSUME NEW i \in 0..(p + 2), NEW j \in 0..(p + 2), i <= j PROVE u[i] <= u[j]
  <2>1. PICK a \in Nat, b \in Nat : a = u[i] /\ b = u[j]
    BY <1>12
  <2>2. CASE i = 0
    BY <1>9, <2>1, <2>2
  <2>3. CASE i = j
    BY <2>1, <2>3
  <2>4. CASE i = 1 /\ j \in 2..(p + 1)
    <3>1. 1 \in 1..p /\ 2 \in 1..(p + 1) /\ j \in 1..(p + 1)
      BY <2>4
    <3>2. s[2] <= s[j] /\ u[j] = s[j] /\ s[2] \in Nat
      BY <1>6, <1>9, <2>4, <3>1
    <3>3. r <= s[2]
      <4>0. s[1] \in Nat /\ Size(q[1]) \in Nat /\ q[1].current \in Nat /\ q[1].current <= Size(q[1])
        <5>1. 1 \in 1..(p + 1)
          OBVIOUS
        <5> QED
          BY <1>6, <1>7, <3>1, <5>1
      <4>1. PICK x \in Nat, y \in Nat, t \in Nat : x = s[1] /\ y = Size(q[1]) /\ t = q[1].current /\ t <= y
        BY <4>0
      <4>2. s[2] = x + y /\ r = x + t
        <5>1. p # 0 /\ 1 + 1 = 2
          BY <3>1
        <5> QED
          BY <1>7, <1>8, <3>1, <4>1, <5>1
      <4> QED
        BY <4>1, <4>2, PlacesAfter
    <3> QED
      BY <1>9, <2>1, <2>4, <3>2, <3>3
  <2>5. CASE i \in 2..(p + 1) /\ j \in 2..(p + 1)
    <3>1. i \in 1..(p + 1) /\ j \in 1..(p + 1)
      BY <2>5
    <3>2. s[i] <= s[j]
      BY <1>6, <1>13, <3>1
    <3> QED
      BY <1>9, <2>5, <3>2
  <2>6. CASE j = p + 2
    <3>1. z <= n /\ r <= n
      BY <1>4, <1>5
    <3>2. CASE i = 1
      BY <1>9, <2>6, <3>1, <3>2
    <3>3. CASE i \in 2..(p + 1)
      <4>1. i \in 1..(p + 1) /\ p + 1 \in 1..(p + 1) /\ i <= p + 1
        BY <3>3
      <4>2. s[i] <= z /\ s[i] \in Nat
        BY <1>4, <1>6, <4>1
      <4> QED
        BY <1>9, <2>6, <3>1, <3>3, <4>2
    <3>4. i = 0 \/ i = 1 \/ i = j \/ i \in 2..(p + 1)
      BY <2>6
    <3> QED
      BY <2>2, <2>3, <3>2, <3>3, <3>4
  <2>7. i = 0 \/ i = j \/ (i = 1 /\ j \in 2..(p + 1)) \/ (i \in 2..(p + 1) /\ j \in 2..(p + 1)) \/ j = p + 2
    BY <1>13
  <2> QED
    BY <2>2, <2>3, <2>4, <2>5, <2>6, <2>7
<1>14. ASSUME NEW i \in 0..p PROVE IsFrom(Part(c, i), u[i + 1] - u[i], l, u[i])
  <2>1. CASE i = 0
    <3>1. Part(c, i) = rc /\ u[i + 1] - u[i] = r /\ u[i] = 0
      BY <1>1, <1>9, <2>1 DEF Part
    <3> QED
      BY <1>2, <1>8, <3>1 DEF IsFrom
  <2>2. CASE i \in 1..p
    <3>1. Part(c, i) = Contents(q[i])
      <4>1. i # 0 /\ i \in DOMAIN mailbox[c]
        BY <1>1, <2>2
      <4> QED
        BY <1>1, <4>1 DEF Part
    <3>2. PICK f : f = ItemsOf(memory, q[i])
      OBVIOUS
    <3>3. PICK x \in Nat, y \in Nat, t \in Nat : x = s[i] /\ y = Size(q[i]) /\ t = q[i].current /\ t <= y
      <4>1. i \in 1..(p + 1)
        BY <2>2
      <4> QED
        BY <1>6, <1>7, <2>2, <4>1
    <3>4. IsFrom(Contents(q[i]), y - t, f, t) /\ \A k : Item(memory, q[i], k) = f[k]
      BY <1>7, <2>2, <3>2, <3>3, ContentsAre
    <3>5. u[i] = x + t /\ u[i + 1] = x + y
      BY <1>7, <1>10, <2>2, <3>3
    <3>6. \A k \in 1..y : f[k] = l[x + k]
      BY <1>7, <2>2, <3>3, <3>4
    <3>7. u[i + 1] - u[i] = y - t
      BY <3>3, <3>5, PlacesAfter
    <3>8. \A k \in 1..(y - t) : t + k \in 1..y /\ x + (t + k) = (x + t) + k
      <4>1. x \in Nat /\ y \in Nat /\ t \in Nat /\ t <= y
        BY <3>3
      <4> HIDE <3>3
      <4> SUFFICES ASSUME NEW k \in 1..(y - t) PROVE t + k \in 1..y /\ x + (t + k) = (x + t) + k
        OBVIOUS
      <4> QED
        BY <4>1
    <3>9. \A k \in 1..(y - t) : f[t + k] = l[(x + t) + k]
      BY <3>6, <3>8
    <3> QED
      BY <3>1, <3>4, <3>5, <3>7, <3>9 DEF IsFrom
  <2> QED
    BY <2>1, <2>2
<1>15. ASSUME IsFrom(Unsent(c), len, memory[buf], 0)
       PROVE  IsFrom(Part(c, p + 1), u[(p + 1) + 1] - u[p + 1], l, u[p + 1])
  <2>1. Part(c, p + 1) = Unsent(c)
    <3>1. p + 1 # 0 /\ p + 1 \notin DOMAIN mailbox[c]
      BY <1>1
    <3> QED
      BY <3>1 DEF Part
  <2>2. u[(p + 1) + 1] - u[p + 1] = len
    <3>1. (p + 1) + 1 = p + 2
      OBVIOUS
    <3> QED
      BY <1>5, <1>9, <1>11, <3>1
  <2>3. \A k \in 1..len : memory[buf][0 + k] = l[z + k]
    BY <1>5
  <2> QED
    BY <1>11, <1>15, <2>1, <2>2, <2>3 DEF IsFrom
<1>16. PartsFollow(c, p, u, l)
  <2>1. \A i \in 0..(p + 1) : i \in 0..(p + 2)
    OBVIOUS
  <2>2. /\ \A i \in 0..(p + 1) : u[i] \in Nat
        /\ \A i, j \in 0..(p + 1) : i <= j => u[i] <= u[j]
    BY <1>12, <1>13, <2>1
  <2> QED
    BY <1>9, <1>14, <2>2 DEF PartsFollow, IsFrom
<1>17. ASSUME IsFrom(Unsent(c), len, memory[buf], 0) PROVE PartsFollow(c, p + 1, u, l)
  <2>1. \A i \in 0..((p + 1) + 1) : i \in 0..(p + 2)
    OBVIOUS
  <2>2. /\ \A i \in 0..((p + 1) + 1) : u[i] \in Nat
        /\ \A i, j \in 0..((p + 1) + 1) : i <= j => u[i] <= u[j]
    BY <1>12, <1>13, <2>1
  <2>3. \A i \in 0..(p + 1) : i \in 0..p \/ i = p + 1
    OBVIOUS
  <2>4. \A i \in 0..(p + 1) : IsFrom(Part(c, i), u[i + 1] - u[i], l, u[i])
    BY <1>14, <1>15, <1>17, <2>3
  <2> QED
    BY <1>9, <2>2, <2>4 DEF PartsFollow, IsFrom
<1>18. u[(p + 1) + 1] = n
  <2>1. (p + 1) + 1 = p + 2
    OBVIOUS
  <2> QED
    BY <1>9, <2>1
<1> QED
  BY <1>4, <1>5, <1>11, <1>16, <1>17, <1>18 DEF HasParts

\* What is on the line of a channel, against what is expected of it.
LEMMA WantsExpected ==
    ASSUME TypeOK, NEW c \in Channels, NEW A, NEW want, want = WantNow(A, strategy, added, lost, c)
    PROVE  /\ want \subseteq Expected(c) /\ Expected(c) \subseteq 1..Len(added)
           /\ \A x \in Expected(c) : x \in want \/ (x = Len(added) /\ x \notin want)
           /\ A.waits = {} => want = Expected(c)
<1>1. PICK ad \in Seq(Call) : ad = added
  BY DEF TypeOK
<1>2. DOMAIN ad = 1..Len(ad)
  OBVIOUS
<1>3. PICK W : W = WantOf(added, strategy, lost[c], c) /\ W = Expected(c)
  BY ReferenceIs
<1>4. W \subseteq 1..Len(added)
  BY <1>1, <1>2, <1>3 DEF WantOf
<1>5. want = W \ (IF c \in A.waits THEN {Len(added)} ELSE {})
  BY <1>3 DEF WantNow
<1> QED
  BY <1>3, <1>4, <1>5

\* The line of each channel, cut as it is, is what the property asks for.
LEMMA LinesMean == LineInv => EveryEventOnceInOrder
<1> SUFFICES ASSUME LineInv PROVE EveryEventOnceInOrder
  OBVIOUS
<1>0. \A c \in Channels : Len(mailbox[c]) \in Nat
  <2> SUFFICES ASSUME NEW c \in Channels PROVE Len(mailbox[c]) \in Nat
    OBVIOUS
  <2>1. mailbox[c] \in Seq(Message)
    BY ChannelTypes DEF LineInv
  <2> QED
    BY <2>1
<1> SUFFICES ASSUME NEW c \in Channels, NEW p \in Nat, p = Len(mailbox[c])
             PROVE  /\ InOrder(c, 0..p)
                    /\ EventsIn(c, 0..p) \subseteq Expected(c)
                    /\ \A e \in EventsIn(c, 0..p), x \in Expected(c) \ EventsIn(c, 0..p) : e < x
                    /\ Idle => InOrder(c, 0..(p + 1)) /\ EventsIn(c, 0..(p + 1)) = Expected(c)
  BY <1>0 DEF EveryEventOnceInOrder
<1>1. TypeOK /\ \E S : \E A : LineAt(S, A)
  BY DEF LineInv
<1>2. PICK S, A : LineAt(S, A)
  BY <1>1
<1>3. Planned(strategy, added, calls, A) /\ Ready(S, A) /\ Lines(A) /\ A \in Books
  BY <1>2 DEF LineAt, Ready
<1>4. PICK v : v = WriterOf(strategy, c)
  OBVIOUS
<1>5. PICK buf : buf = writer[v].buffer
  OBVIOUS
<1>6. PICK len \in Nat : len = TailLen(A, strategy, writer, c)
  <2>1. writer[v].len \in 0..BufferSize
    BY <1>1, <1>4, ChannelTypes DEF TypeOK, Own
  <2>2. writer[v].len \in Nat
    BY <2>1, PoolAssumption
  <2> QED
    BY <1>4, <2>2 DEF TailLen
<1>7. PICK want : want = WantNow(A, strategy, added, lost, c)
  OBVIOUS
<1>8. PICK n \in Nat : \E l, s : LineOf(n, l, s, received[c], mailbox[c], memory, buf, len, want)
  BY <1>3, <1>4, <1>5, <1>6, <1>7, LineWitness DEF Lines, HasLine
<1>9. PICK l, s : LineOf(n, l, s, received[c], mailbox[c], memory, buf, len, want)
  BY <1>8
<1>10. IsLine(n, l, want)
  BY <1>9 DEF LineOf
<1>20. HasParts(c, p, n, l, buf, len)
  BY <1>1, <1>9, LineParts
<1>11. PICK u : /\ PartsFollow(c, p, u, l) /\ u[p + 1] \in Nat /\ u[p + 1] <= n
                /\ IsFrom(Unsent(c), len, memory[buf], 0) => PartsFollow(c, p + 1, u, l) /\ u[(p + 1) + 1] = n
  BY <1>20 DEF HasParts
<1>12. PICK m \in Nat : m = u[p + 1] /\ m <= n
  BY <1>11
<1>13. InOrder(c, 0..p) /\ EventsIn(c, 0..p) = {l[k] : k \in 1..m}
  BY <1>10, <1>11, <1>12, PartsAreTheLine
<1>14. /\ want \subseteq Expected(c) /\ Expected(c) \subseteq 1..Len(added)
       /\ \A x \in Expected(c) : x \in want \/ (x = Len(added) /\ x \notin want)
       /\ A.waits = {} => want = Expected(c)
  BY <1>1, <1>7, WantsExpected
<1>15. /\ \A k \in 1..n : l[k] \in Nat /\ l[k] \in want
       /\ \A j, k \in 1..n : j < k => l[j] < l[k]
       /\ \A x \in want : \E k \in 1..n : x = l[k]
  BY <1>10 DEF IsLine
<1>16. \A k \in 1..m : k \in 1..n
  BY <1>12
<1>17. EventsIn(c, 0..p) \subseteq Expected(c)
  BY <1>13, <1>14, <1>15, <1>16
<1>18. ASSUME NEW e \in EventsIn(c, 0..p), NEW x \in Expected(c) \ EventsIn(c, 0..p) PROVE e < x
  <2>1. PICK k \in 1..m : e = l[k]
    BY <1>13
  <2>2. k \in 1..n /\ e \in want /\ e \in Nat
    BY <1>15, <1>16, <2>1
  <2>3. CASE x \in want
    <3>1. PICK j \in 1..n : x = l[j]
      BY <1>15, <2>3
    <3>2. j \notin 1..m
      BY <1>13, <3>1
    <3>3. k < j
      BY <1>12, <3>2
    <3> QED
      BY <1>15, <2>1, <2>2, <3>1, <3>3
  <2>4. CASE x \notin want
    <3>1. x = Len(added) /\ e \in 1..Len(added) /\ e # x
      BY <1>14, <2>2, <2>4
    <3>2. Len(added) \in Nat
      BY <1>1 DEF TypeOK
    <3> QED
      BY <3>1, <3>2
  <2> QED
    BY <2>3, <2>4
<1>19. ASSUME Idle PROVE InOrder(c, 0..(p + 1)) /\ EventsIn(c, 0..(p + 1)) = Expected(c)
  <2>1. calls = <<>> /\ ~ panicked
    BY <1>19 DEF Idle
  <2>2. Done(strategy, added, A)
    <3>1. PICK B : Runs(strategy, Len(added), A, calls, B) /\ Done(strategy, added, B)
      BY <1>3 DEF Planned
    <3>2. A = B
      BY <2>1, <3>1, RunsNowhere
    <3> QED
      BY <3>1, <3>2
  <2>3. A.open = Base(strategy, A.msgs) /\ A.waits = {}
    BY <2>2 DEF Done
  <2>4. strategy = "RoundRobin" => curr_index = Turn(A.msgs)
    BY <1>3, <2>1 DEF Ready, TurnsAre
  <2>5. IsFrom(Unsent(c), len, memory[buf], 0)
    BY <1>1, <1>3, <1>4, <1>5, <1>6, <2>3, <2>4, UnsentIs
  <2>6. PartsFollow(c, p + 1, u, l) /\ u[(p + 1) + 1] = n
    BY <1>11, <2>5
  <2>7. p + 1 \in Nat /\ u[(p + 1) + 1] <= n
    BY <2>6
  <2>8. InOrder(c, 0..(p + 1)) /\ EventsIn(c, 0..(p + 1)) = {l[k] : k \in 1..n}
    <3>1. InOrder(c, 0..(p + 1)) /\ EventsIn(c, 0..(p + 1)) = {l[k] : k \in 1..u[(p + 1) + 1]}
      BY <1>10, <2>6, <2>7, PartsAreTheLine
    <3> QED
      BY <2>6, <3>1
  <2>9. want = Expected(c)
    BY <1>14, <2>3
  <2>10. {l[k] : k \in 1..n} = want
    BY <1>15
  <2> QED
    BY <2>8, <2>9, <2>10
<1> QED
  BY <1>13, <1>17, <1>18, <1>19

\* Every event reaches each channel it is for once and in the order of the calls
\* of add, none reaches another channel, and between two calls all of them are
\* with the receiver, in its mailbox or in a writer (add and flush of the five
\* strategies, EventBuffer, BufferWriter::copy_from_writer and BufferReader),
\* for any number of channels, any size of the buffers and of the pool.
THEOREM EventsOnceInOrder == Spec => []EveryEventOnceInOrder
<1>1. LineInv => EveryEventOnceInOrder
  BY LinesMean
<1> QED
  BY <1>1, InitLines, LinesStep, PTL DEF Spec

=============================================================================
