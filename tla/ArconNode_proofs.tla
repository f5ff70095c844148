-------------------------- MODULE ArconNode_proofs --------------------------
(* Proofs about ArconNode, for every set of channels and every bound.       *)
EXTENDS ArconNode, FiniteSetTheorems, TLAPS

(****************************************************************************)
(* Events, messages and the lowest watermark.                               *)
(****************************************************************************)

\* What an event of each kind carries.
LEMMA EventVal ==
    ASSUME NEW x \in Event
    PROVE  /\ x.kind \in {"Element", "Watermark", "Epoch", "Death"}
           /\ x.val \in Int
           /\ x.kind = "Element" => x.val \in Timestamps \cup {NoTimestamp}
           /\ x.kind = "Watermark" => x.val \in Timestamps
           /\ x.kind = "Epoch" => x.val \in 1..MaxEpoch
    BY TimestampsAssumption, BoundsAssumption
       DEF Event, Element, Watermark, Epoch, Death, NoTimestamp

\* A message of channel c is a non-empty sequence of events, all but the last
\* of them elements; an epoch it ends with is the next one of c.
LEMMA MessageShape ==
    ASSUME NEW c \in InChannels, sent_epoch \in [InChannels -> 0..MaxEpoch],
           NEW events \in Messages(c)
    PROVE  /\ events \in Seq(Event)
           /\ Len(events) \in Nat \ {0}
           /\ \A i \in 1..(Len(events) - 1) : events[i].kind # "Epoch"
           /\ events[Len(events)].kind = "Epoch" =>
                /\ events[Len(events)].val = sent_epoch[c] + 1
                /\ sent_epoch[c] + 1 \in 1..MaxEpoch
<1>1. PICK es \in Batches, m \in {<<>>} \cup {<<x>> : x \in Markers(c)} :
         events = Elements(es) \o m
  BY DEF Messages
<1>2. events # <<>>
  BY DEF Messages
<1>3. PICK k \in 0..MaxBatch : es \in [1..k -> Timestamps \cup {NoTimestamp}]
  BY <1>1 DEF Batches
<1> DEFINE els == Elements(es)
<1>4. /\ els \in Seq(Event)
      /\ Len(els) = k
      /\ \A i \in 1..k : els[i].kind = "Element"
  <2>1. /\ DOMAIN es = 1..k
        /\ \A i \in 1..k : Element(es[i]) \in Event
        /\ \A i \in 1..k : Element(es[i]).kind = "Element"
    BY <1>3 DEF Event, Element
  <2>2. els = [i \in 1..k |-> Element(es[i])]
    BY <2>1 DEF Elements
  <2> QED
    BY <2>1, <2>2, <1>3, BoundsAssumption
<1>5. \A x \in Markers(c) :
         /\ x \in Event
         /\ x.kind = "Epoch" =>
              x.val = sent_epoch[c] + 1 /\ sent_epoch[c] + 1 \in 1..MaxEpoch
  BY DEF Markers, Event, Watermark, Epoch, Death
<1>6. CASE m = <<>>
  <2>1. events = els
    BY <1>1, <1>4, <1>6
  <2> QED
    BY <1>2, <1>3, <1>4, <2>1, BoundsAssumption
<1>7. CASE m # <<>>
  <2>1. PICK x \in Markers(c) : m = <<x>>
    BY <1>1, <1>7
  <2>2. /\ events = Append(els, x)
        /\ events \in Seq(Event)
        /\ Len(events) = k + 1
        /\ \A i \in 1..k : events[i] = els[i]
        /\ events[k+1] = x
    BY <1>1, <1>3, <1>4, <1>5, <2>1, BoundsAssumption
  <2> QED
    BY <1>3, <1>4, <1>5, <2>2, BoundsAssumption
<1> QED
  BY <1>6, <1>7

\* The entries of a message keep its events and number them from sent[c].
LEMMA EntriesShape ==
    ASSUME NEW c \in InChannels, sent \in [InChannels -> Nat],
           NEW events \in Seq(Event)
    PROVE  /\ Entries(c, events) \in Seq(Entry)
           /\ Len(Entries(c, events)) = Len(events)
           /\ \A i \in 1..Len(events) :
                /\ Entries(c, events)[i].sender = c
                /\ Entries(c, events)[i].event = events[i]
                /\ Entries(c, events)[i].pos = sent[c] + i
    BY DEF Entries, Entry

\* A non-empty set of naturals has a least element: the shortest of the
\* intervals 0..n, which strict inclusion orders well.
LEMMA LeastNatural ==
    ASSUME NEW S \in SUBSET Nat, S # {}
    PROVE  \E m \in S : \A x \in S : m <= x
<1> DEFINE T == {0..n : n \in S}
<1>1. T \subseteq FiniteSubsetsOf(Nat)
  <2>1. \A n \in S : IsFiniteSet(0..n) /\ 0..n \in SUBSET Nat
    BY FS_Interval
  <2> QED
    BY <2>1, Zenon DEF FiniteSubsetsOf
<1>2. T # {}
  OBVIOUS
<1>3. PICK X \in T : \A Y \in T : ~ (<<Y, X>> \in StrictSubsetOrdering(Nat))
  BY <1>1, <1>2, FS_StrictSubsetOrderingWellFounded, WFMin
<1>4. PICK m \in S : X = 0..m
  OBVIOUS
<1>5. ASSUME NEW x \in S, x < m
      PROVE  FALSE
  <2>1. /\ 0..x \subseteq 0..m /\ m \in 0..m /\ m \notin 0..x
        /\ 0..x \in SUBSET Nat /\ 0..m \in SUBSET Nat
    BY <1>5
  <2>2. <<0..x, 0..m>> \in StrictSubsetOrdering(Nat)
    BY <2>1 DEF StrictSubsetOrdering
  <2>3. 0..x \in T
    OBVIOUS
  <2> QED
    BY <1>3, <1>4, <2>2, <2>3
<1> QED
  BY <1>5

\* The same for a message that channel c may send.
LEMMA MessageEntries ==
    ASSUME NEW c \in InChannels, sent \in [InChannels -> Nat],
           sent_epoch \in [InChannels -> 0..MaxEpoch], NEW events \in Messages(c)
    PROVE  LET new == Entries(c, events) IN
           /\ new \in Seq(Entry)
           /\ Len(new) = Len(events) /\ Len(new) \in Nat \ {0}
           /\ \A i \in 1..Len(new) :
                /\ new[i].sender = c
                /\ new[i].event = events[i]
                /\ new[i].pos = sent[c] + i
                /\ i < Len(new) => new[i].event.kind # "Epoch"
<1>1. /\ events \in Seq(Event) /\ Len(events) \in Nat \ {0}
      /\ \A i \in 1..(Len(events) - 1) : events[i].kind # "Epoch"
  BY MessageShape
<1>2. /\ Entries(c, events) \in Seq(Entry)
      /\ Len(Entries(c, events)) = Len(events)
      /\ \A i \in 1..Len(events) :
           /\ Entries(c, events)[i].sender = c
           /\ Entries(c, events)[i].event = events[i]
           /\ Entries(c, events)[i].pos = sent[c] + i
  BY <1>1, EntriesShape
<1> QED
  BY <1>1, <1>2

\* Lowest is the minimum of w and the watermarks.
LEMMA LowestIsMin ==
    ASSUME NEW wms \in [InChannels -> Nat], NEW w \in Nat
    PROVE  /\ Lowest(wms, w) \in {wms[c] : c \in InChannels} \cup {w}
           /\ \A c \in InChannels : Lowest(wms, w) <= wms[c]
           /\ Lowest(wms, w) <= w
<1> DEFINE S == {wms[c] : c \in InChannels} \cup {w}
<1>1. S \in SUBSET Nat /\ S # {}
  OBVIOUS
<1>2. \E m \in S : \A x \in S : m <= x
  BY <1>1, LeastNatural
<1>3. Lowest(wms, w) \in S /\ \A x \in S : Lowest(wms, w) <= x
  BY <1>2 DEF Lowest
<1> QED
  BY <1>3

(****************************************************************************)
(* Type correctness.                                                        *)
(****************************************************************************)

\* The event being handled, and what is left of the loop.
LEMMA CurrentType ==
    ASSUME TypeOK, todo # <<>>
    PROVE  /\ current \in Entry
           /\ sender \in InChannels
           /\ current.event \in Event
           /\ val = current.event.val
           /\ current.pos \in Nat
           /\ Tail(todo) \in Seq(Entry)
           /\ Len(Tail(todo)) = Len(todo) - 1
           /\ \A i \in 1..Len(Tail(todo)) : Tail(todo)[i] = todo[i+1]
           /\ current = todo[1]
<1>1. todo \in Seq(Entry)
  BY DEF TypeOK
<1>2. /\ current \in Entry
      /\ current = todo[1]
      /\ Tail(todo) \in Seq(Entry)
      /\ Len(Tail(todo)) = Len(todo) - 1
      /\ \A i \in 1..Len(Tail(todo)) : Tail(todo)[i] = todo[i+1]
  BY <1>1 DEF current
<1> QED
  BY <1>2 DEF sender, val, Entry

\* The watermark a node moves to is the one of some channel.
LEMMA NewWatermarkType ==
    ASSUME TypeOK, todo # <<>>, current.event.kind = "Watermark"
    PROVE  /\ val \in Timestamps
           /\ NewWatermark \in Timestamps \cup {0}
           /\ NewWatermark > current_watermark => NewWatermark \in Timestamps
<1> DEFINE wms == [watermarks EXCEPT ![sender] = val]
<1>1. val \in Timestamps /\ sender \in InChannels
  BY CurrentType, EventVal
<1>2. Timestamps \cup {0} \subseteq Nat
  BY TimestampsAssumption
<1>3. wms \in [InChannels -> Timestamps \cup {0}]
  BY <1>1 DEF TypeOK
<1>4. Lowest(wms, val) \in {wms[c] : c \in InChannels} \cup {val}
  BY <1>1, <1>2, <1>3, LowestIsMin
<1>5. Lowest(wms, val) \in Timestamps \cup {0}
  BY <1>1, <1>3, <1>4
<1>6. NewWatermark \in {current_watermark, Lowest(wms, val)}
  BY DEF NewWatermark
<1> QED
  BY <1>1, <1>2, <1>5, <1>6 DEF TypeOK

\* The types of what Handling and Continue change.
LEMMA StepType ==
    ASSUME TypeOK, NEW kind, Handling(kind)
    PROVE  /\ todo # <<>>
           /\ taken' \in [InChannels -> Nat]
           /\ sent' = sent /\ sent_epoch' = sent_epoch
           /\ marker_at' = marker_at
           /\ Continue => todo' \in Seq(Entry) /\ replaying' \in BOOLEAN
    BY CurrentType DEF Handling, Continue, senders, TypeOK

\* Send keeps the types of the senders' variables.
LEMMA SendType ==
    ASSUME TypeOK, NEW c \in InChannels, NEW events \in Messages(c),
           Send(c, events)
    PROVE  /\ sent' \in [InChannels -> Nat]
           /\ sent_epoch' \in [InChannels -> 0..MaxEpoch]
           /\ marker_at' \in [InChannels -> [0..MaxEpoch -> Nat]]
           /\ Entries(c, events) \in Seq(Entry)
<1>1. /\ events \in Seq(Event)
      /\ Len(events) \in Nat
      /\ events[Len(events)].kind = "Epoch" =>
           events[Len(events)].val \in 1..MaxEpoch
  BY MessageShape DEF TypeOK
<1>2. sent' \in [InChannels -> Nat]
  BY <1>1, SMTT(30) DEF Send, TypeOK
<1>3. /\ sent_epoch' \in [InChannels -> 0..MaxEpoch]
      /\ marker_at' \in [InChannels -> [0..MaxEpoch -> Nat]]
  <2>1. CASE events[Len(events)].kind = "Epoch"
    <3> DEFINE e == events[Len(events)].val
    <3>1. e \in 0..MaxEpoch
      BY <1>1, <2>1, BoundsAssumption
    <3>2. /\ sent_epoch' = [sent_epoch EXCEPT ![c] = e]
          /\ marker_at' = [marker_at EXCEPT
                             ![c] = [marker_at[c] EXCEPT ![e] = sent'[c]]]
      BY <2>1 DEF Send
    <3> HIDE DEF e
    <3> QED
      BY <1>2, <3>1, <3>2 DEF TypeOK
  <2>2. CASE events[Len(events)].kind # "Epoch"
    BY <2>2 DEF Send, TypeOK
  <2> QED
    BY <2>1, <2>2
<1> QED
  BY <1>1, <1>2, <1>3, EntriesShape DEF TypeOK

\* Every step keeps the types.
LEMMA TypeOKStep == TypeOK /\ [Next]_vars => TypeOK'
<1> SUFFICES ASSUME TypeOK, [Next]_vars
             PROVE  TypeOK'
  OBVIOUS
<1>1. ASSUME NEW c \in InChannels, NEW events \in Messages(c),
             BufferMessage(c, events)
      PROVE  TypeOK'
  <2>1. message_buffer' \in Seq(Entry)
    BY <1>1, SendType, SMTT(30) DEF BufferMessage, TypeOK
  <2>2. /\ sent' \in [InChannels -> Nat]
        /\ sent_epoch' \in [InChannels -> 0..MaxEpoch]
        /\ marker_at' \in [InChannels -> [0..MaxEpoch -> Nat]]
    BY <1>1, SendType DEF BufferMessage
  <2> QED
    BY <1>1, <2>1, <2>2 DEF BufferMessage, TypeOK
<1>2. ASSUME NEW c \in InChannels, NEW events \in Messages(c),
             AcceptMessage(c, events)
      PROVE  TypeOK'
  BY <1>2, SendType DEF AcceptMessage, TypeOK, node
<1>3. CASE DropElement
  BY <1>3, StepType DEF DropElement, TypeOK, node
<1>4. CASE HandleElement
  <2>1. out' \in Seq(Event)
    BY <1>4, StepType, CurrentType, SMTT(30) DEF HandleElement, TypeOK
  <2> QED
    BY <1>4, <2>1, StepType DEF HandleElement, TypeOK, node
<1>5. CASE IgnoreWatermark
  BY <1>5, StepType DEF IgnoreWatermark, TypeOK, node
<1>6. CASE RecordWatermark
  <2>1. watermarks' \in [InChannels -> Timestamps \cup {0}]
    BY <1>6, StepType, CurrentType, NewWatermarkType
       DEF RecordWatermark, Handling, TypeOK
  <2> QED
    BY <1>6, <2>1, StepType DEF RecordWatermark, TypeOK
<1>7. CASE AdvanceWatermark
  <2>1. /\ watermarks' \in [InChannels -> Timestamps \cup {0}]
        /\ current_watermark' \in Timestamps
    BY <1>7, StepType, CurrentType, NewWatermarkType
       DEF AdvanceWatermark, Handling, TypeOK
  <2>2. Watermark(NewWatermark) \in Event
    BY <1>7, <2>1, Zenon DEF AdvanceWatermark, Event
  <2>3. CASE ~replaying
    <3>1. out' = Append(out, Watermark(NewWatermark))
      BY <1>7, <2>3, Zenon DEF AdvanceWatermark
    <3>2. out' \in Seq(Event)
      BY <2>2, <3>1 DEF TypeOK
    <3> QED
      BY <1>7, <2>1, <2>3, <3>2, StepType DEF AdvanceWatermark, TypeOK
  <2>4. CASE replaying
    <3>1. todo' \in Seq(Entry)
      BY <1>7, <2>4 DEF AdvanceWatermark
    <3> QED
      BY <1>7, <2>1, <2>4, <3>1, StepType DEF AdvanceWatermark, TypeOK
  <2> QED
    BY <2>3, <2>4
<1>8. CASE IgnoreEpoch
  BY <1>8, StepType DEF IgnoreEpoch, TypeOK, node
<1>9. CASE BlockChannel
  BY <1>9, StepType, CurrentType DEF BlockChannel, TypeOK
<1>10. CASE CompleteEpoch
  <2>1. val \in 1..MaxEpoch
    BY <1>10, StepType, CurrentType, EventVal DEF CompleteEpoch, Handling
  <2>2. Epoch(val) \in Event
    BY <2>1, Zenon DEF Event
  <2>3. out' \in Seq(Event)
    BY <1>10, <2>2 DEF CompleteEpoch, TypeOK
  <2>4. todo' \in Seq(Entry) /\ message_buffer' \in Seq(Entry)
    BY <1>10, StepType, CurrentType DEF CompleteEpoch, TypeOK
  <2>5. saved' \in [epoch : 0..MaxEpoch, taken : [InChannels -> Nat],
                    buffer : Seq(Entry)]
    BY <1>10, <2>1, StepType DEF CompleteEpoch, TypeOK
  <2>6. current_epoch' \in 0..MaxEpoch
    BY <1>10, <2>1 DEF CompleteEpoch
  <2> QED
    BY <1>10, <2>3, <2>4, <2>5, <2>6, StepType, Zenon
       DEF CompleteEpoch, TypeOK
<1>11. CASE FailEpoch
  <2>1. val \in 1..MaxEpoch
    BY <1>11, StepType, CurrentType, EventVal DEF FailEpoch, Handling
  <2>2. /\ current_epoch' \in 0..MaxEpoch
        /\ blocked_channels' \subseteq InChannels
        /\ todo' \in Seq(Entry)
    BY <1>11, <2>1, StepType, CurrentType DEF FailEpoch, TypeOK
  <2> QED
    BY <1>11, <2>2, StepType, Zenon DEF FailEpoch, TypeOK
<1>12. CASE HandleDeath
  <2>1. out' \in Seq(Event)
    BY <1>12 DEF HandleDeath, TypeOK, Event
  <2> QED
    BY <1>12, <2>1, StepType DEF HandleDeath, TypeOK, node
<1>13. CASE Kill
  BY <1>13 DEF Kill, TypeOK, node, senders
<1>14. CASE UNCHANGED vars
  BY <1>14 DEF vars, TypeOK, node, senders
<1> QED
  BY <1>1, <1>2, <1>3, <1>4, <1>5, <1>6, <1>7, <1>8, <1>9, <1>10, <1>11,
     <1>12, <1>13, <1>14 DEF Next, ReceiveMessage, HandleEvent

\* The variables of NodeState and of the handler keep their types.
THEOREM TypeCorrect == Spec => []TypeOK
<1>1. ASSUME Init
      PROVE  TypeOK
  <2>1. /\ current_epoch \in 0..MaxEpoch
        /\ message_buffer \in Seq(Entry) /\ todo \in Seq(Entry)
        /\ out \in Seq(Event)
        /\ saved \in [epoch : 0..MaxEpoch, taken : [InChannels -> Nat],
                       buffer : Seq(Entry)]
        /\ watermarks \in [InChannels -> Timestamps \cup {0}]
        /\ current_watermark \in Timestamps \cup {0}
        /\ sent \in [InChannels -> Nat]
        /\ sent_epoch \in [InChannels -> 0..MaxEpoch]
        /\ marker_at \in [InChannels -> [0..MaxEpoch -> Nat]]
        /\ taken \in [InChannels -> Nat]
    BY <1>1, BoundsAssumption DEF Init
  <2> QED
    BY <1>1, <2>1, Zenon DEF Init, TypeOK
<1> QED
  BY <1>1, TypeOKStep, PTL DEF Spec

(****************************************************************************)
(* The merged watermark.                                                    *)
(****************************************************************************)

\* A new watermark of a channel, with or without a new one of the node.
LEMMA LowestStep ==
    ASSUME TypeOK, WatermarkIsLowest, Handling("Watermark"),
           val > watermarks[sender],
           watermarks' = [watermarks EXCEPT ![sender] = val],
           \/ NewWatermark <= current_watermark
                /\ current_watermark' = current_watermark
           \/ NewWatermark > current_watermark
                /\ current_watermark' = NewWatermark
    PROVE  WatermarkIsLowest'
<1> DEFINE wms == [watermarks EXCEPT ![sender] = val]
           low == Lowest(wms, val)
<1>0. Timestamps \cup {0} \subseteq Nat
  BY TimestampsAssumption
<1>1. sender \in InChannels /\ val \in Nat
  <2>1. todo # <<>> /\ current.event.kind = "Watermark"
    BY DEF Handling
  <2> QED
    BY <1>0, <2>1, CurrentType, NewWatermarkType
<1>2. /\ watermarks \in [InChannels -> Nat] /\ current_watermark \in Nat
      /\ wms \in [InChannels -> Nat]
  <2>1. watermarks \in [InChannels -> Nat] /\ current_watermark \in Nat
    BY <1>0 DEF TypeOK
  <2> QED
    BY <1>1, <2>1
<1>3. /\ low \in Nat
      /\ \E c \in InChannels : low = wms[c]
      /\ \A c \in InChannels : low <= wms[c]
  <2>1. /\ low \in {wms[c] : c \in InChannels} \cup {val}
        /\ \A c \in InChannels : low <= wms[c]
    BY <1>1, <1>2, LowestIsMin
  <2>2. wms[sender] = val
    BY <1>1, <1>2
  <2> QED
    BY <1>1, <1>2, <2>1, <2>2
<1> HIDE DEF low
<1>4. \A c \in InChannels :
         wms[c] = IF c = sender THEN val ELSE watermarks[c]
  BY <1>1, <1>2
<1>5. NewWatermark = IF \/ watermarks[sender] > current_watermark
                        \/ val <= current_watermark
                     THEN current_watermark ELSE low
  BY DEF NewWatermark, low
<1> HIDE DEF wms
<1>6. \A c \in InChannels : current_watermark <= wms[c]
  BY <1>1, <1>2, <1>4 DEF WatermarkIsLowest
<1>7. CASE NewWatermark <= current_watermark
  <2>1. current_watermark' = current_watermark
    BY <1>2, <1>3, <1>5, <1>7
  <2>2. \E c \in InChannels : current_watermark = wms[c]
    <3>1. PICK c \in InChannels : current_watermark = watermarks[c]
      BY DEF WatermarkIsLowest
    <3>2. CASE c = sender
      BY <1>1, <1>2, <1>3, <1>5, <1>6, <1>7, <3>1, <3>2
    <3>3. CASE c # sender
      BY <1>4, <3>1, <3>3
    <3> QED
      BY <3>2, <3>3
  <2> QED
    BY <1>6, <2>1, <2>2 DEF WatermarkIsLowest, wms
<1>8. CASE NewWatermark > current_watermark
  BY <1>2, <1>3, <1>5, <1>8 DEF WatermarkIsLowest, wms
<1> QED
  BY <1>2, <1>3, <1>5, <1>7, <1>8

\* Every step keeps current_watermark the lowest of the watermarks.
LEMMA WatermarkIsLowestStep ==
    TypeOK /\ WatermarkIsLowest /\ [Next]_vars => WatermarkIsLowest'
<1> SUFFICES ASSUME TypeOK, WatermarkIsLowest, [Next]_vars
             PROVE  WatermarkIsLowest'
  OBVIOUS
<1>1. CASE RecordWatermark
  BY <1>1, LowestStep DEF RecordWatermark
<1>2. CASE AdvanceWatermark
  BY <1>2, LowestStep DEF AdvanceWatermark
<1>3. CASE UNCHANGED <<watermarks, current_watermark>>
  BY <1>3 DEF WatermarkIsLowest
<1> QED
  BY <1>1, <1>2, <1>3
     DEF Next, ReceiveMessage, BufferMessage, AcceptMessage, HandleEvent,
         DropElement, HandleElement, IgnoreWatermark, IgnoreEpoch, BlockChannel,
         CompleteEpoch, FailEpoch, HandleDeath, Kill, vars, node

\* The early returns of the Watermark arm never leave current_watermark behind
\* (or ahead of) the lowest of the channels' watermarks.
THEOREM WatermarkMerge == Spec => []WatermarkIsLowest
<1>1. Init => WatermarkIsLowest
  BY InChannelsAssumption DEF Init, WatermarkIsLowest
<1> QED
  BY <1>1, TypeCorrect, WatermarkIsLowestStep, PTL DEF Spec

(****************************************************************************)
(* The stream downstream.                                                   *)
(****************************************************************************)

\* The strengthening: no marker sent downstream is ahead of the node.
OutBehindNode ==
    \A i \in 1..Len(out) :
        /\ out[i].kind = "Watermark" => out[i].val <= current_watermark
        /\ out[i].kind = "Epoch" => out[i].val <= current_epoch

\* An event that follows all of out is a step of the abstract stream.
LEMMA EmitStep ==
    ASSUME TypeOK, OutBehindNode, NEW event \in Event,
           out' = Append(out, event), Downstream!Follows(event)
    PROVE  Downstream!Next
    BY DEF Downstream!Next, Downstream!Emit

\* The node's markers only rise, and out grows by one event at a time: enough
\* for OutBehindNode to hold on.
LEMMA OutStep ==
    ASSUME TypeOK, TypeOK', OutBehindNode,
           current_watermark' >= current_watermark,
           current_epoch' >= current_epoch,
           \/ out' = out
           \/ \E event \in Event :
                /\ out' = Append(out, event)
                /\ event.kind = "Watermark" => event.val <= current_watermark'
                /\ event.kind = "Epoch" => event.val <= current_epoch'
    PROVE  OutBehindNode'
<1>1. /\ out \in Seq(Event)
      /\ current_watermark \in Nat /\ current_watermark' \in Nat
      /\ current_epoch \in Nat /\ current_epoch' \in Nat
  BY TimestampsAssumption, BoundsAssumption DEF TypeOK
<1>2. \A i \in 1..Len(out) : out[i].val \in Int
  BY <1>1, EventVal
<1>3. CASE out' = out
  BY <1>1, <1>2, <1>3 DEF OutBehindNode
<1>4. ASSUME NEW event \in Event, out' = Append(out, event),
             event.kind = "Watermark" => event.val <= current_watermark',
             event.kind = "Epoch" => event.val <= current_epoch'
      PROVE  OutBehindNode'
  <2>1. /\ Len(out') = Len(out) + 1
        /\ \A i \in 1..Len(out) : out'[i] = out[i]
        /\ out'[Len(out) + 1] = event
    BY <1>1, <1>4
  <2>2. \A i \in 1..Len(out') : i \in 1..Len(out) \/ i = Len(out) + 1
    BY <1>1, <2>1
  <2> QED
    BY <1>1, <1>2, <1>4, <2>1, <2>2 DEF OutBehindNode
<1> QED
  BY <1>3, <1>4

\* A step either leaves out alone or extends it as MarkedStream allows.
LEMMA MarkedStreamStep ==
    ASSUME TypeOK, TypeOK', WatermarkIsLowest, OutBehindNode, [Next]_vars
    PROVE  OutBehindNode' /\ [Downstream!Next]_out
<1>0. /\ out \in Seq(Event)
      /\ current_watermark \in Nat /\ current_epoch \in Nat
      /\ \A i \in 1..Len(out) : out[i].val \in Int
  <2>1. out \in Seq(Event)
    BY DEF TypeOK
  <2> QED
    BY <2>1, EventVal, TimestampsAssumption, BoundsAssumption DEF TypeOK
<1>1. CASE HandleElement
  <2>1. todo # <<>> /\ current.event.kind = "Element"
    BY <1>1 DEF HandleElement, Handling
  <2>2. current.event \in Event /\ sender \in InChannels
    BY <2>1, CurrentType
  <2>3. EffectiveTs(current.event) > current_watermark
    <3>1. current_watermark <= watermarks[sender]
      BY <2>2 DEF WatermarkIsLowest
    <3>2. EffectiveTs(current.event) \in Int
      BY <2>1, <2>2, EventVal, TimestampsAssumption DEF EffectiveTs
    <3>3. watermarks[sender] \in Nat
      <4>1. Timestamps \cup {0} \subseteq Nat
        BY TimestampsAssumption
      <4> QED
        BY <2>2, <4>1 DEF TypeOK
    <3> QED
      BY <1>0, <1>1, <3>1, <3>2, <3>3 DEF HandleElement, IsLate
  <2>4. EffectiveTs(current.event) \in Int
    BY <2>1, <2>2, EventVal, TimestampsAssumption DEF EffectiveTs
  <2>5. Downstream!Follows(current.event)
    BY <1>0, <2>1, <2>3, <2>4 DEF OutBehindNode, Downstream!Follows
  <2>6. /\ out' = Append(out, current.event)
        /\ UNCHANGED <<current_watermark, current_epoch>>
    BY <1>1 DEF HandleElement, node
  <2> QED
    BY <1>0, <2>1, <2>2, <2>5, <2>6, EmitStep, OutStep
<1>2. CASE AdvanceWatermark
  <2>1. NewWatermark \in Timestamps /\ NewWatermark > current_watermark
    BY <1>2, NewWatermarkType DEF AdvanceWatermark, Handling
  <2>2. /\ current_watermark' = NewWatermark
        /\ current_epoch' = current_epoch
        /\ out' = out \/ out' = Append(out, Watermark(NewWatermark))
    BY <1>2, Zenon DEF AdvanceWatermark
  <2>3. Watermark(NewWatermark) \in Event
    BY <2>1, Zenon DEF Event
  <2>4. NewWatermark \in Nat
    BY <2>1, TimestampsAssumption
  <2>5. Downstream!Follows(Watermark(NewWatermark))
    BY <1>0, <2>1, <2>4 DEF OutBehindNode, Downstream!Follows, Watermark
  <2>6. OutBehindNode'
    <3>1. /\ Watermark(NewWatermark).kind = "Watermark"
          /\ Watermark(NewWatermark).val = NewWatermark
      BY DEF Watermark
    <3> QED
      BY <1>0, <2>1, <2>2, <2>3, <2>4, <3>1, OutStep
  <2> QED
    BY <2>2, <2>3, <2>5, <2>6, EmitStep
<1>3. CASE CompleteEpoch
  <2>1. val \in 1..MaxEpoch /\ val > current_epoch
    BY <1>3, CurrentType, EventVal DEF CompleteEpoch, Handling
  <2>2. /\ current_epoch' = val /\ current_watermark' = current_watermark
        /\ out' = Append(out, Epoch(val))
    BY <1>3 DEF CompleteEpoch
  <2>3. Epoch(val) \in Event
    BY <2>1, Zenon DEF Event
  <2>4. Downstream!Follows(Epoch(val))
    BY <1>0, <2>1, BoundsAssumption DEF OutBehindNode, Downstream!Follows, Epoch
  <2>5. OutBehindNode'
    <3>1. Epoch(val).kind = "Epoch" /\ Epoch(val).val = val
      BY DEF Epoch
    <3> QED
      BY <1>0, <2>1, <2>2, <2>3, <3>1, BoundsAssumption, OutStep
  <2> QED
    BY <2>2, <2>3, <2>4, <2>5, EmitStep
<1>4. CASE HandleDeath
  <2>1. Death \in Event /\ Death.kind = "Death"
    BY DEF Event, Death
  <2>2. /\ out' = Append(out, Death)
        /\ UNCHANGED <<current_watermark, current_epoch>>
    BY <1>4 DEF HandleDeath, node
  <2>3. Downstream!Follows(Death)
    BY <2>1 DEF Downstream!Follows
  <2> QED
    BY <1>0, <2>1, <2>2, <2>3, EmitStep, OutStep
<1>5. CASE FailEpoch
  <2>1. val \in 1..MaxEpoch /\ val > current_epoch
    BY <1>5, CurrentType, EventVal DEF FailEpoch, Handling
  <2>2. /\ current_epoch' = val /\ current_watermark' = current_watermark
        /\ out' = out
    BY <1>5 DEF FailEpoch
  <2> QED
    BY <1>0, <2>1, <2>2, OutStep
<1>6. CASE UNCHANGED <<out, current_watermark, current_epoch>>
  BY <1>0, <1>6, OutStep
<1> QED
  BY <1>1, <1>2, <1>3, <1>4, <1>5, <1>6
     DEF Next, ReceiveMessage, BufferMessage, AcceptMessage, HandleEvent,
         DropElement, IgnoreWatermark, RecordWatermark, IgnoreEpoch,
         BlockChannel, Kill, vars, node

\* What reaches channel_strategy.add is a marked stream: the node downstream
\* sees rising watermarks and epochs, and no late element.
THEOREM Refinement == Spec => EmitsMarkedStream
<1>1. Init => Downstream!Init /\ OutBehindNode
  BY DEF Init, Downstream!Init, OutBehindNode
<1>2. TypeOK /\ TypeOK' /\ WatermarkIsLowest /\ OutBehindNode /\ [Next]_vars
        => OutBehindNode' /\ [Downstream!Next]_out
  BY MarkedStreamStep
<1> QED
  BY <1>1, <1>2, TypeCorrect, WatermarkMerge, PTL
     DEF Spec, EmitsMarkedStream, Downstream!Spec

(****************************************************************************)
(* Blocking, buffering and replay.                                          *)
(****************************************************************************)

\* Only messages of blocked channels are in the buffer.
BufferIsBlocked ==
    \A i \in 1..Len(message_buffer) :
        message_buffer[i].sender \in blocked_channels

\* A handler that is not replaying iterates over one message: it has a single
\* sender, which is not blocked, and an epoch can only be its last event.
TodoIsMessage ==
    ~replaying =>
        \A i \in 1..Len(todo) :
            /\ todo[i].sender \notin blocked_channels
            /\ todo[i].sender = todo[1].sender
            /\ i < Len(todo) => todo[i].event.kind # "Epoch"

\* A replay iterates over what was the buffer, which is empty by then.
ReplayIsBuffer ==
    replaying => todo # <<>> /\ message_buffer = <<>>

BlockingInv ==
    /\ BufferIsBlocked
    /\ TodoIsMessage
    /\ ReplayIsBuffer
    /\ OneReplayAtATime
    /\ blocked_channels = InChannels => save_failed

\* Counting the blocked channels is comparing them with in_channels.
LEMMA AllBlockedMeansAll ==
    ASSUME NEW S \in SUBSET InChannels
    PROVE  AllBlocked(S) <=> S = InChannels
    BY FS_Subset, InChannelsAssumption DEF AllBlocked

\* When an epoch is complete, no replay is running and the loop is at its end.
LEMMA CompletionEndsMessage ==
    ASSUME TypeOK, BlockingInv, Handling("Epoch"),
           AllBlocked(blocked_channels \cup {sender})
    PROVE  /\ ~replaying
           /\ Tail(todo) = <<>> /\ todo = <<current>>
           /\ blocked_channels \cup {sender} = InChannels
           /\ sender \notin blocked_channels
<1>1. /\ todo # <<>> /\ todo \in Seq(Entry)
      /\ current = todo[1] /\ sender = todo[1].sender
      /\ sender \in InChannels /\ current.event.kind = "Epoch"
  BY CurrentType DEF Handling, TypeOK, sender
<1>2. blocked_channels \cup {sender} = InChannels
  BY <1>1, AllBlockedMeansAll DEF TypeOK
<1>3. Len(todo) \in Nat \ {0}
  BY <1>1
<1>4. ~replaying
  BY <1>1, <1>2, <1>3 DEF BlockingInv, OneReplayAtATime
<1>5. sender \notin blocked_channels
  BY <1>1, <1>3, <1>4 DEF BlockingInv, TodoIsMessage
<1>6. Len(todo) = 1
  <2>1. ~(1 < Len(todo))
    BY <1>1, <1>3, <1>4 DEF BlockingInv, TodoIsMessage
  <2> QED
    BY <1>3, <2>1
<1>7. Tail(todo) = <<>> /\ todo = <<current>>
  BY <1>1, <1>6
<1> QED
  BY <1>2, <1>4, <1>5, <1>7

\* A pass of the loop that leaves the channels as they are.
LEMMA ContinueBlocking ==
    ASSUME TypeOK, BlockingInv, todo # <<>>, Continue,
           UNCHANGED <<blocked_channels, message_buffer, save_failed>>
    PROVE  BlockingInv'
<1>1. /\ todo \in Seq(Entry) /\ todo' = Tail(todo)
      /\ Len(todo) \in Nat \ {0}
      /\ Len(todo') = Len(todo) - 1
      /\ \A i \in 1..Len(todo') : todo'[i] = todo[i+1]
  BY CurrentType DEF Continue, TypeOK
<1>2. replaying' = (replaying /\ todo' # <<>>)
  BY DEF Continue
<1>3. BufferIsBlocked' /\ (blocked_channels' = InChannels => save_failed')
  BY DEF BlockingInv, BufferIsBlocked
<1>4. ReplayIsBuffer'
  BY <1>2 DEF BlockingInv, ReplayIsBuffer
<1>5. CASE replaying
  <2>1. PICK c \in InChannels :
           /\ c \notin blocked_channels
           /\ \A i \in 1..Len(todo) : todo[i].sender # c
    BY <1>5 DEF BlockingInv, OneReplayAtATime
  <2>2. \A i \in 1..Len(todo') : todo'[i].sender # c
    BY <1>1, <2>1
  <2>3. OneReplayAtATime'
    BY <2>1, <2>2 DEF OneReplayAtATime
  <2>4. TodoIsMessage'
    <3>1. CASE todo' = <<>>
      BY <3>1 DEF TodoIsMessage
    <3>2. CASE todo' # <<>>
      BY <1>2, <1>5, <3>2 DEF TodoIsMessage
    <3> QED
      BY <3>1, <3>2
  <2> QED
    BY <1>3, <1>4, <2>3, <2>4 DEF BlockingInv
<1>6. CASE ~replaying
  <2>1. OneReplayAtATime'
    BY <1>2, <1>6 DEF OneReplayAtATime
  <2>2. ASSUME NEW i \in 1..Len(todo')
        PROVE  /\ todo'[i].sender \notin blocked_channels'
               /\ todo'[i].sender = todo'[1].sender
               /\ i < Len(todo') => todo'[i].event.kind # "Epoch"
    <3>1. /\ todo'[i] = todo[i+1] /\ todo'[1] = todo[2]
          /\ i+1 \in 1..Len(todo) /\ 2 \in 1..Len(todo)
          /\ i < Len(todo') => i+1 < Len(todo)
      BY <1>1
    <3> QED
      BY <1>6, <3>1 DEF BlockingInv, TodoIsMessage
  <2> QED
    BY <1>3, <1>4, <2>1, <2>2 DEF BlockingInv, TodoIsMessage
<1> QED
  BY <1>5, <1>6

\* The invariants of blocking and replay are inductive.
LEMMA BlockingInvStep ==
    ASSUME TypeOK, BlockingInv, [Next]_vars
    PROVE  BlockingInv'
<1>1. ASSUME NEW c \in InChannels, NEW events \in Messages(c),
             BufferMessage(c, events)
      PROVE  BlockingInv'
  <2>1. ~replaying /\ todo' = <<>> /\ ~replaying'
    BY <1>1 DEF BufferMessage, Idle, BlockingInv, ReplayIsBuffer
  <2> DEFINE new == Entries(c, events)
  <2>2. /\ new \in Seq(Entry) /\ message_buffer \in Seq(Entry)
        /\ message_buffer' = message_buffer \o new
        /\ \A i \in 1..Len(new) : new[i].sender = c
    <3>1. sent \in [InChannels -> Nat] /\ sent_epoch \in [InChannels -> 0..MaxEpoch]
          /\ message_buffer \in Seq(Entry)
      BY DEF TypeOK
    <3>2. new \in Seq(Entry) /\ \A i \in 1..Len(new) : new[i].sender = c
      BY <3>1, MessageEntries
    <3> QED
      BY <1>1, <3>1, <3>2 DEF BufferMessage
  <2> HIDE DEF new
  <2>3. blocked_channels' = blocked_channels /\ c \in blocked_channels
        /\ save_failed' = save_failed
    BY <1>1 DEF BufferMessage
  <2>4. BufferIsBlocked'
    <3>1. ASSUME NEW i \in 1..Len(message_buffer')
          PROVE  message_buffer'[i].sender \in blocked_channels
      <4>1. CASE i <= Len(message_buffer)
        BY <2>2, <4>1 DEF BlockingInv, BufferIsBlocked
      <4>2. CASE i > Len(message_buffer)
        <5>1. /\ message_buffer'[i] = new[i - Len(message_buffer)]
              /\ i - Len(message_buffer) \in 1..Len(new)
          BY <2>2, <4>2
        <5> QED
          BY <2>2, <2>3, <5>1
      <4> QED
        BY <2>2, <4>1, <4>2
    <3> QED
      BY <2>3, <3>1 DEF BufferIsBlocked
  <2> QED
    BY <2>1, <2>3, <2>4
       DEF BlockingInv, TodoIsMessage, ReplayIsBuffer, OneReplayAtATime
<1>2. ASSUME NEW c \in InChannels, NEW events \in Messages(c),
             AcceptMessage(c, events)
      PROVE  BlockingInv'
  <2>1. ~replaying /\ ~replaying'
    BY <1>2 DEF AcceptMessage, Idle, BlockingInv, ReplayIsBuffer
  <2>2. UNCHANGED <<blocked_channels, message_buffer, save_failed>>
        /\ c \notin blocked_channels
    BY <1>2 DEF AcceptMessage, node
  <2>3. /\ Len(todo') \in Nat \ {0}
        /\ \A i \in 1..Len(todo') :
             /\ todo'[i].sender = c
             /\ i < Len(todo') => todo'[i].event.kind # "Epoch"
    <3>1. sent \in [InChannels -> Nat] /\ sent_epoch \in [InChannels -> 0..MaxEpoch]
      BY DEF TypeOK
    <3>2. todo' = Entries(c, events)
      BY <1>2 DEF AcceptMessage
    <3> QED
      BY <3>1, <3>2, MessageEntries
  <2>4. TodoIsMessage'
    BY <2>2, <2>3 DEF TodoIsMessage
  <2> QED
    BY <2>1, <2>2, <2>4
       DEF BlockingInv, BufferIsBlocked, ReplayIsBuffer, OneReplayAtATime
<1>3. CASE DropElement \/ HandleElement \/ IgnoreWatermark \/ RecordWatermark
             \/ IgnoreEpoch \/ HandleDeath
  BY <1>3, ContinueBlocking
     DEF DropElement, HandleElement, IgnoreWatermark, RecordWatermark,
         IgnoreEpoch, HandleDeath, Handling, node
<1>4. CASE AdvanceWatermark
  <2>1. /\ todo # <<>>
        /\ UNCHANGED <<blocked_channels, message_buffer, save_failed>>
    BY <1>4 DEF AdvanceWatermark, Handling
  <2>2. CASE ~replaying
    BY <1>4, <2>1, <2>2, ContinueBlocking, Zenon DEF AdvanceWatermark
  <2>3. CASE replaying
    <3>1. todo' = <<>> /\ ~replaying'
      BY <1>4, <2>3 DEF AdvanceWatermark
    <3> QED
      BY <2>1, <3>1
         DEF BlockingInv, BufferIsBlocked, TodoIsMessage, ReplayIsBuffer,
             OneReplayAtATime
  <2> QED
    BY <2>2, <2>3
<1>5. CASE BlockChannel
  <2>1. /\ todo # <<>> /\ current.event.kind = "Epoch"
        /\ blocked_channels' = blocked_channels \cup {sender}
        /\ ~AllBlocked(blocked_channels')
        /\ UNCHANGED <<message_buffer, save_failed>>
        /\ todo' = Tail(todo)
        /\ replaying' = (replaying /\ todo' # <<>>)
    BY <1>5 DEF BlockChannel, Handling, Continue
  <2>2. /\ todo \in Seq(Entry) /\ sender \in InChannels
        /\ Len(todo) \in Nat \ {0}
        /\ Len(todo') = Len(todo) - 1
        /\ \A i \in 1..Len(todo') : todo'[i] = todo[i+1]
        /\ current = todo[1] /\ sender = todo[1].sender
    BY <2>1, CurrentType, SMTT(30) DEF TypeOK, sender
  <2>3. BufferIsBlocked'
    BY <2>1 DEF BlockingInv, BufferIsBlocked
  <2>4. blocked_channels' # InChannels
    BY <2>1 DEF AllBlocked
  <2>5. ReplayIsBuffer'
    BY <2>1 DEF BlockingInv, ReplayIsBuffer
  <2>6. CASE replaying
    <3>1. PICK c \in InChannels :
             /\ c \notin blocked_channels
             /\ \A i \in 1..Len(todo) : todo[i].sender # c
      BY <2>6 DEF BlockingInv, OneReplayAtATime
    <3>2. c \notin blocked_channels'
      BY <2>1, <2>2, <3>1
    <3>3. \A i \in 1..Len(todo') : todo'[i].sender # c
      BY <2>2, <3>1
    <3>4. TodoIsMessage'
      <4>1. CASE todo' = <<>>
        BY <4>1 DEF TodoIsMessage
      <4>2. CASE todo' # <<>>
        BY <2>1, <2>6, <4>2 DEF TodoIsMessage
      <4> QED
        BY <4>1, <4>2
    <3> QED
      BY <2>3, <2>4, <2>5, <3>2, <3>3, <3>4 DEF BlockingInv, OneReplayAtATime
  <2>7. CASE ~replaying
    <3>1. ~(1 < Len(todo))
      BY <2>1, <2>2, <2>7 DEF BlockingInv, TodoIsMessage
    <3>2. Len(todo') = 0
      BY <2>2, <3>1
    <3>3. ~replaying'
      BY <2>1, <2>7
    <3> QED
      BY <2>3, <2>4, <2>5, <3>2, <3>3
         DEF BlockingInv, TodoIsMessage, OneReplayAtATime
  <2> QED
    BY <2>6, <2>7
<1>6. CASE CompleteEpoch
  <2>1. /\ ~replaying /\ Tail(todo) = <<>>
        /\ sender \notin blocked_channels
        /\ sender \in InChannels
    BY <1>6, CompletionEndsMessage, StepType, CurrentType DEF CompleteEpoch
  <2>2. /\ blocked_channels' = {} /\ message_buffer' = <<>>
        /\ replaying' = (message_buffer # <<>>)
    BY <1>6, Zenon DEF CompleteEpoch
  <2>0. todo' = message_buffer /\ message_buffer \in Seq(Entry)
    <3>1. todo' = message_buffer \o <<>> /\ message_buffer \in Seq(Entry)
      BY <1>6, <2>1 DEF CompleteEpoch, TypeOK
    <3> QED
      BY <3>1
  <2>3. \A i \in 1..Len(todo') : todo'[i].sender # sender
    BY <2>0, <2>1 DEF BlockingInv, BufferIsBlocked
  <2>4. OneReplayAtATime'
    BY <2>1, <2>2, <2>3 DEF OneReplayAtATime
  <2>5. TodoIsMessage'
    <3>1. CASE message_buffer = <<>>
      BY <2>0, <3>1 DEF TodoIsMessage
    <3>2. CASE message_buffer # <<>>
      BY <2>2, <3>2 DEF TodoIsMessage
    <3> QED
      BY <3>1, <3>2
  <2>6. BufferIsBlocked' /\ blocked_channels' # InChannels
    BY <2>2, InChannelsAssumption DEF BufferIsBlocked
  <2>7. ReplayIsBuffer'
    BY <2>0, <2>2 DEF ReplayIsBuffer
  <2> QED
    BY <2>4, <2>5, <2>6, <2>7 DEF BlockingInv
<1>7. CASE FailEpoch
  <2>1. /\ todo' = <<>> /\ ~replaying' /\ save_failed'
        /\ blocked_channels' = blocked_channels \cup {sender}
        /\ message_buffer' = message_buffer
    BY <1>7 DEF FailEpoch
  <2> QED
    BY <2>1
       DEF BlockingInv, BufferIsBlocked, TodoIsMessage, ReplayIsBuffer,
           OneReplayAtATime
<1>8. CASE UNCHANGED <<blocked_channels, message_buffer, todo, replaying,
                       save_failed>>
  BY <1>8
     DEF BlockingInv, BufferIsBlocked, TodoIsMessage, ReplayIsBuffer,
         OneReplayAtATime
<1> QED
  BY <1>1, <1>2, <1>3, <1>4, <1>5, <1>6, <1>7, <1>8
     DEF Next, ReceiveMessage, HandleEvent, Kill, vars, node

\* Blocking and replay, for any number of channels and however far the senders
\* are ahead: a replay never completes an epoch (so nothing recurses), and the
\* node only waits with every channel blocked after a failed checkpoint.
THEOREM BlockingIsSafe == Spec => [](OneReplayAtATime /\ NeverFullyBlocked)
<1>1. Init => BlockingInv
  BY InChannelsAssumption
     DEF Init, BlockingInv, BufferIsBlocked, TodoIsMessage, ReplayIsBuffer,
         OneReplayAtATime
<1>2. TypeOK /\ BlockingInv /\ [Next]_vars => BlockingInv'
  BY BlockingInvStep
<1>3. BlockingInv => OneReplayAtATime /\ NeverFullyBlocked
  BY DEF BlockingInv, BufferIsBlocked, NeverFullyBlocked
<1> QED
  BY <1>1, <1>2, <1>3, TypeCorrect, PTL DEF Spec

\* A replay leaves a channel that is neither blocked nor in the replay, so that
\* handle_events and after_state_save never recurse and the second
\* metrics.borrow_mut() of the Epoch arm cannot panic.
THEOREM OneReplay == Spec => []OneReplayAtATime
  BY BlockingIsSafe, PTL

(****************************************************************************)
(* Every event of a channel is handled once, in the order sent.             *)
(****************************************************************************)

\* Pending entries are entries: their positions are numbers.
LEMMA SeqEntry ==
    ASSUME NEW s \in Seq(Entry)
    PROVE  /\ Len(s) \in Nat
           /\ \A i \in 1..Len(s) : s[i] \in Entry
           /\ \A i \in 1..Len(s) : s[i].pos \in Nat /\ s[i].sender \in InChannels
<1>1. Len(s) \in Nat /\ \A i \in 1..Len(s) : s[i] \in Entry
  OBVIOUS
<1>2. \A x \in Entry : x.pos \in Nat /\ x.sender \in InChannels
  BY DEF Entry
<1> QED
  BY <1>1, <1>2

\* Entries of other channels, before or after, do not matter to the stream of c.
LEMMA StreamShift ==
    ASSUME NEW s \in Seq(Entry), NEW r \in Seq(Entry), NEW k \in Nat,
           NEW c \in InChannels, NEW from \in Nat, NEW to \in Nat,
           k + Len(s) <= Len(r),
           \A i \in 1..Len(s) : r[k+i] = s[i],
           \A j \in 1..Len(r) : j \notin k+1 .. k+Len(s) => r[j].sender # c
    PROVE  IsStream(s, c, from, to) <=> IsStream(r, c, from, to)
<1>1. Len(s) \in Nat /\ Len(r) \in Nat
  BY SeqEntry
<1>2. \A i \in 1..Len(s) : k+i \in 1..Len(r) /\ r[k+i] = s[i]
  BY <1>1
<1>3. \A j \in 1..Len(r) :
         r[j].sender = c => j-k \in 1..Len(s) /\ r[j] = s[j-k]
  <2>1. ASSUME NEW j \in 1..Len(r), r[j].sender = c
        PROVE  j-k \in 1..Len(s) /\ r[j] = s[j-k]
    <3>1. j \in k+1 .. k+Len(s)
      BY <2>1
    <3>2. j-k \in 1..Len(s) /\ k+(j-k) = j
      BY <1>1, <3>1
    <3> QED
      BY <1>2, <3>2
  <2> QED
    BY <2>1
<1>4. ASSUME IsStream(s, c, from, to)
      PROVE  IsStream(r, c, from, to)
  <2>1. ASSUME NEW i \in 1..Len(r), r[i].sender = c
        PROVE  /\ r[i].pos \in from+1 .. to
               /\ \A j \in 1..(i-1) : r[j].sender = c => r[j].pos < r[i].pos
    <3>1. i-k \in 1..Len(s) /\ r[i] = s[i-k]
      BY <1>3, <2>1
    <3>2. ASSUME NEW j \in 1..(i-1), r[j].sender = c
          PROVE  r[j].pos < r[i].pos
      <4>1. j \in 1..Len(r)
        BY <1>1
      <4>2. j-k \in 1..Len(s) /\ r[j] = s[j-k]
        BY <1>3, <3>2, <4>1
      <4>3. j-k \in 1..((i-k)-1)
        BY <1>1, <4>2
      <4> QED
        BY <1>4, <2>1, <3>1, <3>2, <4>2, <4>3, SMTT(30) DEF IsStream
    <3> QED
      BY <1>4, <2>1, <3>1, <3>2 DEF IsStream
  <2>2. ASSUME NEW p \in from+1 .. to
        PROVE  \E i \in 1..Len(r) : r[i].sender = c /\ r[i].pos = p
    <3>1. PICK i \in 1..Len(s) : s[i].sender = c /\ s[i].pos = p
      BY <1>4 DEF IsStream
    <3> QED
      BY <1>2, <3>1
  <2> QED
    BY <2>1, <2>2 DEF IsStream
<1>5. ASSUME IsStream(r, c, from, to)
      PROVE  IsStream(s, c, from, to)
  <2>1. ASSUME NEW i \in 1..Len(s), s[i].sender = c
        PROVE  /\ s[i].pos \in from+1 .. to
               /\ \A j \in 1..(i-1) : s[j].sender = c => s[j].pos < s[i].pos
    <3>1. k+i \in 1..Len(r) /\ r[k+i] = s[i]
      BY <1>2
    <3>2. ASSUME NEW j \in 1..(i-1), s[j].sender = c
          PROVE  s[j].pos < s[i].pos
      <4>1. j \in 1..Len(s)
        BY <1>1
      <4>2. r[k+j] = s[j]
        BY <1>2, <4>1
      <4>3. k+j \in 1..((k+i)-1)
        BY <1>1, <4>1
      <4> QED
        BY <1>5, <2>1, <3>1, <3>2, <4>2, <4>3, SMTT(30) DEF IsStream
    <3> QED
      BY <1>5, <2>1, <3>1, <3>2 DEF IsStream
  <2>2. ASSUME NEW p \in from+1 .. to
        PROVE  \E i \in 1..Len(s) : s[i].sender = c /\ s[i].pos = p
    <3>1. PICK i \in 1..Len(r) : r[i].sender = c /\ r[i].pos = p
      BY <1>5 DEF IsStream
    <3> QED
      BY <1>3, <3>1
  <2> QED
    BY <2>1, <2>2 DEF IsStream
<1> QED
  BY <1>4, <1>5

\* Handling the first pending event.
LEMMA StreamTail ==
    ASSUME NEW s \in Seq(Entry), s # <<>>, NEW c \in InChannels,
           NEW from \in Nat, NEW to \in Nat, IsStream(s, c, from, to)
    PROVE  /\ s[1].sender = c =>
                /\ s[1].pos <= to
                /\ IsStream(Tail(s), c, s[1].pos, to)
           /\ s[1].sender # c => IsStream(Tail(s), c, from, to)
<1> DEFINE t == Tail(s)
<1>1. t \in Seq(Entry) /\ Len(s) \in Nat \ {0} /\ Len(t) = Len(s) - 1
  OBVIOUS
<1>2. \A i \in 1..Len(t) : t[i] = s[i+1] /\ i+1 \in 1..Len(s)
  BY <1>1
<1>3. \A i \in 1..Len(s) : s[i].pos \in Nat
  BY SeqEntry
<1> HIDE DEF t
<1>4. ASSUME s[1].sender # c
      PROVE  IsStream(t, c, from, to)
  <2>1. 1 + Len(t) <= Len(s) /\ \A i \in 1..Len(t) : s[1+i] = t[i]
    BY <1>1, <1>2
  <2>2. \A j \in 1..Len(s) : j \notin 1+1 .. 1+Len(t) => s[j].sender # c
    BY <1>1, <1>4
  <2> QED
    BY <1>1, <2>1, <2>2, StreamShift
<1>5. ASSUME s[1].sender = c
      PROVE  s[1].pos <= to /\ IsStream(t, c, s[1].pos, to)
  <2>1. 1 \in 1..Len(s)
    BY <1>1
  <2>2. s[1].pos \in from+1 .. to
    BY <1>5, <2>1 DEF IsStream
  <2>3. s[1].pos = from + 1
    <3>1. from + 1 \in from+1 .. to
      BY <2>2
    <3>2. PICK i \in 1..Len(s) : s[i].sender = c /\ s[i].pos = from + 1
      BY <3>1 DEF IsStream
    <3>3. CASE i # 1
      <4>1. 1 \in 1..(i-1)
        BY <1>1, <3>3
      <4>2. s[1].pos < s[i].pos
        BY <1>5, <3>2, <4>1 DEF IsStream
      <4> QED
        BY <2>2, <3>2, <4>2
    <3> QED
      BY <3>2, <3>3
  <2>4. ASSUME NEW i \in 1..Len(t), t[i].sender = c
        PROVE  /\ t[i].pos \in s[1].pos+1 .. to
               /\ \A j \in 1..(i-1) : t[j].sender = c => t[j].pos < t[i].pos
    <3>1. t[i] = s[i+1] /\ i+1 \in 1..Len(s) /\ 1 \in 1..((i+1)-1)
      BY <1>1, <1>2
    <3>2. s[i+1].pos \in from+1 .. to /\ s[1].pos < s[i+1].pos
      BY <1>5, <2>4, <3>1 DEF IsStream
    <3>3. ASSUME NEW j \in 1..(i-1), t[j].sender = c
          PROVE  t[j].pos < t[i].pos
      <4>1. j \in 1..Len(t) /\ j+1 \in 1..((i+1)-1)
        BY <1>1
      <4>2. t[j] = s[j+1]
        BY <1>2, <4>1
      <4> QED
        BY <2>4, <3>1, <3>3, <4>1, <4>2 DEF IsStream
    <3>4. t[i].pos \in s[1].pos+1 .. to
      BY <2>2, <3>1, <3>2
    <3> QED
      BY <3>3, <3>4
  <2>5. ASSUME NEW p \in s[1].pos+1 .. to
        PROVE  \E i \in 1..Len(t) : t[i].sender = c /\ t[i].pos = p
    <3>1. p \in from+1 .. to /\ p # s[1].pos
      BY <2>2, <2>3
    <3>2. PICK i \in 1..Len(s) : s[i].sender = c /\ s[i].pos = p
      BY <3>1 DEF IsStream
    <3>3. i # 1
      BY <3>1, <3>2
    <3>4. i-1 \in 1..Len(t) /\ (i-1)+1 = i
      BY <1>1, <3>3
    <3>5. t[i-1] = s[i]
      BY <1>2, <3>4
    <3> QED
      BY <3>2, <3>4, <3>5
  <2>6. s[1].pos <= to
    BY <2>2
  <2> QED
    BY <2>4, <2>5, <2>6 DEF IsStream
<1> QED
  BY <1>4, <1>5 DEF t

\* New events of channel c, numbered from the last one it has sent, at the end.
LEMMA StreamAppend ==
    ASSUME NEW s \in Seq(Entry), NEW new \in Seq(Entry), NEW c \in InChannels,
           NEW from \in Nat, NEW to \in Nat, from <= to,
           IsStream(s, c, from, to),
           \A i \in 1..Len(new) : new[i].sender = c /\ new[i].pos = to + i
    PROVE  IsStream(s \o new, c, from, to + Len(new))
<1> DEFINE r == s \o new
<1>1. /\ Len(s) \in Nat /\ Len(new) \in Nat
      /\ r \in Seq(Entry) /\ Len(r) = Len(s) + Len(new)
  OBVIOUS
<1>2. \A i \in 1..Len(s) : i \in 1..Len(r) /\ r[i] = s[i]
  BY <1>1
<1>3. \A i \in 1..Len(new) : Len(s)+i \in 1..Len(r) /\ r[Len(s)+i] = new[i]
  BY <1>1
<1> HIDE DEF r
<1>4. \A i \in 1..Len(r) :
         i \notin 1..Len(s) =>
            /\ i - Len(s) \in 1..Len(new)
            /\ r[i].sender = c /\ r[i].pos = to + (i - Len(s))
  <2>1. ASSUME NEW i \in 1..Len(r), i \notin 1..Len(s)
        PROVE  /\ i - Len(s) \in 1..Len(new)
               /\ r[i].sender = c /\ r[i].pos = to + (i - Len(s))
    <3> DEFINE m == i - Len(s)
    <3>1. m \in 1..Len(new) /\ Len(s) + m = i
      BY <1>1, <2>1
    <3> HIDE DEF m
    <3>2. r[i] = new[m]
      BY <1>3, <3>1
    <3> QED
      BY <3>1, <3>2 DEF m
  <2> QED
    BY <2>1
<1>5. ASSUME NEW i \in 1..Len(r), r[i].sender = c
      PROVE  /\ r[i].pos \in from+1 .. to + Len(new)
             /\ \A j \in 1..(i-1) : r[j].sender = c => r[j].pos < r[i].pos
  <2>1. CASE i \in 1..Len(s)
    <3>1. r[i] = s[i] /\ \A j \in 1..(i-1) : r[j] = s[j]
      BY <1>1, <1>2, <2>1
    <3>2. r[i].pos \in from+1 .. to
      BY <1>5, <2>1, <3>1 DEF IsStream
    <3>3. \A j \in 1..(i-1) : r[j].sender = c => r[j].pos < r[i].pos
      BY <1>5, <2>1, <3>1 DEF IsStream
    <3>4. r[i].pos \in from+1 .. to + Len(new)
      BY <1>1, <3>2
    <3> QED
      BY <3>3, <3>4
  <2>2. CASE i \notin 1..Len(s)
    <3>1. i - Len(s) \in 1..Len(new) /\ r[i].pos = to + (i - Len(s))
      BY <1>4, <2>2
    <3>2. ASSUME NEW j \in 1..(i-1), r[j].sender = c
          PROVE  r[j].pos < r[i].pos
      <4>1. j \in 1..Len(r)
        BY <1>1
      <4>2. CASE j \in 1..Len(s)
        <5>1. s[j].pos \in from+1 .. to
          BY <1>2, <3>2, <4>2 DEF IsStream
        <5> QED
          BY <1>1, <1>2, <3>1, <4>2, <5>1
      <4>3. CASE j \notin 1..Len(s)
        <5>1. r[j].pos = to + (j - Len(s))
          BY <1>4, <4>1, <4>3
        <5> QED
          BY <1>1, <3>1, <5>1
      <4> QED
        BY <4>2, <4>3
    <3>3. r[i].pos \in from+1 .. to + Len(new)
      BY <1>1, <3>1
    <3> QED
      BY <3>2, <3>3
  <2> QED
    BY <2>1, <2>2
<1>6. ASSUME NEW p \in from+1 .. to + Len(new)
      PROVE  \E i \in 1..Len(r) : r[i].sender = c /\ r[i].pos = p
  <2>1. CASE p <= to
    <3>1. p \in from+1 .. to
      BY <1>1, <2>1
    <3>2. PICK i \in 1..Len(s) : s[i].sender = c /\ s[i].pos = p
      BY <3>1 DEF IsStream
    <3> QED
      BY <1>2, <3>2
  <2>2. CASE p > to
    <3>1. p - to \in 1..Len(new) /\ to + (p - to) = p
      BY <1>1, <2>2
    <3>2. new[p - to].sender = c /\ new[p - to].pos = p
      BY <3>1
    <3> QED
      BY <1>3, <3>1, <3>2
  <2> QED
    BY <1>1, <2>1, <2>2
<1> QED
  BY <1>5, <1>6 DEF IsStream, r

\* Entries of a concatenation.
LEMMA Concat ==
    ASSUME NEW s \in Seq(Entry), NEW t \in Seq(Entry)
    PROVE  /\ s \o t \in Seq(Entry)
           /\ Len(s \o t) = Len(s) + Len(t)
           /\ \A i \in 1..Len(s) : (s \o t)[0+i] = s[i]
           /\ \A i \in 1..Len(t) : (s \o t)[Len(s)+i] = t[i]
<1>1. s \o t \in Seq(Entry) /\ Len(s \o t) = Len(s) + Len(t)
  OBVIOUS
<1>2. \A i \in 1..Len(s) : (s \o t)[i] = s[i] /\ 0+i = i
  OBVIOUS
<1>3. \A i \in 1..Len(t) : (s \o t)[Len(s)+i] = t[i]
  OBVIOUS
<1> QED
  BY <1>1, <1>2, <1>3

\* What the node has taken of each channel, and what is pending of it.
StreamsInv(t, pending, n) ==
    \A c \in InChannels : t[c] <= n[c] /\ IsStream(pending, c, t[c], n[c])

FifoInv ==
    /\ status = "faulty" => todo = <<>>
    /\ status # "faulty" => StreamsInv(taken, Pending, sent)

\* What is pending is a sequence of entries, and its head is being handled.
LEMMA PendingShape ==
    ASSUME TypeOK
    PROVE  /\ Pending \in Seq(Entry)
           /\ todo # <<>> =>
                /\ Pending # <<>>
                /\ Pending[1] = current
                /\ Tail(Pending) = Tail(todo) \o message_buffer
<1>1. todo \in Seq(Entry) /\ message_buffer \in Seq(Entry)
  BY DEF TypeOK
<1>2. Pending \in Seq(Entry)
  BY <1>1 DEF Pending
<1>3. ASSUME todo # <<>>
      PROVE  /\ Pending # <<>> /\ Pending[1] = current
             /\ Tail(Pending) = Tail(todo) \o message_buffer
  <2>1. Pending # <<>> /\ Pending[1] = current
    BY <1>1, <1>3 DEF Pending, current
  <2>2. Tail(Pending) = Tail(todo) \o message_buffer
    BY <1>1, <1>3 DEF Pending
  <2> QED
    BY <2>1, <2>2
<1> QED
  BY <1>2, <1>3

\* One pass of the loop takes the head of what is pending.
LEMMA TakeHead ==
    ASSUME TypeOK, NEW kind, Handling(kind), StreamsInv(taken, Pending, sent),
           Pending' = Tail(Pending)
    PROVE  StreamsInv(taken, Pending, sent)'
<1>1. /\ todo # <<>> /\ sent' = sent
      /\ taken' = [taken EXCEPT ![sender] = current.pos]
  BY StepType DEF Handling
<1>2. /\ taken \in [InChannels -> Nat] /\ sent \in [InChannels -> Nat]
      /\ sender \in InChannels /\ sender = current.sender
      /\ current.pos \in Nat
  BY <1>1, CurrentType DEF TypeOK, sender
<1>3. /\ Pending \in Seq(Entry) /\ Pending # <<>> /\ Pending[1] = current
  BY <1>1, PendingShape
<1>4. ASSUME NEW c \in InChannels
      PROVE  taken'[c] <= sent[c] /\ IsStream(Tail(Pending), c, taken'[c], sent[c])
  <2>1. /\ taken[c] \in Nat /\ sent[c] \in Nat /\ taken[c] <= sent[c]
        /\ IsStream(Pending, c, taken[c], sent[c])
    BY <1>2 DEF StreamsInv
  <2>2. /\ current.sender = c =>
             /\ current.pos <= sent[c]
             /\ IsStream(Tail(Pending), c, current.pos, sent[c])
        /\ current.sender # c => IsStream(Tail(Pending), c, taken[c], sent[c])
    BY <1>3, <2>1, StreamTail
  <2>3. CASE c = sender
    <3>1. taken'[c] = current.pos
      BY <1>1, <1>2, <2>3
    <3> QED
      BY <1>2, <2>2, <2>3, <3>1
  <2>4. CASE c # sender
    <3>1. taken'[c] = taken[c]
      BY <1>1, <1>2, <2>4
    <3> QED
      BY <1>2, <2>1, <2>2, <2>4, <3>1
  <2> QED
    BY <2>3, <2>4
<1> QED
  BY <1>1, <1>4 DEF StreamsInv

\* A message is received: its events come after what is pending of its sender.
LEMMA ReceiveKeepsStreams ==
    ASSUME TypeOK, NEW d \in InChannels, NEW events \in Messages(d),
           Send(d, events), taken' = taken, StreamsInv(taken, Pending, sent),
           \/ Pending' = Pending \o Entries(d, events)
           \/ /\ Pending' = Entries(d, events) \o Pending
              /\ \A i \in 1..Len(Pending) : Pending[i].sender # d
    PROVE  StreamsInv(taken, Pending, sent)'
<1> DEFINE new == Entries(d, events)
<1> DEFINE p == Pending
<1>1. /\ taken \in [InChannels -> Nat] /\ sent \in [InChannels -> Nat]
      /\ sent_epoch \in [InChannels -> 0..MaxEpoch]
  BY DEF TypeOK
<1>2. /\ new \in Seq(Entry) /\ Len(new) = Len(events) /\ Len(new) \in Nat
      /\ \A i \in 1..Len(new) : new[i].sender = d /\ new[i].pos = sent[d] + i
  <2>1. events \in Seq(Event)
    BY <1>1, MessageShape
  <2>2. /\ new \in Seq(Entry) /\ Len(new) = Len(events)
        /\ \A i \in 1..Len(events) : new[i].sender = d /\ new[i].pos = sent[d] + i
    BY <1>1, <2>1, EntriesShape
  <2> QED
    BY <2>1, <2>2
<1>3. sent' = [sent EXCEPT ![d] = sent[d] + Len(new)]
  BY <1>2 DEF Send
<1>4. p \in Seq(Entry) /\ Len(p) \in Nat
  BY PendingShape
<1>5. \/ Pending' = p \o new
      \/ Pending' = new \o p /\ \A i \in 1..Len(p) : p[i].sender # d
  OBVIOUS
<1> HIDE DEF new, p
<1>6. ASSUME NEW c \in InChannels
      PROVE  taken[c] <= sent'[c] /\ IsStream(Pending', c, taken[c], sent'[c])
  <2>1. /\ taken[c] \in Nat /\ sent[c] \in Nat /\ taken[c] <= sent[c]
        /\ IsStream(p, c, taken[c], sent[c])
    BY <1>1 DEF StreamsInv, p
  <2>2. CASE c # d
    <3>1. sent'[c] = sent[c]
      BY <1>1, <1>3, <2>2
    <3>2. CASE Pending' = p \o new
      <4>1. /\ p \o new \in Seq(Entry) /\ Len(p \o new) = Len(p) + Len(new)
            /\ \A i \in 1..Len(p) : (p \o new)[0+i] = p[i]
        BY <1>2, <1>4, Concat
      <4>2. ASSUME NEW j \in 1..Len(p \o new), j \notin 0+1 .. 0+Len(p)
            PROVE  (p \o new)[j].sender # c
        <5>1. /\ j - Len(p) \in 1..Len(new)
              /\ (p \o new)[j] = new[j - Len(p)]
          BY <1>2, <1>4, <4>1, <4>2
        <5> QED
          BY <1>2, <2>2, <5>1
      <4>3. 0 \in Nat /\ 0 + Len(p) <= Len(p \o new)
        BY <1>2, <1>4, <4>1
      <4> QED
        BY <1>4, <2>1, <3>1, <3>2, <4>1, <4>2, <4>3, StreamShift
    <3>3. CASE Pending' = new \o p
      <4>1. /\ new \o p \in Seq(Entry) /\ Len(new \o p) = Len(new) + Len(p)
            /\ \A i \in 1..Len(p) : (new \o p)[Len(new)+i] = p[i]
        BY <1>2, <1>4, Concat
      <4>2. ASSUME NEW j \in 1..Len(new \o p),
                   j \notin Len(new)+1 .. Len(new)+Len(p)
            PROVE  (new \o p)[j].sender # c
        <5>1. j \in 1..Len(new) /\ (new \o p)[j] = new[j]
          BY <1>2, <1>4, <4>1, <4>2
        <5> QED
          BY <1>2, <2>2, <5>1
      <4>3. Len(new) + Len(p) <= Len(new \o p)
        BY <1>2, <1>4, <4>1
      <4> QED
        BY <1>2, <1>4, <2>1, <3>1, <3>3, <4>1, <4>2, <4>3, StreamShift
    <3> QED
      BY <1>5, <3>2, <3>3
  <2>3. CASE c = d
    <3>1. sent'[c] = sent[c] + Len(new) /\ taken[c] <= sent'[c]
      BY <1>1, <1>2, <1>3, <2>1, <2>3
    <3>2. CASE Pending' = p \o new
      <4>1. IsStream(p \o new, c, taken[c], sent[c] + Len(new))
        BY <1>2, <1>4, <2>1, <2>3, StreamAppend
      <4> QED
        BY <3>1, <3>2, <4>1
    <3>3. CASE Pending' = new \o p /\ \A i \in 1..Len(p) : p[i].sender # d
      <4>1. taken[c] = sent[c]
        <5>1. sent[c] \notin taken[c]+1 .. sent[c]
          BY <2>1, <2>3, <3>3 DEF IsStream
        <5> QED
          BY <2>1, <5>1
      <4>2. IsStream(<<>>, c, taken[c], sent[c])
        BY <2>1, <4>1 DEF IsStream
      <4>3. <<>> \in Seq(Entry) /\ <<>> \o new = new
        BY <1>2
      <4>4. IsStream(new, c, taken[c], sent'[c])
        <5>1. IsStream(<<>> \o new, c, taken[c], sent[c] + Len(new))
          BY <1>2, <2>1, <2>3, <4>2, <4>3, StreamAppend
        <5> QED
          BY <3>1, <4>3, <5>1
      <4>5. /\ new \o p \in Seq(Entry) /\ Len(new \o p) = Len(new) + Len(p)
            /\ \A i \in 1..Len(new) : (new \o p)[0+i] = new[i]
        BY <1>2, <1>4, Concat
      <4>6. ASSUME NEW j \in 1..Len(new \o p), j \notin 0+1 .. 0+Len(new)
            PROVE  (new \o p)[j].sender # c
        <5>1. j - Len(new) \in 1..Len(p) /\ (new \o p)[j] = p[j - Len(new)]
          BY <1>2, <1>4, <4>5, <4>6
        <5> QED
          BY <2>3, <3>3, <5>1
      <4>7. /\ 0 \in Nat /\ 0 + Len(new) <= Len(new \o p)
            /\ sent'[c] \in Nat
        BY <1>2, <1>4, <2>1, <3>1, <4>5
      <4> QED
        BY <1>2, <2>1, <3>1, <3>3, <4>4, <4>5, <4>6, <4>7, StreamShift
    <3> QED
      BY <1>5, <3>2, <3>3
  <2> QED
    BY <2>2, <2>3
<1> QED
  BY <1>6 DEF StreamsInv

\* Continuing the loop takes the head of what is pending.
LEMMA ContinueTakesHead ==
    ASSUME TypeOK, todo # <<>>, Continue, message_buffer' = message_buffer
    PROVE  Pending' = Tail(Pending)
    BY PendingShape DEF Continue, Pending

\* Every step keeps the channels' order.
LEMMA FifoInvStep ==
    ASSUME TypeOK, BlockingInv, FifoInv, [Next]_vars
    PROVE  FifoInv'
<1>1. ASSUME NEW d \in InChannels, NEW events \in Messages(d),
             BufferMessage(d, events)
      PROVE  FifoInv'
  <2>1. /\ status' = status /\ status # "faulty" /\ taken' = taken
        /\ Send(d, events) /\ todo = <<>> /\ todo' = <<>>
        /\ message_buffer' = message_buffer \o Entries(d, events)
    BY <1>1 DEF BufferMessage, Idle
  <2>2. /\ message_buffer \in Seq(Entry)
        /\ Entries(d, events) \in Seq(Entry)
    BY <2>1, SendType DEF TypeOK
  <2>3. Pending' = Pending \o Entries(d, events)
    <3>1. Pending = message_buffer /\ Pending' = message_buffer'
      BY <2>1, <2>2 DEF Pending
    <3> QED
      BY <2>1, <3>1
  <2>4. StreamsInv(taken, Pending, sent)'
    BY <2>1, <2>3, ReceiveKeepsStreams DEF FifoInv
  <2> QED
    BY <2>1, <2>4 DEF FifoInv
<1>2. ASSUME NEW d \in InChannels, NEW events \in Messages(d),
             AcceptMessage(d, events)
      PROVE  FifoInv'
  <2>1. /\ status' = status /\ status # "faulty" /\ taken' = taken
        /\ Send(d, events) /\ todo = <<>> /\ todo' = Entries(d, events)
        /\ message_buffer' = message_buffer /\ d \notin blocked_channels
    BY <1>2 DEF AcceptMessage, Idle, node
  <2>2. /\ message_buffer \in Seq(Entry)
        /\ Entries(d, events) \in Seq(Entry)
    BY <2>1, SendType DEF TypeOK
  <2>3. Pending = message_buffer
    BY <2>1, <2>2 DEF Pending
  <2>4. Pending' = Entries(d, events) \o Pending
    BY <2>1, <2>3 DEF Pending
  <2>5. \A i \in 1..Len(Pending) : Pending[i].sender # d
    BY <2>1, <2>3 DEF BlockingInv, BufferIsBlocked
  <2>6. StreamsInv(taken, Pending, sent)'
    BY <2>1, <2>4, <2>5, ReceiveKeepsStreams DEF FifoInv
  <2> QED
    BY <2>1, <2>6 DEF FifoInv
<1>3. ASSUME NEW kind, Handling(kind), status' # "faulty",
             Pending' = Tail(Pending)
      PROVE  FifoInv'
  <2>1. todo # <<>>
    BY <1>3 DEF Handling
  <2>2. StreamsInv(taken, Pending, sent)
    BY <2>1 DEF FifoInv
  <2>3. StreamsInv(taken, Pending, sent)'
    BY <1>3, <2>2, TakeHead
  <2> QED
    BY <1>3, <2>3 DEF FifoInv
<1>4. \A kind : Handling(kind) => todo # <<>> /\ status # "faulty"
  BY DEF Handling, FifoInv
<1>5. CASE \/ DropElement \/ HandleElement \/ IgnoreWatermark
           \/ RecordWatermark \/ IgnoreEpoch \/ BlockChannel \/ HandleDeath
  <2>1. \E kind : Handling(kind)
    BY <1>5 DEF DropElement, HandleElement, IgnoreWatermark, RecordWatermark,
                IgnoreEpoch, BlockChannel, HandleDeath
  <2>2. /\ Continue /\ message_buffer' = message_buffer
        /\ status' = status \/ status' = "dying"
    BY <1>5 DEF DropElement, HandleElement, IgnoreWatermark, RecordWatermark,
                IgnoreEpoch, BlockChannel, HandleDeath, node
  <2>3. status' # "faulty"
    BY <1>4, <2>1, <2>2
  <2>4. Pending' = Tail(Pending)
    BY <1>4, <2>1, <2>2, ContinueTakesHead
  <2> QED
    BY <1>3, <2>1, <2>3, <2>4
<1>6. CASE AdvanceWatermark
  <2>1. Handling("Watermark") /\ message_buffer' = message_buffer
    BY <1>6 DEF AdvanceWatermark
  <2>2. \/ Continue /\ status' = status
        \/ status' = "faulty" /\ todo' = <<>>
    BY <1>6, Zenon DEF AdvanceWatermark
  <2>3. CASE Continue /\ status' = status
    BY <1>3, <1>4, <2>1, <2>3, ContinueTakesHead
  <2>4. CASE status' = "faulty" /\ todo' = <<>>
    BY <2>4 DEF FifoInv
  <2> QED
    BY <2>2, <2>3, <2>4
<1>7. CASE CompleteEpoch
  <2>1. /\ Handling("Epoch") /\ status' = status
        /\ AllBlocked(blocked_channels \cup {sender})
        /\ message_buffer' = <<>> /\ todo' = message_buffer \o Tail(todo)
    BY <1>7 DEF CompleteEpoch
  <2>2. Tail(todo) = <<>> /\ message_buffer \in Seq(Entry)
    BY <2>1, CompletionEndsMessage DEF TypeOK
  <2>3. Pending' = message_buffer /\ Tail(Pending) = message_buffer
    <3>1. Tail(Pending) = <<>> \o message_buffer
      BY <1>4, <2>1, <2>2, PendingShape
    <3>2. Pending' = (message_buffer \o <<>>) \o <<>>
      BY <2>1, <2>2 DEF Pending
    <3> QED
      BY <2>2, <3>1, <3>2
  <2> QED
    BY <1>3, <1>4, <2>1, <2>3
<1>8. CASE FailEpoch
  <2>1. /\ Handling("Epoch") /\ status' = status /\ todo' = <<>>
        /\ AllBlocked(blocked_channels \cup {sender})
        /\ message_buffer' = message_buffer
    BY <1>8 DEF FailEpoch
  <2>2. Tail(todo) = <<>> /\ message_buffer \in Seq(Entry)
    BY <2>1, CompletionEndsMessage DEF TypeOK
  <2>3. Pending' = Tail(Pending)
    <3>1. Tail(Pending) = <<>> \o message_buffer
      BY <1>4, <2>1, <2>2, PendingShape
    <3> QED
      BY <2>1, <3>1 DEF Pending
  <2> QED
    BY <1>3, <1>4, <2>1, <2>3
<1>9. CASE Kill
  <2>1. /\ status # "faulty" /\ status' # "faulty"
        /\ UNCHANGED <<todo, message_buffer, taken, sent>>
    BY <1>9 DEF Kill, node, senders
  <2> QED
    BY <2>1 DEF FifoInv, StreamsInv, Pending
<1>10. CASE UNCHANGED vars
  <2>1. UNCHANGED <<status, todo, message_buffer, taken, sent>>
    BY <1>10 DEF vars, node, senders
  <2> QED
    BY <2>1 DEF FifoInv, StreamsInv, Pending
<1> QED
  BY <1>1, <1>2, <1>5, <1>6, <1>7, <1>8, <1>9, <1>10
     DEF Next, ReceiveMessage, HandleEvent

\* Blocking, buffering and replay neither lose, repeat nor reorder the events of
\* any channel, for any number of channels and however far senders are ahead.
THEOREM Fifo == Spec => []ChannelsAreFifo
<1>1. Init => FifoInv
  <2> SUFFICES ASSUME Init
               PROVE  FifoInv
    OBVIOUS
  <2>1. /\ status = "running" /\ Pending = <<>>
        /\ taken = [c \in InChannels |-> 0] /\ sent = [c \in InChannels |-> 0]
    BY DEF Init, Pending
  <2>2. \A c \in InChannels : IsStream(<<>>, c, 0, 0)
    BY DEF IsStream
  <2> QED
    BY <2>1, <2>2 DEF FifoInv, StreamsInv
<1>2. Init => BlockingInv
  BY InChannelsAssumption
     DEF Init, BlockingInv, BufferIsBlocked, TodoIsMessage, ReplayIsBuffer,
         OneReplayAtATime
<1>3. TypeOK /\ BlockingInv /\ [Next]_vars => BlockingInv'
  BY BlockingInvStep
<1>4. TypeOK /\ BlockingInv /\ FifoInv /\ [Next]_vars => FifoInv'
  BY FifoInvStep
<1>5. FifoInv => ChannelsAreFifo
  BY DEF FifoInv, StreamsInv, ChannelsAreFifo
<1> QED
  BY <1>1, <1>2, <1>3, <1>4, <1>5, TypeCorrect, PTL DEF Spec

(****************************************************************************)
(* Checkpoints are consistent cuts as long as no sender is more than one     *)
(* epoch ahead of the node.                                                  *)
(*                                                                          *)
(* The argument: with Lead <= 1 every channel is in the node's epoch or in   *)
(* the next one.  A blocked channel has sent the marker of the next epoch    *)
(* and cannot send another, so the buffer holds no marker, the replay blocks *)
(* no channel, and everything handled of a blocked channel ends with its     *)
(* marker.                                                                   *)
(****************************************************************************)

\* Every channel is in the node's epoch or in the next.
EpochsInStep ==
    \A c \in InChannels : sent_epoch[c] \in {current_epoch, current_epoch + 1}

\* Of a blocked channel the node has handled everything up to the marker.
BlockedAtMarker ==
    \A c \in blocked_channels :
        /\ sent_epoch[c] = current_epoch + 1
        /\ taken[c] = marker_at[c][current_epoch + 1]

\* A marker that is about to be handled is the one its channel sent last.
MarkerInTodo ==
    \A i \in 1..Len(todo) :
        todo[i].event.kind = "Epoch" =>
            /\ ~replaying
            /\ todo[i].event.val = current_epoch + 1
            /\ sent_epoch[todo[i].sender] = current_epoch + 1
            /\ todo[i].pos = marker_at[todo[i].sender][current_epoch + 1]

NoMarkerInBuffer ==
    \A i \in 1..Len(message_buffer) : message_buffer[i].event.kind # "Epoch"

Aligning ==
    /\ BlockedAtMarker /\ MarkerInTodo /\ NoMarkerInBuffer
    /\ replaying => blocked_channels = {}

CutInv ==
    /\ EpochsInStep
    /\ saved.epoch <= current_epoch
    /\ CheckpointIsCut
    /\ save_failed => blocked_channels = InChannels /\ todo = <<>>
    /\ ~save_failed => Aligning

\* What a channel may send: the marker of the next epoch only while it is in the
\* node's own, and nothing that moves a marker of a saved epoch.
LEMMA SendKeepsCut ==
    ASSUME Lead <= 1, TypeOK, EpochsInStep, saved.epoch <= current_epoch,
           CheckpointIsCut, NEW d \in InChannels, NEW events \in Messages(d),
           Send(d, events), UNCHANGED <<current_epoch, saved>>
    PROVE  /\ EpochsInStep' /\ CheckpointIsCut'
           /\ \A c \in InChannels :
                c # d => /\ sent_epoch'[c] = sent_epoch[c]
                         /\ marker_at'[c] = marker_at[c]
           /\ events[Len(events)].kind = "Epoch" =>
                /\ sent_epoch[d] = current_epoch
                /\ events[Len(events)].val = current_epoch + 1
                /\ sent_epoch'[d] = current_epoch + 1
                /\ marker_at'[d][current_epoch + 1] = sent[d] + Len(events)
           /\ events[Len(events)].kind # "Epoch" =>
                UNCHANGED <<sent_epoch, marker_at>>
<1> DEFINE last == events[Len(events)]
<1>1. /\ sent \in [InChannels -> Nat] /\ sent_epoch \in [InChannels -> 0..MaxEpoch]
      /\ marker_at \in [InChannels -> [0..MaxEpoch -> Nat]]
      /\ current_epoch \in 0..MaxEpoch
      /\ saved.epoch \in 0..MaxEpoch
      /\ sent_epoch[d] \in {current_epoch, current_epoch + 1}
  BY DEF TypeOK, EpochsInStep
<1>2. last.kind = "Epoch" =>
         last.val = sent_epoch[d] + 1 /\ sent_epoch[d] + 1 \in 1..MaxEpoch
  BY <1>1, MessageShape
<1>3. CASE last.kind # "Epoch"
  <2>1. UNCHANGED <<sent_epoch, marker_at>>
    BY <1>3 DEF Send
  <2> QED
    BY <1>3, <2>1 DEF EpochsInStep, CheckpointIsCut
<1>4. CASE last.kind = "Epoch"
  <2> DEFINE e == last.val
  <2>1. /\ last.val <= current_epoch + Lead
        /\ sent' = [sent EXCEPT ![d] = sent[d] + Len(events)]
        /\ sent_epoch' = [sent_epoch EXCEPT ![d] = e]
        /\ marker_at' = [marker_at EXCEPT
                           ![d] = [marker_at[d] EXCEPT ![e] = sent'[d]]]
    BY <1>4 DEF Send
  <2>2. /\ sent_epoch[d] = current_epoch /\ e = current_epoch + 1
        /\ e \in 0..MaxEpoch
    <3>1. e = sent_epoch[d] + 1 /\ sent_epoch[d] + 1 \in 1..MaxEpoch
      BY <1>2, <1>4
    <3>2. sent_epoch[d] \in Nat /\ current_epoch \in Nat /\ MaxEpoch \in Nat
      BY <1>1, BoundsAssumption
    <3>3. e <= current_epoch + Lead
      BY <2>1
    <3> HIDE DEF e
    <3>4. e <= current_epoch + 1
      BY <3>1, <3>2, <3>3, BoundsAssumption
    <3> QED
      BY <1>1, <3>1, <3>2, <3>4
  <2> HIDE DEF e
  <2>3. /\ sent_epoch'[d] = current_epoch + 1
        /\ sent'[d] = sent[d] + Len(events)
    BY <1>1, <2>1, <2>2
  <2>4. marker_at'[d] = [marker_at[d] EXCEPT ![e] = sent'[d]]
    BY <1>1, <2>1
  <2>5. marker_at'[d][current_epoch + 1] = sent[d] + Len(events)
    BY <1>1, <2>2, <2>3, <2>4
  <2>6. \A c \in InChannels :
           c # d => sent_epoch'[c] = sent_epoch[c] /\ marker_at'[c] = marker_at[c]
    BY <1>1, <2>1
  <2>7. EpochsInStep'
    BY <2>3, <2>6 DEF EpochsInStep
  <2>8. saved.epoch # e
    BY <1>1, <2>2
  <2>9. marker_at'[d][saved.epoch] = marker_at[d][saved.epoch]
    BY <1>1, <2>4, <2>8
  <2>10. CheckpointIsCut'
    BY <2>6, <2>9 DEF CheckpointIsCut
  <2> QED
    BY <1>4, <2>2, <2>3, <2>5, <2>6, <2>7, <2>10 DEF e
<1> QED
  BY <1>3, <1>4

\* A pass of the loop that leaves epochs and channels alone.
LEMMA ContinueKeepsCut ==
    ASSUME TypeOK, BlockingInv, CutInv, NEW kind, Handling(kind), Continue,
           UNCHANGED <<current_epoch, blocked_channels, message_buffer, saved,
                       save_failed>>
    PROVE  CutInv'
<1>1. /\ todo # <<>> /\ UNCHANGED <<sent, sent_epoch, marker_at>>
      /\ taken' = [taken EXCEPT ![sender] = current.pos]
      /\ todo' = Tail(todo)
      /\ taken \in [InChannels -> Nat]
  BY StepType DEF Handling, Continue, TypeOK
<1>2. /\ Len(todo) \in Nat \ {0}
      /\ Len(todo') = Len(todo) - 1
      /\ \A i \in 1..Len(todo') : todo'[i] = todo[i+1]
      /\ sender = todo[1].sender
  BY <1>1, CurrentType DEF TypeOK, sender
<1>3. EpochsInStep' /\ saved'.epoch <= current_epoch' /\ CheckpointIsCut'
  BY <1>1 DEF CutInv, EpochsInStep, CheckpointIsCut
<1>4. ~save_failed /\ ~save_failed' /\ Aligning
  BY <1>1 DEF CutInv
<1>5. replaying' => replaying
  BY Zenon DEF Continue
<1>6. sender \notin blocked_channels
  <2>1. CASE replaying
    BY <1>4, <2>1 DEF Aligning
  <2>2. CASE ~replaying
    BY <1>2, <2>2 DEF BlockingInv, TodoIsMessage
  <2> QED
    BY <2>1, <2>2
<1>7. BlockedAtMarker'
  BY <1>1, <1>4, <1>6 DEF Aligning, BlockedAtMarker, TypeOK
<1>8. ASSUME NEW i \in 1..Len(todo'), todo'[i].event.kind = "Epoch"
      PROVE  /\ ~replaying'
             /\ todo'[i].event.val = current_epoch + 1
             /\ sent_epoch[todo'[i].sender] = current_epoch + 1
             /\ todo'[i].pos = marker_at[todo'[i].sender][current_epoch + 1]
  <2>1. todo'[i] = todo[i+1] /\ i+1 \in 1..Len(todo)
    BY <1>2
  <2> QED
    BY <1>4, <1>5, <1>8, <2>1 DEF Aligning, MarkerInTodo
<1>9. MarkerInTodo'
  BY <1>1, <1>8 DEF MarkerInTodo
<1>10. NoMarkerInBuffer' /\ (replaying' => blocked_channels' = {})
  BY <1>4, <1>5 DEF Aligning, NoMarkerInBuffer
<1> QED
  BY <1>3, <1>4, <1>7, <1>9, <1>10 DEF CutInv, Aligning

\* Every step keeps the invariant, if no sender is more than one epoch ahead.
LEMMA CutInvStep ==
    ASSUME Lead <= 1, TypeOK, BlockingInv, CutInv, [Next]_vars
    PROVE  CutInv'
<1>1. ASSUME NEW d \in InChannels, NEW events \in Messages(d),
             BufferMessage(d, events)
      PROVE  CutInv'
  <2>1. /\ Send(d, events) /\ d \in blocked_channels /\ todo = <<>>
        /\ message_buffer' = message_buffer \o Entries(d, events)
        /\ UNCHANGED <<current_epoch, blocked_channels, todo, replaying, saved,
                       save_failed, taken>>
    BY <1>1 DEF BufferMessage, Idle
  <2>2. /\ EpochsInStep' /\ CheckpointIsCut'
        /\ events[Len(events)].kind = "Epoch" => sent_epoch[d] = current_epoch
        /\ events[Len(events)].kind # "Epoch" =>
             UNCHANGED <<sent_epoch, marker_at>>
    BY <2>1, SendKeepsCut DEF CutInv
  <2>3. CASE save_failed
    BY <2>1, <2>2, <2>3 DEF CutInv
  <2>4. CASE ~save_failed
    <3>1. Aligning /\ current_epoch \in Nat
      BY <2>4 DEF CutInv, TypeOK
    <3>2. events[Len(events)].kind # "Epoch"
      BY <2>1, <2>2, <3>1 DEF Aligning, BlockedAtMarker
    <3>3. BlockedAtMarker' /\ MarkerInTodo'
      BY <2>1, <2>2, <3>1, <3>2 DEF Aligning, BlockedAtMarker, MarkerInTodo
    <3> DEFINE new == Entries(d, events)
    <3>4. /\ new \in Seq(Entry) /\ message_buffer \in Seq(Entry)
          /\ \A i \in 1..Len(new) : new[i].event.kind # "Epoch"
      <4>1. /\ sent \in [InChannels -> Nat] /\ message_buffer \in Seq(Entry)
            /\ sent_epoch \in [InChannels -> 0..MaxEpoch]
        BY DEF TypeOK
      <4>2. /\ events \in Seq(Event) /\ Len(events) \in Nat \ {0}
            /\ \A i \in 1..(Len(events) - 1) : events[i].kind # "Epoch"
        BY <4>1, MessageShape
      <4>3. \A i \in 1..Len(events) : events[i].kind # "Epoch"
        BY <3>2, <4>2
      <4>4. /\ new \in Seq(Entry) /\ Len(new) = Len(events)
            /\ \A i \in 1..Len(events) : new[i].event = events[i]
        BY <4>1, <4>2, EntriesShape, SMTT(30)
      <4> QED
        BY <4>1, <4>3, <4>4
    <3> HIDE DEF new
    <3>5. ASSUME NEW i \in 1..Len(message_buffer \o new)
          PROVE  (message_buffer \o new)[i].event.kind # "Epoch"
      <4>1. CASE i \in 1..Len(message_buffer)
        <5>1. (message_buffer \o new)[i] = message_buffer[i]
          BY <3>4, <4>1
        <5> QED
          BY <3>1, <4>1, <5>1 DEF Aligning, NoMarkerInBuffer
      <4>2. CASE i \notin 1..Len(message_buffer)
        <5>1. /\ i - Len(message_buffer) \in 1..Len(new)
              /\ (message_buffer \o new)[i] = new[i - Len(message_buffer)]
          BY <3>4, <4>2
        <5> QED
          BY <3>4, <5>1
      <4> QED
        BY <4>1, <4>2
    <3>6. NoMarkerInBuffer'
      BY <2>1, <3>5 DEF NoMarkerInBuffer, new
    <3>7. replaying' => blocked_channels' = {}
      BY <2>1, <3>1 DEF Aligning
    <3> QED
      BY <2>1, <2>2, <2>4, <3>3, <3>6, <3>7 DEF CutInv, Aligning
  <2> QED
    BY <2>3, <2>4
<1>2. ASSUME NEW d \in InChannels, NEW events \in Messages(d),
             AcceptMessage(d, events)
      PROVE  CutInv'
  <2>1. /\ Send(d, events) /\ d \notin blocked_channels /\ todo = <<>>
        /\ todo' = Entries(d, events)
        /\ UNCHANGED <<current_epoch, blocked_channels, message_buffer,
                       replaying, saved, save_failed, taken>>
    BY <1>2 DEF AcceptMessage, Idle, node
  <2>2. /\ EpochsInStep' /\ CheckpointIsCut'
        /\ \A c \in InChannels :
             c # d => sent_epoch'[c] = sent_epoch[c] /\ marker_at'[c] = marker_at[c]
        /\ events[Len(events)].kind = "Epoch" =>
             /\ events[Len(events)].val = current_epoch + 1
             /\ sent_epoch'[d] = current_epoch + 1
             /\ marker_at'[d][current_epoch + 1] = sent[d] + Len(events)
    BY <2>1, SendKeepsCut DEF CutInv
  <2>3. ~save_failed /\ Aligning
    BY <2>1 DEF CutInv
  <2>4. ~replaying
    BY <2>1 DEF BlockingInv, ReplayIsBuffer
  <2>5. BlockedAtMarker'
    BY <2>1, <2>2, <2>3 DEF Aligning, BlockedAtMarker, TypeOK
  <2>6. ASSUME NEW i \in 1..Len(todo'), todo'[i].event.kind = "Epoch"
        PROVE  /\ todo'[i].event.val = current_epoch + 1
               /\ todo'[i].sender = d
               /\ sent_epoch'[d] = current_epoch + 1
               /\ todo'[i].pos = marker_at'[d][current_epoch + 1]
    <3>1. /\ sent \in [InChannels -> Nat]
          /\ sent_epoch \in [InChannels -> 0..MaxEpoch]
      BY DEF TypeOK
    <3>2. /\ events \in Seq(Event) /\ Len(events) \in Nat \ {0}
          /\ \A j \in 1..(Len(events) - 1) : events[j].kind # "Epoch"
      BY <3>1, MessageShape
    <3>3. /\ Len(todo') = Len(events)
          /\ todo'[i].sender = d /\ todo'[i].event = events[i]
          /\ todo'[i].pos = sent[d] + i
      <4>1. /\ Len(todo') = Len(events)
            /\ \A j \in 1..Len(events) :
                 /\ todo'[j].sender = d /\ todo'[j].event = events[j]
                 /\ todo'[j].pos = sent[d] + j
        BY <2>1, <3>1, <3>2, EntriesShape
      <4> QED
        BY <4>1
    <3>4. i = Len(events)
      BY <2>6, <3>2, <3>3
    <3> QED
      BY <2>2, <2>6, <3>3, <3>4
  <2>7. MarkerInTodo'
    BY <2>1, <2>4, <2>6 DEF MarkerInTodo
  <2>8. NoMarkerInBuffer' /\ (replaying' => blocked_channels' = {})
    BY <2>1, <2>3, <2>4 DEF Aligning, NoMarkerInBuffer
  <2> QED
    BY <2>1, <2>2, <2>3, <2>5, <2>7, <2>8 DEF CutInv, Aligning
<1>3. CASE \/ DropElement \/ HandleElement \/ IgnoreWatermark
           \/ RecordWatermark \/ IgnoreEpoch \/ HandleDeath
  <2>1. \E kind : Handling(kind)
    BY <1>3 DEF DropElement, HandleElement, IgnoreWatermark, RecordWatermark,
                IgnoreEpoch, HandleDeath
  <2>2. Continue /\ UNCHANGED <<current_epoch, blocked_channels, message_buffer,
                                saved, save_failed>>
    BY <1>3 DEF DropElement, HandleElement, IgnoreWatermark, RecordWatermark,
                IgnoreEpoch, HandleDeath, node
  <2> QED
    BY <2>1, <2>2, ContinueKeepsCut
<1>4. CASE AdvanceWatermark
  <2>1. /\ Handling("Watermark")
        /\ UNCHANGED <<current_epoch, blocked_channels, message_buffer, saved,
                       save_failed>>
    BY <1>4 DEF AdvanceWatermark
  <2>2. Continue \/ (replaying /\ todo' = <<>> /\ ~replaying')
    BY <1>4, Zenon DEF AdvanceWatermark
  <2>3. CASE Continue
    BY <2>1, <2>3, ContinueKeepsCut
  <2>4. CASE replaying /\ todo' = <<>> /\ ~replaying'
    <3>1. /\ todo # <<>> /\ UNCHANGED <<sent_epoch, marker_at>>
      BY <2>1, StepType
    <3>2. ~save_failed /\ Aligning /\ blocked_channels = {}
      BY <2>4, <3>1 DEF CutInv, Aligning
    <3>3. Aligning'
      BY <2>1, <2>4, <3>2
         DEF Aligning, BlockedAtMarker, MarkerInTodo, NoMarkerInBuffer
    <3>4. EpochsInStep' /\ saved'.epoch <= current_epoch' /\ CheckpointIsCut'
      BY <2>1, <3>1 DEF CutInv, EpochsInStep, CheckpointIsCut
    <3> QED
      BY <2>1, <3>2, <3>3, <3>4 DEF CutInv
  <2> QED
    BY <2>2, <2>3, <2>4
<1>5. ASSUME Handling("Epoch")
      PROVE  /\ ~save_failed /\ ~replaying
             /\ Aligning
             /\ todo # <<>> /\ Tail(todo) = <<>>
             /\ sender \in InChannels /\ sender \notin blocked_channels
             /\ val = current_epoch + 1
             /\ sent_epoch[sender] = current_epoch + 1
             /\ current.pos = marker_at[sender][current_epoch + 1]
             /\ taken' \in [InChannels -> Nat]
             /\ taken'[sender] = current.pos
             /\ \A c \in InChannels : c # sender => taken'[c] = taken[c]
             /\ UNCHANGED <<sent_epoch, marker_at>>
  <2>1. /\ todo # <<>> /\ current.event.kind = "Epoch"
        /\ taken' = [taken EXCEPT ![sender] = current.pos]
        /\ taken' \in [InChannels -> Nat]
        /\ UNCHANGED <<sent_epoch, marker_at>>
    BY <1>5, StepType DEF Handling
  <2>2. ~save_failed /\ Aligning
    BY <2>1 DEF CutInv
  <2>3. /\ todo \in Seq(Entry) /\ Len(todo) \in Nat \ {0}
        /\ current = todo[1] /\ sender = todo[1].sender
        /\ sender \in InChannels /\ val = todo[1].event.val
        /\ taken \in [InChannels -> Nat]
    <3>1. todo \in Seq(Entry) /\ taken \in [InChannels -> Nat]
      BY DEF TypeOK
    <3>2. Len(todo) \in Nat \ {0}
      BY <2>1, <3>1
    <3>3. current = todo[1] /\ sender \in InChannels /\ val = current.event.val
      BY <2>1, CurrentType
    <3> QED
      BY <3>1, <3>2, <3>3 DEF sender
  <2>4. /\ ~replaying
        /\ val = current_epoch + 1
        /\ sent_epoch[sender] = current_epoch + 1
        /\ current.pos = marker_at[sender][current_epoch + 1]
    BY <2>1, <2>2, <2>3 DEF Aligning, MarkerInTodo
  <2>5. sender \notin blocked_channels /\ ~(1 < Len(todo))
    BY <2>1, <2>3, <2>4 DEF BlockingInv, TodoIsMessage
  <2>6. Tail(todo) = <<>>
    BY <2>3, <2>5
  <2> QED
    BY <2>1, <2>2, <2>3, <2>4, <2>5, <2>6
<1>6. CASE BlockChannel
  <2>1. /\ Handling("Epoch") /\ todo' = Tail(todo)
        /\ blocked_channels' = blocked_channels \cup {sender}
        /\ replaying' = (replaying /\ Tail(todo) # <<>>)
        /\ UNCHANGED <<current_epoch, message_buffer, saved, save_failed>>
    BY <1>6 DEF BlockChannel, Continue
  <2>2. todo' = <<>> /\ ~replaying'
    BY <1>5, <2>1
  <2>3. BlockedAtMarker'
    BY <1>5, <2>1 DEF Aligning, BlockedAtMarker, TypeOK
  <2>4. MarkerInTodo' /\ NoMarkerInBuffer'
    BY <1>5, <2>1, <2>2 DEF Aligning, MarkerInTodo, NoMarkerInBuffer
  <2>5. EpochsInStep' /\ saved'.epoch <= current_epoch' /\ CheckpointIsCut'
    BY <1>5, <2>1 DEF CutInv, EpochsInStep, CheckpointIsCut
  <2> QED
    BY <1>5, <2>1, <2>2, <2>3, <2>4, <2>5 DEF CutInv, Aligning
<1>7. CASE CompleteEpoch
  <2>1. /\ Handling("Epoch") /\ AllBlocked(blocked_channels \cup {sender})
        /\ current_epoch' = val
        /\ saved' = [epoch |-> val, taken |-> taken', buffer |-> message_buffer]
        /\ blocked_channels' = {} /\ message_buffer' = <<>>
        /\ todo' = message_buffer \o Tail(todo)
        /\ save_failed' = save_failed
    BY <1>7 DEF CompleteEpoch
  <2>2. blocked_channels \cup {sender} = InChannels
    BY <2>1, CompletionEndsMessage
  <2>3. \A c \in InChannels :
           /\ sent_epoch[c] = current_epoch + 1
           /\ taken'[c] = marker_at[c][current_epoch + 1]
    BY <1>5, <2>1, <2>2 DEF Aligning, BlockedAtMarker
  <2>4. current_epoch \in Nat /\ message_buffer \in Seq(Entry)
    BY DEF TypeOK
  <2>5. /\ current_epoch' = current_epoch + 1
        /\ saved'.epoch = current_epoch + 1 /\ saved'.taken = taken'
    BY <1>5, <2>1
  <2>6. EpochsInStep' /\ saved'.epoch <= current_epoch' /\ CheckpointIsCut'
    BY <1>5, <2>1, <2>3, <2>4, <2>5 DEF EpochsInStep, CheckpointIsCut
  <2>7. todo' = message_buffer
    <3>1. todo' = message_buffer \o <<>>
      BY <1>5, <2>1
    <3> QED
      BY <2>4, <3>1
  <2>8. Aligning'
    BY <1>5, <2>1, <2>7
       DEF Aligning, BlockedAtMarker, MarkerInTodo, NoMarkerInBuffer
  <2> QED
    BY <1>5, <2>1, <2>6, <2>8 DEF CutInv
<1>8. CASE FailEpoch
  <2>1. /\ Handling("Epoch") /\ todo' = <<>> /\ save_failed'
        /\ blocked_channels' = blocked_channels \cup {sender}
        /\ AllBlocked(blocked_channels') /\ current_epoch' = val
        /\ saved' = saved
    BY <1>8 DEF FailEpoch
  <2>2. blocked_channels' = InChannels
    BY <2>1, CompletionEndsMessage
  <2>3. \A c \in InChannels : sent_epoch[c] = current_epoch + 1
    BY <1>5, <2>1, <2>2 DEF Aligning, BlockedAtMarker
  <2>4. current_epoch \in Nat /\ saved.epoch \in Nat
    BY DEF TypeOK
  <2>5. EpochsInStep' /\ saved'.epoch <= current_epoch' /\ CheckpointIsCut'
    BY <1>5, <2>1, <2>3, <2>4 DEF CutInv, EpochsInStep, CheckpointIsCut
  <2> QED
    BY <2>1, <2>2, <2>5 DEF CutInv
<1>9. CASE Kill \/ UNCHANGED vars
  <2>1. UNCHANGED <<current_epoch, blocked_channels, message_buffer, todo,
                    replaying, saved, save_failed, sent_epoch, marker_at, taken>>
    BY <1>9 DEF Kill, vars, node, senders
  <2> QED
    BY <2>1
       DEF CutInv, EpochsInStep, CheckpointIsCut, Aligning, BlockedAtMarker,
           MarkerInTodo, NoMarkerInBuffer
<1> QED
  BY <1>1, <1>2, <1>3, <1>4, <1>6, <1>7, <1>8, <1>9
     DEF Next, ReceiveMessage, HandleEvent

\* If no sender is more than one epoch ahead of the node, every checkpoint is a
\* consistent cut of the input streams (with Lead = 2 it need not be).
THEOREM CheckpointsAreCuts == Lead <= 1 /\ Spec => []CheckpointIsCut
<1>1. Init => CutInv
  <2> SUFFICES ASSUME Init
               PROVE  CutInv
    OBVIOUS
  <2>1. \A c \in InChannels : marker_at[c][0] = 0 /\ sent_epoch[c] = 0
    BY BoundsAssumption DEF Init
  <2>2. /\ current_epoch = 0 /\ saved.epoch = 0
        /\ \A c \in InChannels : saved.taken[c] = 0
    BY DEF Init
  <2>3. EpochsInStep /\ saved.epoch <= current_epoch /\ CheckpointIsCut
    BY <2>1, <2>2 DEF EpochsInStep, CheckpointIsCut
  <2>4. Aligning /\ ~save_failed
    BY DEF Init, Aligning, BlockedAtMarker, MarkerInTodo, NoMarkerInBuffer
  <2> QED
    BY <2>3, <2>4 DEF CutInv
<1>2. Init => BlockingInv
  BY InChannelsAssumption
     DEF Init, BlockingInv, BufferIsBlocked, TodoIsMessage, ReplayIsBuffer,
         OneReplayAtATime
<1>3. TypeOK /\ BlockingInv /\ [Next]_vars => BlockingInv'
  BY BlockingInvStep
<1>4. Lead <= 1 /\ TypeOK /\ BlockingInv /\ CutInv /\ [Next]_vars => CutInv'
  BY CutInvStep
<1>5. CutInv => CheckpointIsCut
  BY DEF CutInv
<1>6. CASE Lead <= 1
  <2>1. TypeOK /\ BlockingInv /\ CutInv /\ [Next]_vars => CutInv'
    BY <1>4, <1>6
  <2>2. Spec => []CheckpointIsCut
    BY <1>1, <1>2, <1>3, <1>5, <2>1, TypeCorrect, PTL DEF Spec
  <2> QED
    BY <2>2
<1> QED
  BY <1>6
=============================================================================
