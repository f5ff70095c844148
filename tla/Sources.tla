------------------------------- MODULE Sources -------------------------------
(* The sources that read a collection, a file or sockets (src/stream/source),  *)
(* with the SourceContext they share and the IO component (src/util/io.rs)     *)
(* that reads the sockets. What they send downstream is collected in `out'.    *)
EXTENDS Naturals, FiniteSets, FiniteSetsExt, SequencesExt

CONSTANTS
    Configurations,      \* the kinds of source, with their parameters
    RescheduleEvery,     \* RESCHEDULE_EVERY
    MaxTs,               \* bound: timestamps and times of the clock
    MaxTicks,            \* bound: periodic watermarks
    None

VARIABLES source,             \* the configuration of this source
          input,              \* connection -> places of what is not read yet
          closed,             \* connections that are not read any more
          mailbox,            \* messages of the IO component to the source
          pc,                 \* of a finite source: "idle", "reading" or "done"
          left,               \* records left in this call of process_collection
          counter,            \* elements since the last watermark
          current_watermark,  \* of the SourceContext
          clock,              \* system time
          ticks,              \* periodic watermarks so far
          out                 \* what was sent, with the record's place

context == <<counter, current_watermark, out>>
vars == <<source, input, closed, mailbox, pc, left, context, clock, ticks>>

\* One of the constructors: connections is 1 but for the peers of a TCP socket,
\* records bounds what each of them sends.
IsConfiguration(c) ==
    /\ c.kind \in {"collection", "file", "tcp", "udp"}
    /\ c.has_timestamp_extractor \in BOOLEAN
    /\ c.connections \in Nat \ {0} /\ (c.kind # "tcp" => c.connections = 1)
    /\ c.watermark_interval \in Nat /\ c.records \in Nat
    /\ c.kind \in {"tcp", "udp"} => c.watermark_interval > 0

ASSUME SourcesAssumption ==
    /\ \A c \in Configurations : IsConfiguration(c)
    /\ RescheduleEvery \in Nat \ {0}
    /\ MaxTs \in Nat \ {0} /\ MaxTicks \in Nat
    /\ None \notin Nat

Kind == source.kind
HasExtractor == source.has_timestamp_extractor
watermark_interval == source.watermark_interval
Connections == 1 .. source.connections
IsSocket == Kind \in {"tcp", "udp"}
Max2(a, b) == IF a > b THEN a ELSE b

Init ==
    /\ source \in Configurations
    /\ input \in [Connections -> {[k \in 1 .. n |-> k] : n \in 0 .. source.records}]
    /\ closed = {} /\ mailbox = <<>>
    /\ pc = "idle" /\ left = 0
    /\ counter = 0 /\ current_watermark = 0 /\ out = <<>>
    /\ clock \in 0 .. MaxTs /\ ticks = 0

-----------------------------------------------------------------------------
\* What becomes one element: the records, or bytes, from one place to another.
Piece(c, first, last) == [from |-> c, first |-> first, last |-> last]
\* extract_element; the operator outputs the element as it is.
Element(p, ts) == [kind |-> "element", from |-> p.from, first |-> p.first, last |-> p.last,
                   ts |-> IF HasExtractor THEN ts ELSE None]
\* watermark_update
Raised(ts) == Max2(current_watermark, ts)
\* A mutant: the system time as it is.
GeneratedFromClock(wm) == IF HasExtractor THEN wm ELSE clock
\* generate_watermark, given the watermark so far
Generated(wm) == IF HasExtractor THEN wm ELSE Max2(wm, clock)
WatermarkEvent(wm) == [kind |-> "watermark", ts |-> wm]

\* process, for data from which the extractor gets ts. The finite sources count
\* what they process and generate a watermark after watermark_interval elements.
Process(p, ts) ==
    LET wm == IF HasExtractor THEN Raised(ts) ELSE current_watermark
        due == ~ IsSocket /\ counter + 1 = watermark_interval
    IN  /\ current_watermark' = IF due THEN Generated(wm) ELSE wm
        /\ out' = out \o <<Element(p, ts)>>
                      \o IF due THEN <<WatermarkEvent(Generated(wm))>> ELSE <<>>
        /\ counter' = IF due THEN 0 ELSE IF IsSocket THEN counter ELSE counter + 1
Timestamps == 1 .. MaxTs

GenerateWatermark ==
    /\ current_watermark' = Generated(current_watermark)
    /\ out' = Append(out, WatermarkEvent(Generated(current_watermark)))
    /\ UNCHANGED counter

\* CollectionSource: ContinueSending runs process_collection for the next part
\* of the collection, and asks for another run while there is more.
Me == 1
Read == input' = [input EXCEPT ![Me] = Tail(@)]

\* A mutant: each part counts its elements from zero.
StartPartAfresh ==
    /\ Kind = "collection" /\ pc = "idle"
    /\ left' = IF RescheduleEvery < Len(input[Me]) THEN RescheduleEvery ELSE Len(input[Me])
    /\ pc' = "reading"
    /\ counter' = 0
    /\ UNCHANGED <<source, input, closed, mailbox, current_watermark, out, clock, ticks>>
StartPart ==
    /\ Kind = "collection" /\ pc = "idle"
    /\ left' = IF RescheduleEvery < Len(input[Me]) THEN RescheduleEvery ELSE Len(input[Me])
    /\ pc' = "reading"
    /\ UNCHANGED <<source, input, closed, mailbox, context, clock, ticks>>
ProcessRecord ==
    /\ Kind = "collection" /\ pc = "reading" /\ left > 0
    /\ \E ts \in Timestamps : Process(Piece(Me, Head(input[Me]), Head(input[Me])), ts)
    /\ Read
    /\ left' = left - 1
    /\ UNCHANGED <<source, closed, mailbox, pc, clock, ticks>>
EndPart ==
    /\ Kind = "collection" /\ pc = "reading" /\ left = 0
    /\ IF input[Me] # <<>>
       THEN pc' = "idle" /\ UNCHANGED context
       ELSE pc' = "done" /\ GenerateWatermark
    /\ UNCHANGED <<source, input, closed, mailbox, left, clock, ticks>>

\* LocalFileSource::process_file
OpenFile ==
    /\ Kind = "file" /\ pc = "idle"
    /\ pc' \in {"reading", "done"}
    /\ UNCHANGED <<source, input, closed, mailbox, left, context, clock, ticks>>
\* A line that cannot be read or parsed is skipped.
ReadLine ==
    /\ Kind = "file" /\ pc = "reading" /\ input[Me] # <<>>
    /\ \/ \E ts \in Timestamps : Process(Piece(Me, Head(input[Me]), Head(input[Me])), ts)
       \/ UNCHANGED context
    /\ Read
    /\ UNCHANGED <<source, closed, mailbox, pc, left, clock, ticks>>
\* A mutant: no watermark at the end.
EndOfFileSilently ==
    /\ Kind = "file" /\ pc = "reading" /\ input[Me] = <<>>
    /\ pc' = "done"
    /\ UNCHANGED <<source, input, closed, mailbox, left, context, clock, ticks>>
EndOfFile ==
    /\ Kind = "file" /\ pc = "reading" /\ input[Me] = <<>>
    /\ pc' = "done"
    /\ GenerateWatermark
    /\ UNCHANGED <<source, input, closed, mailbox, left, clock, ticks>>

-----------------------------------------------------------------------------
\* The IO component. What a read of a TCP socket returns need not be a record:
\* it may be a part of one, or several. A datagram is one record.
ReadTcp(c, n) ==
    /\ Kind = "tcp"
    /\ mailbox' = Append(mailbox, Piece(c, input[c][1], input[c][n]))
    /\ input' = [input EXCEPT ![c] = SubSeq(@, n + 1, Len(@))]
    /\ UNCHANGED <<source, closed, pc, left, context, clock, ticks>>
\* SockClosed or SockErr: the source only logs them.
CloseTcp(c) ==
    /\ Kind = "tcp" /\ input[c] = <<>> /\ c \notin closed
    /\ closed' = closed \cup {c}
    /\ mailbox' = Append(mailbox, None)
    /\ UNCHANGED <<source, input, pc, left, context, clock, ticks>>
ReadUdp ==
    /\ Kind = "udp" /\ input[Me] # <<>> /\ Me \notin closed
    /\ mailbox' = Append(mailbox, Piece(Me, Head(input[Me]), Head(input[Me])))
    /\ Read
    /\ UNCHANGED <<source, closed, pc, left, context, clock, ticks>>
\* The loop ends with the first error; nobody is told.
UdpError ==
    /\ Kind = "udp" /\ Me \notin closed
    /\ closed' = {Me}
    /\ UNCHANGED <<source, input, mailbox, pc, left, context, clock, ticks>>

\* A mutant: the latest message first.
ReceiveLatest ==
    /\ mailbox # <<>>
    /\ mailbox' = Front(mailbox)
    /\ \/ Last(mailbox) # None /\ \E ts \in Timestamps : Process(Last(mailbox), ts)
       \/ UNCHANGED context
    /\ UNCHANGED <<source, input, closed, pc, left, clock, ticks>>
\* SocketSource::receive_local: whatever bytes have come may parse or not.
ReceiveBytes ==
    /\ mailbox # <<>>
    /\ mailbox' = Tail(mailbox)
    /\ \/ Head(mailbox) # None /\ \E ts \in Timestamps : Process(Head(mailbox), ts)
       \/ UNCHANGED context
    /\ UNCHANGED <<source, input, closed, pc, left, clock, ticks>>
\* schedule_periodic
PeriodicWatermark ==
    /\ IsSocket /\ ticks < MaxTicks
    /\ ticks' = ticks + 1
    /\ GenerateWatermark
    /\ UNCHANGED <<source, input, closed, mailbox, pc, left, clock>>

\* The system time may also go back.
SetClock(t) ==
    /\ ~ HasExtractor /\ t # clock
    /\ clock' = t
    /\ UNCHANGED <<source, input, closed, mailbox, pc, left, context, ticks>>

Finite == StartPart \/ ProcessRecord \/ EndPart \/ OpenFile \/ ReadLine \/ EndOfFile
Socket ==
    \/ \E c \in Connections : CloseTcp(c) \/ \E n \in 1 .. Len(input[c]) : ReadTcp(c, n)
    \/ ReadUdp \/ UdpError
    \/ ReceiveBytes
    \/ PeriodicWatermark

Next == Finite \/ Socket \/ \E t \in 0 .. MaxTs : SetClock(t)

Spec == Init /\ [][Next]_vars

\* A handler runs to its end, and kompact delivers ContinueSending.
FairSpec == Spec /\ WF_vars(Finite)

-----------------------------------------------------------------------------
Elements == {k \in DOMAIN out : out[k].kind = "element"}
Watermarks == {k \in DOMAIN out : out[k].kind = "watermark"}

\* Nothing of an input is sent twice or out of order, whatever is skipped, and
\* however collections are cut into parts, bytes into pieces and sockets interleave.
InOrderOnce ==
    \A j, k \in Elements : (j < k /\ out[j].from = out[k].from) => out[j].last < out[k].first

\* A watermark covers every timestamp before it, and watermarks never fall,
\* also when the system time does.
WatermarksCover ==
    \A w \in Watermarks : \A k \in 1 .. (w - 1) :
        out[k].ts # None => out[k].ts <= out[w].ts

\* "Controls how often the source generates watermarks": at most
\* watermark_interval elements come without a watermark, also where a
\* collection is cut into parts.
WatermarkEveryInterval ==
    (Kind \in {"collection", "file"} /\ watermark_interval > 0) =>
        \A j, k \in DOMAIN out :
            (j <= k /\ \A n \in j .. k : out[n].kind = "element") => k - j < watermark_interval

\* A finite source ends with a watermark that covers everything it has sent.
EndsCovered ==
    (~ IsSocket) ~> (pc = "done" /\ (out # <<>> => Last(out).kind = "watermark"))
=============================================================================
