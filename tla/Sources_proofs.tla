--------------------------- MODULE Sources_proofs ---------------------------
(****************************************************************************)
(* Proofs about Sources, for every configuration, input and bound.          *)
(****************************************************************************)
EXTENDS Sources, SequenceTheorems, TLAPS

\* What the invariant says of a sequence o of sent events, a watermark wm and
\* a number cnt of elements since the last watermark.
IsSequence(o) == \E S : o \in Seq(S)

\* Every timestamp sent so far is at or below the watermark.
Bounded(o, wm) ==
    \A k \in DOMAIN o : o[k].ts = None \/ (o[k].ts \in Nat /\ o[k].ts <= wm)

Covers(o) ==
    \A w, k \in DOMAIN o :
        (o[w].kind = "watermark" /\ k < w /\ o[k].ts # None) => o[k].ts <= o[w].ts

IsRun(o, j, k) == \A n \in j .. k : o[n].kind = "element"

\* No more than cnt elements since the last watermark, never more than
\* `interval' in a row.
Runs(o, cnt, interval) ==
    /\ \A j, k \in DOMAIN o : (j <= k /\ IsRun(o, j, k)) => k - j < interval
    /\ \A j \in DOMAIN o : IsRun(o, j, Len(o)) => Len(o) - j < cnt

\* A sequence with one entry more.
LEMMA AppendFacts ==
    ASSUME NEW o, IsSequence(o), NEW e
    PROVE  /\ IsSequence(Append(o, e))
           /\ Len(o) \in Nat /\ Len(Append(o, e)) = Len(o) + 1
           /\ DOMAIN o = 1 .. Len(o)
           /\ DOMAIN Append(o, e) = 1 .. (Len(o) + 1)
           /\ \A k \in 1 .. Len(o) : Append(o, e)[k] = o[k]
           /\ Append(o, e)[Len(o) + 1] = e
           /\ o \o <<e>> = Append(o, e)
<1>1. PICK S : o \in Seq(S)
  BY DEF IsSequence
<1> DEFINE T == S \cup {e}
<1>2. o \in Seq(T) /\ e \in T
  BY <1>1, SeqMonotonic
<1> HIDE DEF T
<1>3. Append(o, e) \in Seq(T)
  BY <1>2
<1>4. o \o <<e>> = Append(o, e)
  <2>1. <<e>> \in Seq(T) /\ Len(<<e>>) = 1 /\ <<e>>[1] = e
    BY <1>2
  <2>2. /\ o \o <<e>> \in Seq(T) /\ Len(o \o <<e>>) = Len(o) + 1
        /\ \A i \in 1 .. Len(o) + 1 : (o \o <<e>>)[i] = Append(o, e)[i]
    BY <1>2, <2>1, ConcatProperties
  <2> QED
    BY <1>2, <1>3, <2>2, SeqEqual
<1> QED
  BY <1>2, <1>3, <1>4 DEF IsSequence

\* Appending an element whose timestamp the watermark was raised to.
LEMMA ElementCovered ==
    ASSUME NEW o, IsSequence(o), NEW wm \in Nat, Bounded(o, wm), Covers(o),
           NEW new \in Nat, wm <= new,
           NEW e, e.kind = "element", e.ts = None \/ (e.ts \in Nat /\ e.ts <= new)
    PROVE  Bounded(Append(o, e), new) /\ Covers(Append(o, e))
<1> DEFINE p == Append(o, e)
<1>1. /\ Len(o) \in Nat /\ DOMAIN o = 1 .. Len(o) /\ DOMAIN p = 1 .. (Len(o) + 1)
      /\ \A k \in 1 .. Len(o) : p[k] = o[k]
      /\ p[Len(o) + 1] = e
  BY AppendFacts
<1> HIDE DEF p
<1>2. Bounded(p, new)
  BY <1>1 DEF Bounded
<1>3. Covers(p)
  BY <1>1 DEF Covers
<1> QED
  BY <1>2, <1>3 DEF p

\* Appending a watermark.
LEMMA WatermarkCovers ==
    ASSUME NEW o, IsSequence(o), NEW wm \in Nat, Bounded(o, wm), Covers(o),
           NEW new \in Nat, wm <= new,
           NEW e, e.kind = "watermark", e.ts = new
    PROVE  Bounded(Append(o, e), new) /\ Covers(Append(o, e))
<1> DEFINE p == Append(o, e)
<1>1. /\ Len(o) \in Nat /\ DOMAIN o = 1 .. Len(o) /\ DOMAIN p = 1 .. (Len(o) + 1)
      /\ \A k \in 1 .. Len(o) : p[k] = o[k]
      /\ p[Len(o) + 1] = e
  BY AppendFacts
<1> HIDE DEF p
<1>2. Bounded(p, new)
  BY <1>1 DEF Bounded
<1>3. ASSUME NEW w \in DOMAIN p, NEW k \in DOMAIN p,
             p[w].kind = "watermark", k < w, p[k].ts # None
      PROVE  p[k].ts <= p[w].ts
  <2>1. k \in 1 .. Len(o) /\ p[k] = o[k]
    BY <1>1, <1>3
  <2>2. CASE w = Len(o) + 1
    BY <1>1, <1>3, <2>1, <2>2 DEF Bounded
  <2>3. CASE w \in 1 .. Len(o)
    BY <1>1, <1>3, <2>1, <2>3 DEF Covers
  <2> QED
    BY <1>1, <2>2, <2>3
<1>4. Covers(p)
  BY <1>3 DEF Covers
<1> QED
  BY <1>2, <1>4 DEF p

\* One more element in a row.
LEMMA ElementRuns ==
    ASSUME NEW o, IsSequence(o), NEW cnt \in Nat, NEW interval \in Nat,
           Runs(o, cnt, interval), cnt < interval, NEW e, e.kind = "element"
    PROVE  Runs(Append(o, e), cnt + 1, interval)
<1> DEFINE p == Append(o, e)
<1>1. /\ Len(o) \in Nat /\ DOMAIN o = 1 .. Len(o) /\ DOMAIN p = 1 .. (Len(o) + 1)
      /\ Len(p) = Len(o) + 1
      /\ \A k \in 1 .. Len(o) : p[k] = o[k]
  BY AppendFacts
<1> HIDE DEF p
<1>2. ASSUME NEW j \in DOMAIN o, NEW k \in DOMAIN o, j <= k, IsRun(p, j, k)
      PROVE  IsRun(o, j, k)
  BY <1>1, <1>2 DEF IsRun
<1>3. ASSUME NEW j \in DOMAIN p, IsRun(p, j, Len(p))
      PROVE  Len(p) - j < cnt + 1
  <2>1. CASE j = Len(o) + 1
    BY <1>1, <2>1
  <2>2. CASE j \in DOMAIN o
    <3>1. IsRun(p, j, Len(o)) /\ Len(o) \in DOMAIN o /\ j <= Len(o)
      BY <1>1, <1>3, <2>2 DEF IsRun
    <3>2. Len(o) - j < cnt
      BY <1>2, <2>2, <3>1 DEF Runs
    <3> QED
      BY <1>1, <2>2, <3>2
  <2> QED
    BY <1>1, <2>1, <2>2
<1>4. ASSUME NEW j \in DOMAIN p, NEW k \in DOMAIN p, j <= k, IsRun(p, j, k)
      PROVE  k - j < interval
  <2>1. CASE k = Len(o) + 1
    BY <1>1, <1>3, <1>4, <2>1
  <2>2. CASE k \in DOMAIN o
    BY <1>1, <1>2, <1>4, <2>2 DEF Runs
  <2> QED
    BY <1>1, <2>1, <2>2
<1> QED
  BY <1>3, <1>4 DEF Runs, p

\* A watermark ends the row.
LEMMA WatermarkRuns ==
    ASSUME NEW o, IsSequence(o), NEW cnt \in Nat, NEW interval \in Nat, NEW new \in Nat,
           Runs(o, cnt, interval), NEW e, e.kind = "watermark"
    PROVE  Runs(Append(o, e), new, interval)
<1> DEFINE p == Append(o, e)
<1>1. /\ Len(o) \in Nat /\ DOMAIN o = 1 .. Len(o) /\ DOMAIN p = 1 .. (Len(o) + 1)
      /\ Len(p) = Len(o) + 1 /\ p[Len(o) + 1] = e
      /\ \A k \in 1 .. Len(o) : p[k] = o[k]
  BY AppendFacts
<1> HIDE DEF p
<1>2. \A j \in DOMAIN p : ~ IsRun(p, j, Len(p))
  BY <1>1 DEF IsRun
<1>3. ASSUME NEW j \in DOMAIN p, NEW k \in DOMAIN p, j <= k, IsRun(p, j, k)
      PROVE  k - j < interval
  <2>1. k \in DOMAIN o /\ j \in DOMAIN o
    BY <1>1, <1>2, <1>3
  <2>2. IsRun(o, j, k)
    BY <1>1, <1>3, <2>1 DEF IsRun
  <2> QED
    BY <1>3, <2>1, <2>2 DEF Runs
<1> QED
  BY <1>2, <1>3 DEF Runs, p

-----------------------------------------------------------------------------
\* The inductive invariant.
SourceInv ==
    /\ source \in Configurations
    /\ clock \in Nat /\ current_watermark \in Nat /\ counter \in Nat
    /\ IsSequence(out)
    /\ Bounded(out, current_watermark)
    /\ Covers(out)
    /\ (~ IsSocket /\ watermark_interval > 0) =>
         counter < watermark_interval /\ Runs(out, counter, watermark_interval)

\* The types of what the constructors configure.
LEMMA ConfigurationTypes ==
    ASSUME source \in Configurations
    PROVE  /\ watermark_interval \in Nat
           /\ Kind \in {"collection", "file"} <=> ~ IsSocket
  BY SourcesAssumption DEF IsConfiguration, watermark_interval, Kind, IsSocket

\* The watermark a source generates is not below the one it had.
LEMMA GeneratedRises ==
    ASSUME NEW wm \in Nat, clock \in Nat
    PROVE  Generated(wm) \in Nat /\ wm <= Generated(wm)
  BY DEF Generated, Max2

\* The invariant of a source that has just been built.
LEMMA InitInv == Init => SourceInv
<1> SUFFICES ASSUME Init PROVE SourceInv
  OBVIOUS
<1>1. out = <<>> /\ counter = 0 /\ current_watermark = 0 /\ clock \in Nat
  BY SourcesAssumption DEF Init
<1>2. IsSequence(out) /\ DOMAIN out = {}
  BY <1>1 DEF IsSequence
<1>3. source \in Configurations /\ watermark_interval \in Nat
  BY ConfigurationTypes DEF Init
<1> QED
  BY <1>1, <1>2, <1>3 DEF SourceInv, Bounded, Covers, Runs

\* A step that sends nothing.
LEMMA QuietStep ==
    ASSUME SourceInv, UNCHANGED <<source, context>>, clock' \in Nat
    PROVE  SourceInv'
<1>1. /\ IsSocket' = IsSocket /\ watermark_interval' = watermark_interval
      /\ out' = out /\ counter' = counter /\ current_watermark' = current_watermark
  BY DEF context, IsSocket, Kind, watermark_interval
<1> QED
  BY <1>1 DEF SourceInv

\* A watermark that is sent keeps the invariant.
LEMMA GenerateStep ==
    ASSUME SourceInv, source' = source, clock' = clock, GenerateWatermark
    PROVE  SourceInv'
<1> DEFINE new == Generated(current_watermark)
           e == WatermarkEvent(new)
<1>1. new \in Nat /\ current_watermark <= new
  BY GeneratedRises DEF SourceInv
<1>2. e.kind = "watermark" /\ e.ts = new
  BY DEF WatermarkEvent
<1>3. /\ IsSocket' = IsSocket /\ watermark_interval' = watermark_interval
      /\ out' = Append(out, e) /\ counter' = counter /\ current_watermark' = new
  BY DEF GenerateWatermark, IsSocket, Kind, watermark_interval
<1> HIDE DEF e, new
<1>4. IsSequence(Append(out, e))
  BY AppendFacts DEF SourceInv
<1>5. Bounded(Append(out, e), new) /\ Covers(Append(out, e))
  BY <1>1, <1>2, WatermarkCovers DEF SourceInv
<1>6. (~ IsSocket /\ watermark_interval > 0) =>
         counter < watermark_interval /\ Runs(Append(out, e), counter, watermark_interval)
  BY <1>2, ConfigurationTypes, WatermarkRuns DEF SourceInv
<1> QED
  BY <1>1, <1>3, <1>4, <1>5, <1>6 DEF SourceInv

\* An element that is sent, with its watermark if one is due, keeps it.
LEMMA ProcessStep ==
    ASSUME SourceInv, source' = source, clock' = clock,
           NEW p, NEW ts \in Timestamps, Process(p, ts)
    PROVE  SourceInv'
<1> DEFINE wm == IF HasExtractor THEN Raised(ts) ELSE current_watermark
           due == ~ IsSocket /\ counter + 1 = watermark_interval
           e == Element(p, ts)
           new == Generated(wm)
           w == WatermarkEvent(new)
           mid == Append(out, e)
<1>1. ts \in Nat
  BY SourcesAssumption DEF Timestamps
<1>2. wm \in Nat /\ current_watermark <= wm
  BY <1>1 DEF SourceInv, Raised, Max2
<1>3. e.kind = "element" /\ (e.ts = None \/ (e.ts \in Nat /\ e.ts <= wm))
  BY <1>1 DEF Element, Raised, Max2, SourceInv
<1>4. w.kind = "watermark" /\ w.ts = new
  BY DEF WatermarkEvent
<1>5. IsSocket' = IsSocket /\ watermark_interval' = watermark_interval
  BY DEF IsSocket, Kind, watermark_interval
<1>6. /\ current_watermark' = IF due THEN new ELSE wm
      /\ out' = out \o <<e>> \o IF due THEN <<w>> ELSE <<>>
      /\ counter' = IF due THEN 0 ELSE IF IsSocket THEN counter ELSE counter + 1
  BY DEF Process
<1>7. new \in Nat /\ wm <= new
  BY <1>2, GeneratedRises DEF SourceInv
<1> HIDE DEF wm, e, new, w
<1>8. out \o <<e>> = mid /\ IsSequence(mid)
  BY AppendFacts DEF SourceInv
<1>9. Bounded(mid, wm) /\ Covers(mid)
  BY <1>2, <1>3, ElementCovered DEF SourceInv
<1>10. (~ IsSocket /\ watermark_interval > 0) =>
          /\ counter + 1 <= watermark_interval
          /\ Runs(mid, counter + 1, watermark_interval)
  BY <1>3, ConfigurationTypes, ElementRuns DEF SourceInv
<1>11. /\ source' \in Configurations /\ clock' \in Nat
       /\ counter \in Nat /\ watermark_interval \in Nat
  BY ConfigurationTypes DEF SourceInv
<1> HIDE DEF mid
<1>12. CASE due
  <2>1. current_watermark' = new /\ counter' = 0 /\ out' = mid \o <<w>>
    BY <1>6, <1>8, <1>12
  <2>2. out' = Append(mid, w) /\ IsSequence(Append(mid, w))
    BY <1>8, <2>1, AppendFacts
  <2>3. Bounded(Append(mid, w), new) /\ Covers(Append(mid, w))
    BY <1>2, <1>4, <1>7, <1>8, <1>9, WatermarkCovers
  <2>4. watermark_interval > 0 => Runs(Append(mid, w), 0, watermark_interval)
    BY <1>4, <1>8, <1>10, <1>11, <1>12, WatermarkRuns
  <2> QED
    BY <1>5, <1>7, <1>11, <2>1, <2>2, <2>3, <2>4 DEF SourceInv
<1>13. CASE ~ due
  <2>1. /\ current_watermark' = wm /\ out' = mid \o <<>>
        /\ counter' = IF IsSocket THEN counter ELSE counter + 1
    BY <1>6, <1>8, <1>13
  <2>2. out' = mid
    BY <1>8, <2>1, ConcatEmptySeq DEF IsSequence
  <2>3. (~ IsSocket /\ watermark_interval > 0) =>
           counter' < watermark_interval /\ Runs(mid, counter', watermark_interval)
    BY <1>10, <1>11, <1>13, <2>1
  <2> QED
    BY <1>2, <1>5, <1>8, <1>9, <1>11, <2>1, <2>2, <2>3 DEF SourceInv
<1> QED
  BY <1>12, <1>13

\* Every step keeps the invariant.
LEMMA StepInv == SourceInv /\ [Next]_vars => SourceInv'
<1> SUFFICES ASSUME SourceInv, [Next]_vars PROVE SourceInv'
  OBVIOUS
<1>1. clock \in Nat
  BY DEF SourceInv
<1>2. CASE UNCHANGED vars
  BY <1>1, <1>2, QuietStep DEF vars
<1>3. CASE StartPart
  BY <1>1, <1>3, QuietStep DEF StartPart
<1>4. CASE ProcessRecord
  BY <1>4, ProcessStep DEF ProcessRecord
<1>5. CASE EndPart
  BY <1>1, <1>5, QuietStep, GenerateStep DEF EndPart
<1>6. CASE OpenFile
  BY <1>1, <1>6, QuietStep DEF OpenFile
<1>7. CASE ReadLine
  BY <1>1, <1>7, QuietStep, ProcessStep DEF ReadLine
<1>8. CASE EndOfFile
  BY <1>8, GenerateStep DEF EndOfFile
<1>9. ASSUME NEW c \in Connections, CloseTcp(c) PROVE SourceInv'
  BY <1>1, <1>9, QuietStep DEF CloseTcp
<1>10. ASSUME NEW c \in Connections, NEW n \in 1 .. Len(input[c]), ReadTcp(c, n)
       PROVE  SourceInv'
  BY <1>1, <1>10, QuietStep DEF ReadTcp
<1>11. CASE ReadUdp
  BY <1>1, <1>11, QuietStep DEF ReadUdp
<1>12. CASE UdpError
  BY <1>1, <1>12, QuietStep DEF UdpError
<1>13. CASE ReceiveBytes
  BY <1>1, <1>13, QuietStep, ProcessStep DEF ReceiveBytes
<1>14. CASE PeriodicWatermark
  BY <1>14, GenerateStep DEF PeriodicWatermark
<1>15. ASSUME NEW t \in 0 .. MaxTs, SetClock(t) PROVE SourceInv'
  BY <1>15, SourcesAssumption, QuietStep DEF SetClock
<1> QED
  BY <1>2, <1>3, <1>4, <1>5, <1>6, <1>7, <1>8, <1>9, <1>10, <1>11, <1>12, <1>13,
     <1>14, <1>15 DEF Next, Finite, Socket

\* A watermark of any source covers every timestamp it has sent before, and
\* watermarks never fall, whatever the records, the pieces of the sockets and
\* the system time are (watermark_update, generate_watermark).
THEOREM WatermarksAreSafe == Spec => []WatermarksCover
<1>1. SourceInv => WatermarksCover
  <2> SUFFICES ASSUME SourceInv, NEW w \in Watermarks, NEW k \in 1 .. (w - 1),
                      out[k].ts # None
               PROVE  out[k].ts <= out[w].ts
    BY DEF WatermarksCover
  <2>1. PICK S : out \in Seq(S)
    BY DEF SourceInv, IsSequence
  <2>2. w \in DOMAIN out /\ out[w].kind = "watermark" /\ DOMAIN out = 1 .. Len(out)
    BY <2>1 DEF Watermarks
  <2>3. Len(out) \in Nat
    BY <2>1
  <2>4. k \in DOMAIN out /\ k < w
    BY <2>2, <2>3
  <2> QED
    BY <2>2, <2>4 DEF SourceInv, Covers
<1> QED
  BY <1>1, InitInv, StepInv, PTL DEF Spec

\* A finite source never sends more than watermark_interval elements in a row
\* without a watermark, however a collection is cut into parts and whatever
\* lines of a file are skipped (process, process_collection, process_file).
THEOREM WatermarksAreFrequent == Spec => []WatermarkEveryInterval
<1>1. SourceInv => WatermarkEveryInterval
  BY ConfigurationTypes DEF SourceInv, WatermarkEveryInterval, Runs, IsRun
<1> QED
  BY <1>1, InitInv, StepInv, PTL DEF Spec
-----------------------------------------------------------------------------
(* InOrderOnce.  What is not sent yet, in the mailbox of the source and in   *)
(* the inputs, comes after what is, connection by connection.                *)

IsElement(e) == e.kind = "element"

\* The places a piece covers.
IsPiece(p) == p.first \in Nat /\ p.last \in Nat /\ p.first <= p.last

\* What was sent is in order.
SentInOrder(o) ==
    /\ \A k \in DOMAIN o : IsElement(o[k]) => IsPiece(o[k])
    /\ \A j, k \in DOMAIN o :
          (IsElement(o[j]) /\ IsElement(o[k]) /\ j < k /\ o[j].from = o[k].from) => o[j].last < o[k].first

\* So are the pieces in the mailbox,
MailInOrder(mb) ==
    /\ \A k \in DOMAIN mb : mb[k] # None => IsPiece(mb[k])
    /\ \A j, k \in DOMAIN mb :
          (mb[j] # None /\ mb[k] # None /\ j < k /\ mb[j].from = mb[k].from) => mb[j].last < mb[k].first

\* and what is left of the inputs.
InputInOrder(inp, D) ==
    \A c \in D :
        /\ inp[c] \in Seq(Nat)
        /\ \A j, k \in DOMAIN inp[c] : j < k => inp[c][j] < inp[c][k]

\* And in this order they follow each other.
SentThenMail(o, mb) ==
    \A j \in DOMAIN o, k \in DOMAIN mb :
        (IsElement(o[j]) /\ mb[k] # None /\ o[j].from = mb[k].from) => o[j].last < mb[k].first
SentThenInput(o, inp, D) ==
    \A j \in DOMAIN o : \A c \in D : \A k \in DOMAIN inp[c] :
        (IsElement(o[j]) /\ o[j].from = c) => o[j].last < inp[c][k]
MailThenInput(mb, inp, D) ==
    \A j \in DOMAIN mb : \A c \in D : \A k \in DOMAIN inp[c] :
        (mb[j] # None /\ mb[j].from = c) => mb[j].last < inp[c][k]

Ordered(o, mb, inp, D) ==
    /\ SentInOrder(o) /\ MailInOrder(mb) /\ InputInOrder(inp, D)
    /\ SentThenMail(o, mb) /\ SentThenInput(o, inp, D) /\ MailThenInput(mb, inp, D)

\* The piece p comes after what was sent and before what is left.
Fits(p, o, mb, inp, D) ==
    /\ IsPiece(p)
    /\ \A j \in DOMAIN o : (IsElement(o[j]) /\ o[j].from = p.from) => o[j].last < p.first
    /\ \A k \in DOMAIN mb : (mb[k] # None /\ mb[k].from = p.from) => p.last < mb[k].first
    /\ \A c \in D : \A k \in DOMAIN inp[c] : c = p.from => p.last < inp[c][k]

\* A watermark that is sent.
LEMMA OrderedWatermark ==
    ASSUME NEW o, IsSequence(o), NEW mb, NEW inp, NEW D, Ordered(o, mb, inp, D),
           NEW e, e.kind = "watermark"
    PROVE  Ordered(Append(o, e), mb, inp, D)
<1>1. PICK q : q = Append(o, e)
  OBVIOUS
<1>2. /\ DOMAIN q = DOMAIN o \cup {Len(o) + 1} /\ ~ IsElement(q[Len(o) + 1])
      /\ \A k \in DOMAIN o : q[k] = o[k]
  BY <1>1, AppendFacts DEF IsElement
<1>3. SentInOrder(q)
  BY <1>2 DEF Ordered, SentInOrder
<1>4. SentThenMail(q, mb) /\ SentThenInput(q, inp, D)
  BY <1>2 DEF Ordered, SentThenMail, SentThenInput
<1> QED
  BY <1>1, <1>3, <1>4 DEF Ordered

\* An element that is sent.
LEMMA OrderedElement ==
    ASSUME NEW o, IsSequence(o), NEW mb, NEW inp, NEW D, Ordered(o, mb, inp, D),
           NEW p, Fits(p, o, mb, inp, D),
           NEW e, e.kind = "element", e.from = p.from, e.first = p.first, e.last = p.last
    PROVE  Ordered(Append(o, e), mb, inp, D)
<1>1. PICK q, n : q = Append(o, e) /\ n = Len(o) + 1
  OBVIOUS
<1>2. /\ DOMAIN q = DOMAIN o \cup {n} /\ q[n] = e
      /\ \A k \in DOMAIN o : q[k] = o[k] /\ k < n /\ ~ (n < k)
      /\ ~ (n < n)
  BY <1>1, AppendFacts
<1>3. SentInOrder(q)
  <2>1. \A k \in DOMAIN q : IsElement(q[k]) => IsPiece(q[k])
    BY <1>2 DEF Ordered, SentInOrder, Fits, IsPiece
  <2>2. \A j, k \in DOMAIN q :
          (IsElement(q[j]) /\ IsElement(q[k]) /\ j < k /\ q[j].from = q[k].from) => q[j].last < q[k].first
    BY <1>2 DEF Ordered, SentInOrder, Fits
  <2> QED
    BY <2>1, <2>2 DEF SentInOrder
<1>4. SentThenMail(q, mb)
  BY <1>2 DEF Ordered, SentThenMail, Fits
<1>5. SentThenInput(q, inp, D)
  BY <1>2 DEF Ordered, SentThenInput, Fits
<1> QED
  BY <1>1, <1>3, <1>4, <1>5 DEF Ordered

\* The first message leaves the mailbox.
LEMMA OrderedReceive ==
    ASSUME NEW o, NEW mb, IsSequence(mb), mb # <<>>, NEW inp, NEW D, Ordered(o, mb, inp, D)
    PROVE  /\ Ordered(o, Tail(mb), inp, D) /\ IsSequence(Tail(mb))
           /\ Head(mb) # None => Fits(Head(mb), o, Tail(mb), inp, D)
<1>1. PICK S : mb \in Seq(S)
  BY DEF IsSequence
<1>2. PICK t \in Seq(S) : t = Tail(mb)
  BY <1>1, HeadTailProperties
<1>3. /\ 1 \in DOMAIN mb /\ Head(mb) = mb[1]
      /\ \A k \in DOMAIN t : k \in Nat /\ k + 1 \in DOMAIN mb /\ 1 < k + 1 /\ t[k] = mb[k + 1]
  BY <1>1, <1>2
<1>4. MailInOrder(t)
  <2>1. \A k \in DOMAIN t : t[k] # None => IsPiece(t[k])
    BY <1>3 DEF Ordered, MailInOrder
  <2>2. ASSUME NEW j \in DOMAIN t, NEW k \in DOMAIN t,
               t[j] # None, t[k] # None, j < k, t[j].from = t[k].from
        PROVE  t[j].last < t[k].first
    <3>1. j + 1 < k + 1
      BY <1>3, <2>2
    <3> QED
      BY <1>3, <2>2, <3>1 DEF Ordered, MailInOrder
  <2> QED
    BY <2>1, <2>2 DEF MailInOrder
<1>5. SentThenMail(o, t) /\ MailThenInput(t, inp, D)
  BY <1>3 DEF Ordered, SentThenMail, MailThenInput
<1>6. ASSUME Head(mb) # None PROVE Fits(Head(mb), o, t, inp, D)
  <2>1. IsPiece(mb[1]) /\ mb[1] # None
    BY <1>3, <1>6 DEF Ordered, MailInOrder
  <2>2. \A j \in DOMAIN o : (IsElement(o[j]) /\ o[j].from = mb[1].from) => o[j].last < mb[1].first
    BY <1>3, <2>1 DEF Ordered, SentThenMail
  <2>3. \A k \in DOMAIN t : (t[k] # None /\ t[k].from = mb[1].from) => mb[1].last < t[k].first
    BY <1>3, <2>1 DEF Ordered, MailInOrder
  <2>4. \A c \in D : \A k \in DOMAIN inp[c] : c = mb[1].from => mb[1].last < inp[c][k]
    BY <1>3, <2>1 DEF Ordered, MailThenInput
  <2> QED
    BY <1>3, <2>1, <2>2, <2>3, <2>4 DEF Fits
<1> QED
  BY <1>2, <1>4, <1>5, <1>6 DEF Ordered, IsSequence

\* Piece p holds the first n records, or bytes, of the input q of connection c,
\* and rest the others.
Takes(p, c, q, n, rest) ==
    /\ q \in Seq(Nat) /\ n \in 1 .. Len(q)
    /\ rest \in Seq(Nat) /\ Len(rest) = Len(q) - n
    /\ \A k \in DOMAIN rest : rest[k] = q[n + k]
    /\ p.from = c /\ p.first = q[1] /\ p.last = q[n]

\* The queues after such a read: still in order, with p between them.
Taken(p, c, o, mb, inp, D) ==
    /\ Ordered(o, mb, inp, D) /\ DOMAIN inp = D
    /\ IsPiece(p)
    /\ \A j \in DOMAIN o : (IsElement(o[j]) /\ o[j].from = c) => o[j].last < p.first
    /\ \A j \in DOMAIN mb : (mb[j] # None /\ mb[j].from = c) => mb[j].last < p.first
    /\ \A k \in DOMAIN inp[c] : p.last < inp[c][k]

\* A position of what is left after n of len was a position before.
LEMMA ShiftedPosition ==
    ASSUME NEW len \in Nat, NEW n \in 1 .. len, NEW k \in 1 .. (len - n)
    PROVE  k \in Nat /\ n + k \in 1 .. len /\ n < n + k
<1>1. n \in Int /\ 1 <= n /\ n <= len
  OBVIOUS
<1>2. k \in Int /\ 1 <= k /\ k <= len - n
  OBVIOUS
<1> QED
  BY <1>1, <1>2

\* The first n records, or bytes, of an input are read.
LEMMA OrderedRead ==
    ASSUME NEW o, NEW mb, NEW D, NEW inp, DOMAIN inp = D, Ordered(o, mb, inp, D),
           NEW c \in D, NEW q, q = inp[c], NEW n, NEW rest, NEW p, Takes(p, c, q, n, rest),
           NEW inp2, inp2 = [inp EXCEPT ![c] = rest]
    PROVE  Taken(p, c, o, mb, inp2, D)
<1>1. /\ q = inp[c] /\ q \in Seq(Nat) /\ n \in 1 .. Len(q)
      /\ rest \in Seq(Nat) /\ Len(rest) = Len(q) - n
      /\ \A k \in DOMAIN rest : rest[k] = q[n + k]
      /\ p.from = c /\ p.first = q[1] /\ p.last = q[n]
  BY DEF Takes
<1>2. PICK len \in Nat : len = Len(q) /\ DOMAIN q = 1 .. len
  BY <1>1
<1>3. \A j, k \in DOMAIN q : j < k => q[j] < q[k]
  BY <1>1 DEF Ordered, InputInOrder
<1>4. n \in 1 .. len /\ 1 \in DOMAIN q /\ n \in DOMAIN q
  BY <1>1, <1>2
<1>5. DOMAIN rest = 1 .. (len - n) /\ \A k \in DOMAIN rest : rest[k] = q[n + k]
  <2>1. DOMAIN rest = 1 .. Len(rest)
    BY <1>1
  <2> QED
    BY <1>1, <1>2, <2>1
<1>6. ASSUME NEW k \in DOMAIN rest PROVE k \in Nat /\ n + k \in DOMAIN q /\ n < n + k
  <2>1. k \in 1 .. (len - n) /\ n \in 1 .. len
    BY <1>4, <1>5
  <2>2. k \in Nat /\ n + k \in 1 .. len /\ n < n + k
    BY <2>1, ShiftedPosition
  <2> QED
    BY <1>2, <2>2
<1>7. inp2[c] = rest /\ DOMAIN inp2 = D /\ \A d \in D : d # c => inp2[d] = inp[d]
  OBVIOUS
<1>8. InputInOrder(inp2, D)
  <2>1. \A j, k \in DOMAIN rest : j < k => rest[j] < rest[k]
    <3> SUFFICES ASSUME NEW j \in DOMAIN rest, NEW k \in DOMAIN rest, j < k PROVE rest[j] < rest[k]
      OBVIOUS
    <3>1. n + j < n + k
      BY <1>4, <1>6
    <3> QED
      BY <1>3, <1>5, <1>6, <3>1
  <2> QED
    BY <1>1, <1>7, <2>1 DEF Ordered, InputInOrder
<1>9. SentThenInput(o, inp2, D)
  BY <1>1, <1>5, <1>6, <1>7 DEF Ordered, SentThenInput
<1>10. MailThenInput(mb, inp2, D)
  BY <1>1, <1>5, <1>6, <1>7 DEF Ordered, MailThenInput
<1>11. IsPiece(p)
  <2>1. q[1] \in Nat /\ q[n] \in Nat
    BY <1>1, <1>4
  <2>2. q[1] <= q[n]
    <3>1. CASE n = 1
      BY <2>1, <3>1
    <3>2. CASE n # 1
      <4>1. 1 < n
        BY <1>4, <3>2
      <4>2. q[1] < q[n]
        BY <1>3, <1>4, <4>1
      <4> QED
        BY <2>1, <4>2
    <3> QED
      BY <3>1, <3>2
  <2> QED
    BY <1>1, <2>1, <2>2 DEF IsPiece
<1>12. \A j \in DOMAIN o : (IsElement(o[j]) /\ o[j].from = c) => o[j].last < p.first
  BY <1>1, <1>4 DEF Ordered, SentThenInput
<1>13. \A j \in DOMAIN mb : (mb[j] # None /\ mb[j].from = c) => mb[j].last < p.first
  BY <1>1, <1>4 DEF Ordered, MailThenInput
<1>14. \A k \in DOMAIN inp2[c] : p.last < inp2[c][k]
  BY <1>1, <1>3, <1>4, <1>5, <1>6, <1>7
<1> QED
  BY <1>7, <1>8, <1>9, <1>10, <1>11, <1>12, <1>13, <1>14 DEF Ordered, Taken

\* A message of the IO component: a piece that was read, or None.
LEMMA OrderedMessage ==
    ASSUME NEW o, NEW mb, IsSequence(mb), NEW inp, NEW D, Ordered(o, mb, inp, D), NEW m,
           m # None =>
              /\ IsPiece(m)
              /\ \A j \in DOMAIN o : (IsElement(o[j]) /\ o[j].from = m.from) => o[j].last < m.first
              /\ \A j \in DOMAIN mb : (mb[j] # None /\ mb[j].from = m.from) => mb[j].last < m.first
              /\ \A c \in D : \A k \in DOMAIN inp[c] : c = m.from => m.last < inp[c][k]
    PROVE  Ordered(o, Append(mb, m), inp, D) /\ IsSequence(Append(mb, m))
<1>1. PICK q, n : q = Append(mb, m) /\ n = Len(mb) + 1
  OBVIOUS
<1>2. /\ DOMAIN q = DOMAIN mb \cup {n} /\ q[n] = m /\ IsSequence(q)
      /\ \A k \in DOMAIN mb : q[k] = mb[k] /\ k < n /\ ~ (n < k)
      /\ ~ (n < n)
  BY <1>1, AppendFacts
<1>3. MailInOrder(q)
  <2>1. \A k \in DOMAIN q : q[k] # None => IsPiece(q[k])
    BY <1>2 DEF Ordered, MailInOrder
  <2>2. \A j, k \in DOMAIN q :
          (q[j] # None /\ q[k] # None /\ j < k /\ q[j].from = q[k].from) => q[j].last < q[k].first
    BY <1>2 DEF Ordered, MailInOrder
  <2> QED
    BY <2>1, <2>2 DEF MailInOrder
<1>4. SentThenMail(o, q)
  BY <1>2 DEF Ordered, SentThenMail
<1>5. MailThenInput(q, inp, D)
  BY <1>2 DEF Ordered, MailThenInput
<1> QED
  BY <1>1, <1>2, <1>3, <1>4, <1>5 DEF Ordered

\* The invariant.  A finite source has no mailbox, and a part of a collection
\* never has more records to read than are left.
OrderInv ==
    /\ source \in Configurations /\ DOMAIN input = Connections
    /\ IsSequence(out) /\ IsSequence(mailbox)
    /\ Ordered(out, mailbox, input, Connections)
    /\ ~ IsSocket => mailbox = <<>>
    /\ (Kind = "collection" /\ pc = "reading") => left \in Nat /\ left <= Len(input[Me])

\* Nothing is sent at the start, and the inputs are counted through.
LEMMA InitOrdered == Init => OrderInv
<1> SUFFICES ASSUME Init PROVE OrderInv
  OBVIOUS
<1>1. out = <<>> /\ mailbox = <<>> /\ DOMAIN out = {} /\ DOMAIN mailbox = {} /\ pc = "idle"
  BY DEF Init
<1>2. IsSequence(out) /\ IsSequence(mailbox)
  BY <1>1 DEF IsSequence
<1>3. source \in Configurations /\ source.records \in Nat
  BY SourcesAssumption DEF Init, IsConfiguration
<1>4. DOMAIN input = Connections
  BY DEF Init
<1>5. ASSUME NEW c \in Connections
      PROVE  input[c] \in Seq(Nat) /\ \A j, k \in DOMAIN input[c] : j < k => input[c][j] < input[c][k]
  <2>1. PICK n \in Nat : input[c] = [k \in 1 .. n |-> k]
    BY <1>3 DEF Init
  <2> QED
    BY <2>1, SeqDef
<1>6. Ordered(out, mailbox, input, Connections)
  BY <1>1, <1>5 DEF Ordered, SentInOrder, MailInOrder, InputInOrder, SentThenMail, SentThenInput,
     MailThenInput
<1> QED
  BY <1>1, <1>2, <1>3, <1>4, <1>6 DEF OrderInv

\* The configuration does not change.
LEMMA SameSource ==
    ASSUME source' = source
    PROVE  IsSocket' = IsSocket /\ Kind' = Kind /\ Connections' = Connections
  BY DEF IsSocket, Kind, Connections

\* What process sends after what was sent before.
LEMMA ProcessOrdered ==
    ASSUME IsSequence(out), NEW mb, NEW inp, NEW D, Ordered(out, mb, inp, D),
           NEW p, Fits(p, out, mb, inp, D), NEW ts, Process(p, ts)
    PROVE  IsSequence(out') /\ Ordered(out', mb, inp, D)
<1> DEFINE wm == IF HasExtractor THEN Raised(ts) ELSE current_watermark
           due == ~ IsSocket /\ counter + 1 = watermark_interval
<1>1. PICK e, w : e = Element(p, ts) /\ w = WatermarkEvent(Generated(wm))
  OBVIOUS
<1>2. /\ e.kind = "element" /\ e.from = p.from /\ e.first = p.first /\ e.last = p.last
      /\ w.kind = "watermark"
  BY <1>1 DEF Element, WatermarkEvent
<1>3. PICK mid : mid = Append(out, e)
  OBVIOUS
<1>4. mid = out \o <<e>> /\ IsSequence(mid) /\ Ordered(mid, mb, inp, D)
  BY <1>2, <1>3, AppendFacts, OrderedElement
<1>5. out' = mid \o IF due THEN <<w>> ELSE <<>>
  BY <1>1, <1>4 DEF Process
<1>6. CASE due
  <2>1. out' = mid \o <<w>>
    BY <1>5, <1>6
  <2>2. out' = Append(mid, w) /\ IsSequence(Append(mid, w))
    BY <1>4, <2>1, AppendFacts
  <2> QED
    BY <1>2, <1>4, <2>2, OrderedWatermark
<1>7. CASE ~ due
  <2>1. out' = mid \o <<>>
    BY <1>5, <1>7
  <2>2. out' = mid
    BY <1>4, <2>1, ConcatEmptySeq DEF IsSequence
  <2> QED
    BY <1>4, <2>2
<1> QED
  BY <1>6, <1>7

\* A watermark on its own.
LEMMA GenerateOrdered ==
    ASSUME IsSequence(out), NEW mb, NEW inp, NEW D, Ordered(out, mb, inp, D), GenerateWatermark
    PROVE  IsSequence(out') /\ Ordered(out', mb, inp, D)
<1>1. PICK w : w = WatermarkEvent(Generated(current_watermark))
  OBVIOUS
<1>2. w.kind = "watermark" /\ out' = Append(out, w)
  BY <1>1 DEF WatermarkEvent, GenerateWatermark
<1> QED
  BY <1>2, AppendFacts, OrderedWatermark

\* The next record of a finite source, or datagram: what Read leaves.
LEMMA ReadFits ==
    ASSUME OrderInv, Me \in Connections, input[Me] # <<>>, Read
    PROVE  LET p == Piece(Me, Head(input[Me]), Head(input[Me]))
           IN  /\ Ordered(out, mailbox, input', Connections) /\ DOMAIN input' = Connections
               /\ Len(input'[Me]) = Len(input[Me]) - 1 /\ Len(input[Me]) \in Nat
               /\ IsPiece(p) /\ p.from = Me
               /\ \A j \in DOMAIN out : (IsElement(out[j]) /\ out[j].from = Me) => out[j].last < p.first
               /\ \A j \in DOMAIN mailbox :
                    (mailbox[j] # None /\ mailbox[j].from = Me) => mailbox[j].last < p.first
               /\ \A k \in DOMAIN input'[Me] : p.last < input'[Me][k]
<1>1. PICK q \in Seq(Nat) : q = input[Me] /\ q # <<>>
  BY DEF OrderInv, Ordered, InputInOrder
<1>2. PICK rest \in Seq(Nat) : rest = Tail(q)
  BY <1>1, HeadTailProperties
<1>3. /\ Len(q) \in Nat /\ 1 \in 1 .. Len(q) /\ Len(rest) = Len(q) - 1 /\ Head(q) = q[1]
      /\ \A k \in DOMAIN rest : rest[k] = q[1 + k]
  BY <1>1, <1>2
<1>4. PICK p : p = Piece(Me, Head(input[Me]), Head(input[Me]))
  OBVIOUS
<1>5. p.from = Me /\ p.first = q[1] /\ p.last = q[1]
  BY <1>1, <1>3, <1>4 DEF Piece
<1>6. DOMAIN input = Connections /\ Ordered(out, mailbox, input, Connections)
  BY DEF OrderInv
<1>7. input' = [input EXCEPT ![Me] = rest]
  BY <1>1, <1>2 DEF Read
<1>8. PICK inp : inp = [input EXCEPT ![Me] = rest]
  OBVIOUS
<1>9. /\ Ordered(out, mailbox, inp, Connections) /\ DOMAIN inp = Connections
      /\ IsPiece(p)
      /\ \A j \in DOMAIN out : (IsElement(out[j]) /\ out[j].from = Me) => out[j].last < p.first
      /\ \A j \in DOMAIN mailbox :
           (mailbox[j] # None /\ mailbox[j].from = Me) => mailbox[j].last < p.first
      /\ \A k \in DOMAIN inp[Me] : p.last < inp[Me][k]
  <2>1. Takes(p, Me, q, 1, rest)
    BY <1>1, <1>2, <1>3, <1>5 DEF Takes
  <2> QED
    <3>1. Taken(p, Me, out, mailbox, inp, Connections)
      BY <1>1, <1>6, <1>8, <2>1, OrderedRead
    <3> QED
      BY <3>1 DEF Taken
<1>10. Len(inp[Me]) = Len(input[Me]) - 1 /\ Len(input[Me]) \in Nat
  BY <1>1, <1>3, <1>6, <1>8
<1> QED
  BY <1>4, <1>5, <1>7, <1>8, <1>9, <1>10

\* An element of a finite source.
LEMMA RecordOrdered ==
    ASSUME OrderInv, Me \in Connections, input[Me] # <<>>, Read, mailbox = <<>>,
           NEW ts, Process(Piece(Me, Head(input[Me]), Head(input[Me])), ts)
    PROVE  IsSequence(out') /\ Ordered(out', mailbox, input', Connections)
<1>1. PICK p : p = Piece(Me, Head(input[Me]), Head(input[Me]))
  OBVIOUS
<1>2. PICK inp : inp = input'
  OBVIOUS
<1>3. /\ Ordered(out, mailbox, inp, Connections) /\ IsPiece(p) /\ p.from = Me
      /\ \A j \in DOMAIN out : (IsElement(out[j]) /\ out[j].from = Me) => out[j].last < p.first
      /\ \A k \in DOMAIN inp[Me] : p.last < inp[Me][k]
  BY <1>1, <1>2, ReadFits
<1>4. DOMAIN mailbox = {}
  OBVIOUS
<1>5. Fits(p, out, mailbox, inp, Connections)
  BY <1>3, <1>4 DEF Fits
<1>6. IsSequence(out) /\ Process(p, ts)
  BY <1>1 DEF OrderInv
<1> QED
  BY <1>2, <1>3, <1>5, <1>6, ProcessOrdered

\* Every step keeps the order.
LEMMA OrderStep == OrderInv /\ [Next]_vars => OrderInv'
<1> SUFFICES ASSUME OrderInv, [Next]_vars PROVE OrderInv'
  OBVIOUS
<1>1. source' = source
  BY DEF Next, Finite, Socket, StartPart, ProcessRecord, EndPart, OpenFile, ReadLine, EndOfFile,
     CloseTcp, ReadTcp, ReadUdp, UdpError, ReceiveBytes, PeriodicWatermark, SetClock, vars
<1>2. IsSocket' = IsSocket /\ Kind' = Kind /\ Connections' = Connections
  BY <1>1, SameSource
<1>3. /\ IsSequence(out) /\ IsSequence(mailbox) /\ DOMAIN input = Connections
      /\ Ordered(out, mailbox, input, Connections) /\ source \in Configurations
      /\ ~ IsSocket => mailbox = <<>>
  BY DEF OrderInv
<1>4. /\ Me \in Connections /\ (Kind \in {"collection", "file"} => ~ IsSocket)
      /\ (Kind \in {"tcp", "udp"} => Kind # "collection")
  BY <1>3, SourcesAssumption DEF IsConfiguration, Me, Connections, IsSocket, Kind
<1>5. ASSUME UNCHANGED <<input, mailbox, context>>, pc' = pc, left' = left PROVE OrderInv'
  BY <1>1, <1>2, <1>5 DEF OrderInv, context
<1>6. CASE UNCHANGED vars
  BY <1>5, <1>6 DEF vars
<1>7. CASE StartPart
  <2>1. PICK len \in Nat : len = Len(input[Me])
    BY <1>3, <1>4 DEF Ordered, InputInOrder
  <2>2. left' \in Nat /\ left' <= Len(input[Me])
    BY <1>7, <2>1, SourcesAssumption DEF StartPart
  <2> QED
    BY <1>1, <1>2, <1>3, <1>7, <2>2 DEF StartPart, OrderInv, context
<1>8. CASE ProcessRecord
  <2>1. /\ Kind = "collection" /\ pc = "reading" /\ left > 0 /\ Read /\ left' = left - 1
        /\ mailbox' = mailbox /\ mailbox = <<>> /\ left \in Nat /\ left <= Len(input[Me])
    BY <1>3, <1>4, <1>8 DEF ProcessRecord, OrderInv
  <2>2. input[Me] # <<>>
    BY <2>1
  <2>3. PICK ts : Process(Piece(Me, Head(input[Me]), Head(input[Me])), ts)
    BY <1>8 DEF ProcessRecord
  <2>4. IsSequence(out') /\ Ordered(out', mailbox, input', Connections)
    BY <1>4, <2>1, <2>2, <2>3, RecordOrdered
  <2>5. /\ DOMAIN input' = Connections
        /\ Len(input'[Me]) = Len(input[Me]) - 1 /\ Len(input[Me]) \in Nat
    BY <1>4, <2>1, <2>2, ReadFits
  <2>6. left' \in Nat /\ left' <= Len(input'[Me])
    BY <2>1, <2>5
  <2> QED
    BY <1>1, <1>2, <1>3, <2>1, <2>4, <2>5, <2>6 DEF OrderInv
<1>9. CASE EndPart
  <2>1. UNCHANGED <<input, mailbox>> /\ pc' # "reading"
    BY <1>9 DEF EndPart
  <2>2. IsSequence(out') /\ Ordered(out', mailbox, input, Connections)
    <3>1. CASE UNCHANGED context
      BY <1>3, <3>1 DEF context
    <3>2. CASE GenerateWatermark
      BY <1>3, <3>2, GenerateOrdered
    <3> QED
      BY <1>9, <3>1, <3>2 DEF EndPart
  <2> QED
    BY <1>1, <1>2, <1>3, <2>1, <2>2 DEF OrderInv
<1>10. CASE OpenFile
  BY <1>1, <1>2, <1>3, <1>10 DEF OpenFile, OrderInv, context
<1>11. CASE ReadLine
  <2>1. Kind = "file" /\ Kind # "collection" /\ input[Me] # <<>> /\ Read /\ mailbox' = mailbox /\ mailbox = <<>>
    BY <1>3, <1>4, <1>11 DEF ReadLine
  <2>2. DOMAIN input' = Connections /\ Ordered(out, mailbox, input', Connections)
    BY <1>4, <2>1, ReadFits
  <2>3. IsSequence(out') /\ Ordered(out', mailbox, input', Connections)
    <3>1. CASE UNCHANGED context
      BY <1>3, <2>2, <3>1 DEF context
    <3>2. ASSUME NEW ts, Process(Piece(Me, Head(input[Me]), Head(input[Me])), ts)
          PROVE  IsSequence(out') /\ Ordered(out', mailbox, input', Connections)
      BY <1>4, <2>1, <3>2, RecordOrdered
    <3> QED
      BY <1>11, <3>1, <3>2 DEF ReadLine
  <2> QED
    BY <1>1, <1>2, <1>3, <2>1, <2>2, <2>3 DEF OrderInv
<1>12. CASE EndOfFile
  <2>1. UNCHANGED <<input, mailbox>> /\ pc' # "reading" /\ GenerateWatermark
    BY <1>12 DEF EndOfFile
  <2>2. IsSequence(out') /\ Ordered(out', mailbox, input, Connections)
    BY <1>3, <2>1, GenerateOrdered
  <2> QED
    BY <1>1, <1>2, <1>3, <2>1, <2>2 DEF OrderInv
<1>13. ASSUME NEW c \in Connections, CloseTcp(c) PROVE OrderInv'
  <2>1. Kind = "tcp" /\ IsSocket /\ input' = input /\ out' = out /\ mailbox' = Append(mailbox, None)
    BY <1>13 DEF CloseTcp, IsSocket, context
  <2>2. PICK m : m = None
    OBVIOUS
  <2>3. Ordered(out, Append(mailbox, m), input, Connections) /\ IsSequence(Append(mailbox, m))
    BY <1>3, <2>2, OrderedMessage
  <2> QED
    BY <1>1, <1>2, <1>3, <1>4, <2>1, <2>2, <2>3 DEF OrderInv
<1>14. ASSUME NEW c \in Connections, NEW n \in 1 .. Len(input[c]), ReadTcp(c, n) PROVE OrderInv'
  <2>1. PICK q \in Seq(Nat) : q = input[c]
    BY <1>3 DEF Ordered, InputInOrder
  <2>2. PICK len \in Nat : len = Len(q)
    BY <2>1
  <2>3. PICK rest : rest = SubSeq(q, n + 1, len)
    OBVIOUS
  <2>4. /\ rest \in Seq(Nat) /\ Len(rest) = len - n
        /\ \A k \in DOMAIN rest : rest[k] = q[n + k]
    <3>1. n \in 1 .. len /\ n + 1 \in Nat /\ n + 1 > 0
      BY <2>1, <2>2
    <3>2. \A i \in (n + 1) .. len : q[i] \in Nat
      BY <2>2, <3>1
    <3>3. /\ rest \in Seq(Nat)
          /\ Len(rest) = IF n + 1 <= len THEN len - (n + 1) + 1 ELSE 0
          /\ \A i \in 1 .. (len - (n + 1) + 1) : rest[i] = q[(n + 1) + i - 1]
      BY <2>3, <3>1, <3>2, SubSeqProperties
    <3>4. Len(rest) = len - n
      BY <3>1, <3>3
    <3>5. DOMAIN rest = 1 .. (len - n)
      BY <3>3, <3>4
    <3>6. ASSUME NEW k \in DOMAIN rest PROVE rest[k] = q[n + k]
      <4>1. k \in 1 .. (len - (n + 1) + 1) /\ (n + 1) + k - 1 = n + k
        BY <3>1, <3>5
      <4> QED
        BY <3>3, <4>1
    <3> QED
      BY <3>3, <3>4, <3>6
  <2>5. PICK p : p = Piece(c, q[1], q[n])
    OBVIOUS
  <2>6. p.from = c /\ p.first = q[1] /\ p.last = q[n]
    BY <2>5 DEF Piece
  <2>7. /\ Kind = "tcp" /\ IsSocket /\ out' = out /\ mailbox' = Append(mailbox, p)
        /\ input' = [input EXCEPT ![c] = rest]
    BY <1>14, <2>1, <2>2, <2>3, <2>5 DEF ReadTcp, IsSocket, context
  <2>8. PICK inp : inp = [input EXCEPT ![c] = rest]
    OBVIOUS
  <2>9. /\ Ordered(out, mailbox, inp, Connections) /\ DOMAIN inp = Connections
        /\ IsPiece(p)
        /\ \A j \in DOMAIN out : (IsElement(out[j]) /\ out[j].from = c) => out[j].last < p.first
        /\ \A j \in DOMAIN mailbox : (mailbox[j] # None /\ mailbox[j].from = c) => mailbox[j].last < p.first
        /\ \A k \in DOMAIN inp[c] : p.last < inp[c][k]
    <3>1. n \in 1 .. Len(q)
      BY <2>1
    <3>2. Takes(p, c, q, n, rest)
      BY <2>1, <2>2, <2>4, <2>6, <3>1 DEF Takes
    <3> QED
      <4>1. Taken(p, c, out, mailbox, inp, Connections)
        BY <1>3, <2>1, <2>8, <3>2, OrderedRead
      <4> QED
        BY <4>1 DEF Taken
  <2>10. Ordered(out, Append(mailbox, p), inp, Connections) /\ IsSequence(Append(mailbox, p))
    BY <1>3, <2>6, <2>9, OrderedMessage
  <2> QED
    BY <1>1, <1>2, <1>3, <1>4, <2>7, <2>8, <2>9, <2>10 DEF OrderInv
<1>15. CASE ReadUdp
  <2>1. PICK p : p = Piece(Me, Head(input[Me]), Head(input[Me]))
    OBVIOUS
  <2>2. /\ Kind = "udp" /\ IsSocket /\ input[Me] # <<>> /\ Read /\ out' = out
        /\ mailbox' = Append(mailbox, p)
    BY <1>15, <2>1 DEF ReadUdp, IsSocket, context
  <2>3. PICK inp : inp = input'
    OBVIOUS
  <2>4. /\ Ordered(out, mailbox, inp, Connections) /\ DOMAIN inp = Connections
        /\ IsPiece(p) /\ p.from = Me
        /\ \A j \in DOMAIN out : (IsElement(out[j]) /\ out[j].from = Me) => out[j].last < p.first
        /\ \A j \in DOMAIN mailbox :
             (mailbox[j] # None /\ mailbox[j].from = Me) => mailbox[j].last < p.first
        /\ \A k \in DOMAIN inp[Me] : p.last < inp[Me][k]
    BY <1>4, <2>1, <2>2, <2>3, ReadFits
  <2>5. Ordered(out, Append(mailbox, p), inp, Connections) /\ IsSequence(Append(mailbox, p))
    BY <1>3, <2>4, OrderedMessage
  <2> QED
    BY <1>1, <1>2, <1>3, <1>4, <2>2, <2>3, <2>4, <2>5 DEF OrderInv
<1>16. CASE UdpError
  BY <1>5, <1>16 DEF UdpError
<1>17. CASE ReceiveBytes
  <2>1. /\ mailbox # <<>> /\ mailbox' = Tail(mailbox) /\ input' = input
        /\ pc' = pc /\ left' = left /\ IsSocket
    BY <1>3, <1>17 DEF ReceiveBytes
  <2>2. PICK mb : mb = Tail(mailbox)
    OBVIOUS
  <2>3. /\ Ordered(out, mb, input, Connections) /\ IsSequence(mb)
        /\ Head(mailbox) # None => Fits(Head(mailbox), out, mb, input, Connections)
    BY <1>3, <2>1, <2>2, OrderedReceive
  <2>4. IsSequence(out') /\ Ordered(out', mb, input, Connections)
    <3>1. CASE UNCHANGED context
      BY <1>3, <2>3, <3>1 DEF context
    <3>2. ASSUME NEW ts, Head(mailbox) # None, Process(Head(mailbox), ts)
          PROVE  IsSequence(out') /\ Ordered(out', mb, input, Connections)
      BY <1>3, <2>3, <3>2, ProcessOrdered
    <3> QED
      BY <1>17, <3>1, <3>2 DEF ReceiveBytes
  <2> QED
    BY <1>1, <1>2, <1>3, <2>1, <2>2, <2>3, <2>4 DEF OrderInv
<1>18. CASE PeriodicWatermark
  <2>1. UNCHANGED <<input, mailbox, pc, left>> /\ GenerateWatermark
    BY <1>18 DEF PeriodicWatermark
  <2>2. IsSequence(out') /\ Ordered(out', mailbox, input, Connections)
    BY <1>3, <2>1, GenerateOrdered
  <2> QED
    BY <1>1, <1>2, <1>3, <2>1, <2>2 DEF OrderInv
<1>19. ASSUME NEW t \in 0 .. MaxTs, SetClock(t) PROVE OrderInv'
  BY <1>5, <1>19 DEF SetClock
<1> QED
  BY <1>6, <1>7, <1>8, <1>9, <1>10, <1>11, <1>12, <1>13, <1>14, <1>15, <1>16, <1>17, <1>18, <1>19
     DEF Next, Finite, Socket

\* Nothing of an input is sent twice or out of order, for any configuration and
\* input, and however collections are cut into parts, bytes into pieces and the
\* sockets interleave (process_collection, process_file, receive_local).
THEOREM SentInOrderOnce == Spec => []InOrderOnce
<1>1. OrderInv => InOrderOnce
  BY DEF OrderInv, Ordered, SentInOrder, InOrderOnce, Elements, IsElement
<1> QED
  BY <1>1, InitOrdered, OrderStep, PTL DEF Spec

=============================================================================
