------------------------ MODULE ScriptRecovery_proofs ------------------------
(* Proofs about the pipeline behind a sender that repeats everything after a  *)
(* restart. The argument: the state of the first node is always the one after *)
(* some beginning of the log. A checkpoint is the state after an epoch of the *)
(* log; all events up to that epoch are covered by its watermark or its epoch *)
(* number, so they are dropped when they come again, and everything after it  *)
(* is handled as it was the first time.                                       *)
EXTENDS ScriptRecovery, Recovery_proofs

EpochsUpTo(lg, k) == {j \in 1 .. k : lg[j].kind = "epoch"}

\* The element at k is on time: no watermark before it covers it.
InTime(lg, k) ==
    /\ lg[k].kind = "element"
    /\ \A j \in 1 .. (k - 1) : lg[j].kind = "watermark" => lg[j].ts < lg[k].ts
InTimeUpTo(lg, k) == {j \in 1 .. k : InTime(lg, j)}

\* w is the last watermark among the first k events.
IsHighest(lg, k, w) ==
    /\ w = 0 \/ \E j \in 1 .. k : lg[j].kind = "watermark" /\ lg[j].ts = w
    /\ \A j \in 1 .. k : lg[j].kind = "watermark" => lg[j].ts <= w

\* s is the state of a node that has handled the first k events.
After(lg, k, s) ==
    /\ IsHighest(lg, k, s.watermark)
    /\ s.epoch = Cardinality(EpochsUpTo(lg, k))
    /\ s.seen \in InOrderOf(InTimeUpTo(lg, k))

\* What the sender's rules give.
LogEvents ==
    {Element(id, ts) : id \in Nat, ts \in 1 .. MaxTs} \cup {Watermark(ts) : ts \in 1 .. MaxTs}
        \cup {Epoch(e) : e \in Nat}
Script(lg) ==
    /\ lg \in Seq(LogEvents)
    /\ \A k \in DOMAIN lg :
         /\ lg[k].kind = "element" => lg[k].id = k
         /\ lg[k].kind = "watermark" =>
              \A j \in 1 .. (k - 1) : lg[j].kind = "watermark" => lg[j].ts < lg[k].ts
         /\ lg[k].kind = "epoch" =>
              /\ lg[k].epoch = Cardinality(EpochsUpTo(lg, k))
              /\ \A j \in 1 .. (k - 1) : lg[j].kind = "element" =>
                   \E l \in 1 .. (k - 1) : lg[l].kind = "watermark" /\ lg[j].ts <= lg[l].ts

\* The queue q of the first node has the events from h to the n that were sent.
\* The node was restored to the state after r; up to there it only drops.
Reached(lg, q, s, sav, n, h, r) ==
    /\ r = 0 \/ lg[r].kind = "epoch"
    /\ Len(q) = n - h
    /\ \A k \in 1 .. Len(q) : q[k] = lg[h + k]
    /\ IF h < r THEN ~ sav /\ After(lg, r, s)
       ELSE IF sav THEN After(lg, h + 1, s) ELSE After(lg, h, s)

ScriptInv ==
    /\ Script(log) /\ sent \in 0 .. Len(log)
    /\ ~ failed => \E h \in 0 .. sent, r \in 0 .. Len(log) :
                      Reached(log, queue[1], node[1], saving[1], sent, h, r)
    /\ \E n \in 0 .. Len(log) : node[1].seen \in InOrderOf(InTimeUpTo(log, n))
    /\ \A e \in DOMAIN dirs[1] : dirs[1][e] # None =>
         \E p \in 1 .. Len(log) : log[p].kind = "epoch" /\ After(log, p, dirs[1][e])

-----------------------------------------------------------------------------
(* One event more.                                                           *)

\* The events of the log.
LEMMA LogFacts ==
    ASSUME NEW lg, Script(lg)
    PROVE  /\ lg \in Seq(Events) /\ Len(lg) \in Nat /\ DOMAIN lg = 1 .. Len(lg)
           /\ \A k \in DOMAIN lg :
                /\ lg[k] \in Events
                /\ lg[k].kind \in {"element", "watermark", "epoch"}
                /\ lg[k].kind \in {"element", "watermark"} =>
                     lg[k].ts \in Nat /\ lg[k].ts > 0 /\ lg[k].ts <= MaxTs
<1>1. \A event \in LogEvents :
        /\ event \in Events
        /\ event.kind \in {"element", "watermark", "epoch"}
        /\ event.kind \in {"element", "watermark"} =>
             event.ts \in Nat /\ event.ts > 0 /\ event.ts <= MaxTs
  <2> SUFFICES ASSUME NEW event \in LogEvents
               PROVE  /\ event \in Events
                      /\ event.kind \in {"element", "watermark", "epoch"}
                      /\ event.kind \in {"element", "watermark"} =>
                           event.ts \in Nat /\ event.ts > 0 /\ event.ts <= MaxTs
    OBVIOUS
  <2>1. CASE \E id \in Nat, ts \in 1 .. MaxTs : event = Element(id, ts)
    BY <2>1, ScriptAssumption DEF Events, Element
  <2>2. CASE \E ts \in 1 .. MaxTs : event = Watermark(ts)
    BY <2>2, ScriptAssumption DEF Events, Watermark
  <2>3. CASE \E e \in Nat : event = Epoch(e)
    BY <2>3 DEF Events, Epoch
  <2> QED
    BY <2>1, <2>2, <2>3 DEF LogEvents
<1>2. /\ lg \in Seq(LogEvents) /\ Len(lg) \in Nat /\ DOMAIN lg = 1 .. Len(lg)
      /\ \A k \in DOMAIN lg : lg[k] \in LogEvents
  <2>1. lg \in Seq(LogEvents)
    BY DEF Script
  <2> QED
    BY <2>1, ElementOfSeq
<1>3. lg \in [1 .. Len(lg) -> Events]
  BY <1>1, <1>2
<1>4. lg \in Seq(Events)
  BY <1>2, <1>3, SeqDef
<1> QED
  BY <1>1, <1>2, <1>4

\* What a beginning of the log holds, and what one event more adds.
LEMMA UpToFacts ==
    ASSUME NEW lg, NEW k \in Nat
    PROVE  /\ IsFiniteSet(EpochsUpTo(lg, k)) /\ Cardinality(EpochsUpTo(lg, k)) \in Nat
           /\ IsFiniteSet(InTimeUpTo(lg, k)) /\ Cardinality(InTimeUpTo(lg, k)) \in Nat
           /\ InTimeUpTo(lg, k) \in SUBSET Nat
           /\ k + 1 \notin EpochsUpTo(lg, k) /\ k + 1 \notin InTimeUpTo(lg, k)
           /\ EpochsUpTo(lg, k + 1) =
                IF lg[k + 1].kind = "epoch" THEN EpochsUpTo(lg, k) \cup {k + 1} ELSE EpochsUpTo(lg, k)
           /\ InTimeUpTo(lg, k + 1) =
                IF InTime(lg, k + 1) THEN InTimeUpTo(lg, k) \cup {k + 1} ELSE InTimeUpTo(lg, k)
<1>1. IsFiniteSet(1 .. k)
  BY FS_Interval
<1>2. EpochsUpTo(lg, k) \subseteq 1 .. k /\ InTimeUpTo(lg, k) \subseteq 1 .. k
  BY DEF EpochsUpTo, InTimeUpTo
<1>3. /\ IsFiniteSet(EpochsUpTo(lg, k)) /\ Cardinality(EpochsUpTo(lg, k)) \in Nat
      /\ IsFiniteSet(InTimeUpTo(lg, k)) /\ Cardinality(InTimeUpTo(lg, k)) \in Nat
  BY <1>1, <1>2, FS_Subset, FS_CardinalityType
<1>4. 1 .. (k + 1) = (1 .. k) \cup {k + 1} /\ k + 1 \notin 1 .. k /\ 1 .. k \in SUBSET Nat
  OBVIOUS
<1>5. EpochsUpTo(lg, k + 1) =
        IF lg[k + 1].kind = "epoch" THEN EpochsUpTo(lg, k) \cup {k + 1} ELSE EpochsUpTo(lg, k)
  BY <1>4, Zenon DEF EpochsUpTo
<1>6. InTimeUpTo(lg, k + 1) =
        IF InTime(lg, k + 1) THEN InTimeUpTo(lg, k) \cup {k + 1} ELSE InTimeUpTo(lg, k)
  BY <1>4, Zenon DEF InTimeUpTo
<1> QED
  BY <1>2, <1>3, <1>4, <1>5, <1>6

\* The state after no event at all.
LEMMA AfterNothing ==
    ASSUME NEW lg
    PROVE  After(lg, 0, NewNode)
<1>1. EpochsUpTo(lg, 0) = {} /\ InTimeUpTo(lg, 0) = {}
  BY DEF EpochsUpTo, InTimeUpTo
<1>2. Cardinality({}) = 0
  BY FS_EmptySet
<1>3. IsHighest(lg, 0, 0)
  BY DEF IsHighest
<1>4. <<>> \in InOrderOf({})
  <2>1. <<>> \in [1 .. 0 -> {}] /\ DOMAIN <<>> = {}
    OBVIOUS
  <2> QED
    BY <1>2, <2>1 DEF InOrderOf
<1> QED
  BY <1>1, <1>2, <1>3, <1>4 DEF After, NewNode

\* An element that is on time is one more in order.
LEMMA InOrderAppend ==
    ASSUME NEW S \in SUBSET Nat, IsFiniteSet(S), NEW seen \in InOrderOf(S),
           NEW x \in Nat, \A y \in S : y < x
    PROVE  /\ seen \in Seq(Nat)
           /\ Append(seen, x) \in InOrderOf(S \cup {x})
<1>1. PICK n \in Nat : n = Cardinality(S)
  BY FS_CardinalityType
<1>2. /\ seen \in [1 .. n -> S]
      /\ \A j, k \in DOMAIN seen : j < k => seen[j] < seen[k]
  BY <1>1 DEF InOrderOf
<1>3. seen \in Seq(S)
  BY <1>2, SeqDef
<1>4. seen \in Seq(Nat) /\ Len(seen) = n
  <2>1. seen \in [1 .. n -> Nat]
    BY <1>2
  <2>2. Len(seen) = n
    BY <1>2, <1>3
  <2> QED
    BY <2>1, <2>2, SeqDef
<1>5. PICK new \in Seq(Nat) : new = Append(seen, x)
  <2>1. Append(seen, x) \in Seq(Nat)
    BY <1>4
  <2> QED
    BY <2>1
<1>6. /\ Len(new) = n + 1 /\ DOMAIN new = 1 .. (n + 1) /\ new[n + 1] = x
      /\ \A k \in 1 .. n : new[k] = seen[k]
  <2>1. Len(new) = n + 1
    BY <1>4, <1>5, AppendProperties
  <2>2. DOMAIN new = 1 .. Len(new)
    BY <1>5
  <2>3. new[n + 1] = x /\ \A k \in 1 .. n : new[k] = seen[k]
    BY <1>4, <1>5, AppendProperties
  <2> QED
    BY <2>1, <2>2, <2>3
<1>7. \A k \in 1 .. (n + 1) : k \in 1 .. n \/ k = n + 1
  OBVIOUS
<1>8. \A k \in 1 .. n : seen[k] \in S /\ seen[k] < x
  BY <1>2
<1>9. Cardinality(S \cup {x}) = n + 1
  <2>1. x \notin S
    OBVIOUS
  <2> QED
    BY <1>1, <2>1, FS_AddElement
<1>10. new \in [1 .. (n + 1) -> S \cup {x}]
  <2>1. \A k \in 1 .. (n + 1) : new[k] \in S \cup {x}
    BY <1>6, <1>7, <1>8
  <2>2. new \in [1 .. Len(new) -> Nat]
    BY <1>5, LenProperties
  <2> QED
    BY <1>6, <2>1, <2>2
<1>11. ASSUME NEW j \in DOMAIN new, NEW k \in DOMAIN new, j < k PROVE new[j] < new[k]
  <2>1. j \in 1 .. n
    BY <1>6, <1>11
  <2>2. CASE k \in 1 .. n
    BY <1>2, <1>6, <1>11, <2>1, <2>2
  <2>3. CASE k = n + 1
    BY <1>6, <1>8, <2>1, <2>3
  <2> QED
    BY <1>6, <1>7, <2>2, <2>3
<1> QED
  BY <1>4, <1>5, <1>9, <1>10, <1>11 DEF InOrderOf

\* An element is on time when the watermark of the events before does not cover it.
LEMMA InTimeByWatermark ==
    ASSUME NEW lg, Script(lg), NEW k \in Nat, k + 1 \in DOMAIN lg, NEW w \in Nat,
           IsHighest(lg, k, w), lg[k + 1].kind = "element"
    PROVE  InTime(lg, k + 1) <=> lg[k + 1].ts > w
<1>1. /\ lg[k + 1].ts \in Nat /\ lg[k + 1].ts > 0 /\ (k + 1) - 1 = k
      /\ \A j \in 1 .. k : j \in DOMAIN lg
      /\ \A j \in 1 .. k : lg[j].kind = "watermark" => lg[j].ts \in Nat
  <2>1. lg[k + 1].ts \in Nat /\ lg[k + 1].ts > 0 /\ (k + 1) - 1 = k
    BY LogFacts
  <2>2. \A j \in 1 .. k : j \in DOMAIN lg
    BY LogFacts
  <2> QED
    BY <2>1, <2>2, LogFacts
<1>2. ASSUME InTime(lg, k + 1) PROVE lg[k + 1].ts > w
  BY <1>1, <1>2 DEF InTime, IsHighest
<1>3. ASSUME lg[k + 1].ts > w PROVE InTime(lg, k + 1)
  BY <1>1, <1>3 DEF InTime, IsHighest
<1> QED
  BY <1>2, <1>3

\* A node in the state after k events is in the state after k + 1 events when
\* the next one is handled or dropped.
LEMMA AfterStep ==
    ASSUME NEW lg, Script(lg), NEW k \in Nat, k + 1 \in DOMAIN lg, NEW s \in State,
           After(lg, k, s), NEW t,
           Takes(s, lg[k + 1], t) \/ (Dropped(s, lg[k + 1]) /\ t = s)
    PROVE  After(lg, k + 1, t)
<1>1. /\ lg[k + 1].kind \in {"element", "watermark", "epoch"}
      /\ lg[k + 1].kind # "epoch" => lg[k + 1].ts \in Nat /\ lg[k + 1].ts > 0
      /\ s.watermark \in Nat /\ s.epoch \in Nat /\ s.seen \in Seq(Nat)
      /\ \A j \in 1 .. k : j \in DOMAIN lg
      /\ \A j \in 1 .. (k + 1) : j \in 1 .. k \/ j = k + 1
      /\ \A j \in 1 .. k : j \in 1 .. (k + 1)
      /\ k + 1 \in 1 .. (k + 1)
  BY LogFacts DEF State
<1>2. /\ IsHighest(lg, k, s.watermark) /\ s.epoch = Cardinality(EpochsUpTo(lg, k))
      /\ s.seen \in InOrderOf(InTimeUpTo(lg, k))
  BY DEF After
<1>3. CASE lg[k + 1].kind = "element"
  <2>1. IsHighest(lg, k + 1, s.watermark)
    BY <1>1, <1>2, <1>3 DEF IsHighest
  <2>2. EpochsUpTo(lg, k + 1) = EpochsUpTo(lg, k)
    BY <1>3, UpToFacts
  <2>3. InTime(lg, k + 1) <=> lg[k + 1].ts > s.watermark
    BY <1>1, <1>2, <1>3, InTimeByWatermark
  <2>4. CASE Takes(s, lg[k + 1], t)
    <3>1. lg[k + 1].id = k + 1 /\ lg[k + 1].ts > s.watermark
      BY <1>3, <2>4 DEF Takes, Script
    <3>2. PICK new : new = Append(s.seen, k + 1)
      OBVIOUS
    <3>3. t = [s EXCEPT !.seen = new]
      BY <1>3, <2>4, <3>1, <3>2 DEF Takes
    <3>4. t.seen = new /\ t.watermark = s.watermark /\ t.epoch = s.epoch
      BY <3>3 DEF State
    <3>5. InTimeUpTo(lg, k + 1) = InTimeUpTo(lg, k) \cup {k + 1}
      BY <2>3, <3>1, UpToFacts
    <3>6. \A y \in InTimeUpTo(lg, k) : y < k + 1
      BY DEF InTimeUpTo
    <3>7. new \in InOrderOf(InTimeUpTo(lg, k) \cup {k + 1})
      <4>1. PICK S \in SUBSET Nat : S = InTimeUpTo(lg, k) /\ IsFiniteSet(S)
        BY UpToFacts
      <4>2. s.seen \in InOrderOf(S) /\ \A y \in S : y < k + 1
        BY <1>2, <3>6, <4>1
      <4>3. Append(s.seen, k + 1) \in InOrderOf(S \cup {k + 1})
        BY <4>1, <4>2, InOrderAppend
      <4> QED
        BY <3>2, <4>1, <4>3
    <3> QED
      BY <1>2, <2>1, <2>2, <3>4, <3>5, <3>7 DEF After
  <2>5. CASE Dropped(s, lg[k + 1]) /\ t = s
    <3>1. ~ (lg[k + 1].ts > s.watermark)
      BY <1>1, <1>3, <2>5 DEF Dropped
    <3>2. InTimeUpTo(lg, k + 1) = InTimeUpTo(lg, k)
      BY <2>3, <3>1, UpToFacts
    <3> QED
      BY <1>2, <2>1, <2>2, <2>5, <3>2 DEF After
  <2> QED
    BY <2>4, <2>5
<1>4. CASE lg[k + 1].kind = "watermark"
  <2>1. \A j \in 1 .. k : lg[j].kind = "watermark" => lg[j].ts < lg[k + 1].ts
    <3>1. (k + 1) - 1 = k
      OBVIOUS
    <3> QED
      BY <1>4, <3>1 DEF Script
  <2>2. lg[k + 1].ts > s.watermark
    BY <1>1, <1>2, <1>4, <2>1 DEF IsHighest
  <2>3. t = [s EXCEPT !.watermark = lg[k + 1].ts]
    BY <1>1, <1>4, <2>2 DEF Takes, Dropped
  <2>4. t.watermark = lg[k + 1].ts /\ t.epoch = s.epoch /\ t.seen = s.seen
    BY <2>3 DEF State
  <2>5. IsHighest(lg, k + 1, lg[k + 1].ts)
    <3>1. \A j \in 1 .. (k + 1) : lg[j].kind = "watermark" => lg[j].ts <= lg[k + 1].ts
      <4>1. \A j \in 1 .. k : lg[j].kind = "watermark" => lg[j].ts \in Nat
        BY <1>1, LogFacts
      <4> QED
        BY <1>1, <1>4, <2>1, <4>1
    <3> QED
      BY <1>1, <1>4, <3>1 DEF IsHighest
  <2>6. EpochsUpTo(lg, k + 1) = EpochsUpTo(lg, k) /\ InTimeUpTo(lg, k + 1) = InTimeUpTo(lg, k)
    BY <1>4, UpToFacts DEF InTime
  <2> QED
    BY <1>2, <2>4, <2>5, <2>6 DEF After
<1>5. CASE lg[k + 1].kind = "epoch"
  <2>1. Cardinality(EpochsUpTo(lg, k + 1)) = s.epoch + 1
    <3>1. PICK S : S = EpochsUpTo(lg, k)
      OBVIOUS
    <3>2. IsFiniteSet(S) /\ k + 1 \notin S /\ EpochsUpTo(lg, k + 1) = S \cup {k + 1}
      BY <1>5, <3>1, UpToFacts
    <3>3. Cardinality(S \cup {k + 1}) = Cardinality(S) + 1
      BY <3>2, FS_AddElement
    <3> QED
      BY <1>2, <3>1, <3>2, <3>3
  <2>2. lg[k + 1].epoch = s.epoch + 1
    BY <1>5, <2>1 DEF Script
  <2>3. t = [s EXCEPT !.epoch = lg[k + 1].epoch]
    BY <1>1, <1>5, <2>2 DEF Takes, Dropped
  <2>4. t.watermark = s.watermark /\ t.epoch = lg[k + 1].epoch /\ t.seen = s.seen
    BY <2>3 DEF State
  <2>5. IsHighest(lg, k + 1, s.watermark)
    BY <1>1, <1>2, <1>5 DEF IsHighest
  <2>6. InTimeUpTo(lg, k + 1) = InTimeUpTo(lg, k)
    BY <1>5, UpToFacts DEF InTime
  <2> QED
    BY <1>2, <2>1, <2>2, <2>4, <2>5, <2>6 DEF After
<1> QED
  BY <1>1, <1>3, <1>4, <1>5

\* After an epoch of the log, everything up to it is dropped.
LEMMA DroppedUpToEpoch ==
    ASSUME NEW lg, Script(lg), NEW r \in DOMAIN lg, lg[r].kind = "epoch",
           NEW s \in State, After(lg, r, s), NEW j \in 1 .. r
    PROVE  Dropped(s, lg[j]) /\ \A t : ~ Takes(s, lg[j], t)
<1>1. /\ j \in DOMAIN lg /\ r \in Nat /\ j \in Nat
      /\ \A l \in 1 .. r : l \in DOMAIN lg
      /\ s.watermark \in Nat /\ s.epoch \in Nat
  BY LogFacts DEF State
<1>2. /\ lg[j].kind \in {"element", "watermark", "epoch"}
      /\ lg[j].kind # "epoch" => lg[j].ts \in Nat
      /\ \A l \in 1 .. r : lg[l].kind = "watermark" => lg[l].ts \in Nat /\ lg[l].ts <= s.watermark
  BY <1>1, LogFacts DEF After, IsHighest
<1>3. CASE lg[j].kind = "epoch"
  <2>1. EpochsUpTo(lg, j) \subseteq EpochsUpTo(lg, r)
    BY <1>1 DEF EpochsUpTo
  <2>2. /\ lg[j].epoch = Cardinality(EpochsUpTo(lg, j))
        /\ Cardinality(EpochsUpTo(lg, j)) <= Cardinality(EpochsUpTo(lg, r))
        /\ Cardinality(EpochsUpTo(lg, j)) \in Nat
    BY <1>1, <1>3, <2>1, UpToFacts, FS_Subset DEF Script
  <2>3. lg[j].epoch <= s.epoch /\ lg[j].epoch \in Nat
    BY <2>2 DEF After
  <2> QED
    BY <1>1, <1>3, <2>3 DEF Dropped, Takes
<1>4. CASE lg[j].kind # "epoch"
  <2>1. lg[j].ts <= s.watermark
    <3>1. CASE lg[j].kind = "watermark"
      BY <1>2, <3>1
    <3>2. CASE lg[j].kind = "element"
      <4>1. j \in 1 .. (r - 1)
        BY <1>1, <1>4
      <4>2. PICK l \in 1 .. (r - 1) : lg[l].kind = "watermark" /\ lg[j].ts <= lg[l].ts
        BY <3>2, <4>1 DEF Script
      <4>3. l \in 1 .. r
        BY <1>1
      <4> QED
        BY <1>1, <1>2, <1>4, <4>2, <4>3
    <3> QED
      BY <1>2, <1>4, <3>1, <3>2
  <2> QED
    BY <1>1, <1>2, <1>4, <2>1 DEF Dropped, Takes
<1> QED
  BY <1>3, <1>4

\* Events that are added to the log do not change what came before.
LEMMA AfterExtend ==
    ASSUME NEW lg, NEW lg2, NEW k \in Nat, \A j \in 1 .. k : lg2[j] = lg[j], NEW s
    PROVE  /\ EpochsUpTo(lg2, k) = EpochsUpTo(lg, k)
           /\ InTimeUpTo(lg2, k) = InTimeUpTo(lg, k)
           /\ After(lg, k, s) => After(lg2, k, s)
<1>1. EpochsUpTo(lg2, k) = EpochsUpTo(lg, k)
  BY DEF EpochsUpTo
<1>2. \A j \in 1 .. k : InTime(lg2, j) <=> InTime(lg, j)
  <2> SUFFICES ASSUME NEW j \in 1 .. k PROVE InTime(lg2, j) <=> InTime(lg, j)
    OBVIOUS
  <2>1. \A l \in 1 .. (j - 1) : l \in 1 .. k
    OBVIOUS
  <2> QED
    BY <2>1 DEF InTime
<1>3. InTimeUpTo(lg2, k) = InTimeUpTo(lg, k)
  BY <1>2 DEF InTimeUpTo
<1>4. \A w : IsHighest(lg, k, w) => IsHighest(lg2, k, w)
  BY DEF IsHighest
<1> QED
  BY <1>1, <1>3, <1>4 DEF After

-----------------------------------------------------------------------------
(* What is sent.                                                             *)

\* Highest is what its name says.
LEMMA HighestFacts ==
    ASSUME NEW events \in Seq(Events), NEW kind,
           \A k \in DOMAIN events : events[k].kind = kind =>
               events[k].ts \in Nat /\ events[k].ts <= MaxTs
    PROVE  /\ Highest(kind, events) \in Nat
           /\ \/ Highest(kind, events) = 0
              \/ \E k \in DOMAIN events : events[k].kind = kind /\ events[k].ts = Highest(kind, events)
           /\ \A k \in DOMAIN events : events[k].kind = kind => events[k].ts <= Highest(kind, events)
<1> DEFINE those == {n \in DOMAIN events : events[n].kind = kind}
           S == {0} \cup {events[k].ts : k \in those}
<1>1. \A x \in S : x = 0 \/ \E k \in DOMAIN events : events[k].kind = kind /\ x = events[k].ts
  OBVIOUS
<1>2. 0 \in S /\ \A k \in DOMAIN events : events[k].kind = kind => events[k].ts \in S
  OBVIOUS
<1>3. Highest(kind, events) = Max(S)
  BY DEF Highest
<1> HIDE DEF S
<1>4. MaxTs \in Nat /\ S \in SUBSET Nat /\ S # {} /\ \A x \in S : x <= MaxTs
  BY <1>1, <1>2, ScriptAssumption
<1>5. Max(S) \in S /\ \A x \in S : x <= Max(S)
  BY <1>4, MaxOfBounded
<1> QED
  BY <1>1, <1>2, <1>3, <1>4, <1>5

\* IsOnTime says the same as InTime.
LEMMA OnTimeIsInTime ==
    ASSUME Script(log), NEW k \in DOMAIN log
    PROVE  IsOnTime(k) <=> InTime(log, k)
<1>1. /\ log \in Seq(Events) /\ Len(log) \in Nat /\ DOMAIN log = 1 .. Len(log)
      /\ k \in Nat /\ k > 0 /\ k - 1 \in Nat
  BY LogFacts
<1>2. PICK before : before = SubSeq(log, 1, k - 1)
  OBVIOUS
<1>3. /\ before \in Seq(Events) /\ DOMAIN before = 1 .. (k - 1)
      /\ \A j \in 1 .. (k - 1) : before[j] = log[j]
  <2>1. \A j \in 1 .. (k - 1) : log[j] \in Events
    BY <1>1, LogFacts
  <2>2. /\ before \in Seq(Events) /\ Len(before) = k - 1
        /\ \A j \in 1 .. (k - 1) : before[j] = log[j]
    BY <1>1, <1>2, <2>1, SubSeqProperties
  <2> QED
    BY <2>2, LenProperties
<1>4. \A j \in DOMAIN before : before[j].kind = "watermark" =>
          before[j].ts \in Nat /\ before[j].ts <= MaxTs
  BY <1>1, <1>3, LogFacts
<1>5. PICK w \in Nat : w = Highest("watermark", before)
  BY <1>3, <1>4, HighestFacts
<1>6. IsHighest(log, k - 1, w)
  BY <1>3, <1>4, <1>5, HighestFacts DEF IsHighest
<1>7. (k - 1) + 1 = k
  BY <1>1
<1>8. log[k].kind = "element" => (InTime(log, k) <=> log[k].ts > w)
  BY <1>1, <1>6, <1>7, InTimeByWatermark
<1> QED
  BY <1>2, <1>5, <1>8 DEF IsOnTime, InTime

\* The sender adds an event to the log.
LEMMA ScriptAppend ==
    ASSUME Script(log), NEW event \in NewEvents
    PROVE  /\ event \in Events
           /\ Append(log, event) \in Seq(LogEvents) /\ Script(Append(log, event))
           /\ Len(Append(log, event)) = Len(log) + 1
           /\ Append(log, event)[Len(log) + 1] = event
           /\ \A k \in 1 .. Len(log) : Append(log, event)[k] = log[k]
<1>1. /\ log \in Seq(LogEvents) /\ log \in Seq(Events) /\ Len(log) \in Nat
      /\ DOMAIN log = 1 .. Len(log)
  BY LogFacts DEF Script
<1>2. PICK n \in Nat : n = Len(log)
  BY <1>1, Zenon
<1>3. \A kind \in {"element", "watermark"} : \A k \in DOMAIN log : log[k].kind = kind =>
          log[k].ts \in Nat /\ log[k].ts > 0 /\ log[k].ts <= MaxTs
  BY LogFacts
<1>4. PICK hw \in Nat, he \in Nat :
        hw = Highest("watermark", log) /\ he = Highest("element", log)
  BY <1>1, <1>3, HighestFacts
<1>5. /\ hw = 0 \/ \E k \in DOMAIN log : log[k].kind = "watermark" /\ log[k].ts = hw
      /\ \A k \in DOMAIN log : log[k].kind = "watermark" => log[k].ts <= hw
  BY <1>1, <1>3, <1>4, HighestFacts
<1>6. \A k \in DOMAIN log : log[k].kind = "element" => log[k].ts <= he
  BY <1>1, <1>3, <1>4, HighestFacts
<1>7. \/ \E ts \in 1 .. MaxTs : event = Element(n + 1, ts)
      \/ \E ts \in (hw + 1) .. MaxTs : event = Watermark(ts)
      \/ he <= hw /\ event = Epoch(LastEpoch + 1)
  BY <1>2, <1>4 DEF NewEvents
<1>8. LastEpoch = Cardinality(EpochsUpTo(log, n)) /\ LastEpoch \in Nat
  BY <1>1, <1>2, UpToFacts DEF LastEpoch, EpochsUpTo
<1>9. event \in LogEvents
  <2>1. CASE \E ts \in 1 .. MaxTs : event = Element(n + 1, ts)
    <3>1. PICK ts \in 1 .. MaxTs, id \in Nat : event = Element(id, ts)
      BY <2>1
    <3> QED
      BY <3>1 DEF LogEvents
  <2>2. CASE \E ts \in (hw + 1) .. MaxTs : event = Watermark(ts)
    <3>1. PICK ts \in (hw + 1) .. MaxTs : event = Watermark(ts)
      BY <2>2
    <3>2. ts \in 1 .. MaxTs
      BY ScriptAssumption
    <3> QED
      BY <3>1, <3>2 DEF LogEvents
  <2>3. CASE event = Epoch(LastEpoch + 1)
    <3>1. LastEpoch + 1 \in Nat
      BY <1>8
    <3> QED
      BY <2>3, <3>1 DEF LogEvents
  <2> QED
    BY <1>7, <2>1, <2>2, <2>3
<1>10. PICK lg \in Seq(LogEvents) : lg = Append(log, event)
  <2>1. Append(log, event) \in Seq(LogEvents)
    BY <1>1, <1>9
  <2> QED
    BY <2>1
<1>11. Len(lg) = n + 1 /\ lg[n + 1] = event /\ \A k \in 1 .. n : lg[k] = log[k]
  BY <1>1, <1>2, <1>9, <1>10, AppendProperties
<1>12. DOMAIN lg = 1 .. (n + 1) /\ \A k \in DOMAIN lg : k \in 1 .. n \/ k = n + 1
  <2>1. DOMAIN lg = 1 .. (n + 1)
    BY <1>10, <1>11, LenProperties
  <2>2. \A k \in 1 .. (n + 1) : k \in 1 .. n \/ k = n + 1
    OBVIOUS
  <2> QED
    BY <2>1, <2>2
<1>13. ASSUME NEW k \in 1 .. n
       PROVE  /\ lg[k].kind = "element" => lg[k].id = k
              /\ lg[k].kind = "watermark" =>
                   \A j \in 1 .. (k - 1) : lg[j].kind = "watermark" => lg[j].ts < lg[k].ts
              /\ lg[k].kind = "epoch" =>
                   /\ lg[k].epoch = Cardinality(EpochsUpTo(lg, k))
                   /\ \A j \in 1 .. (k - 1) : lg[j].kind = "element" =>
                        \E l \in 1 .. (k - 1) : lg[l].kind = "watermark" /\ lg[j].ts <= lg[l].ts
  <2>1. lg[k] = log[k] /\ k \in DOMAIN log /\ \A j \in 1 .. (k - 1) : lg[j] = log[j]
    BY <1>1, <1>2, <1>11
  <2>2. EpochsUpTo(lg, k) = EpochsUpTo(log, k)
    BY <1>11, AfterExtend
  <2>3. /\ log[k].kind = "element" => log[k].id = k
        /\ log[k].kind = "watermark" =>
             \A j \in 1 .. (k - 1) : log[j].kind = "watermark" => log[j].ts < log[k].ts
        /\ log[k].kind = "epoch" =>
             /\ log[k].epoch = Cardinality(EpochsUpTo(log, k))
             /\ \A j \in 1 .. (k - 1) : log[j].kind = "element" =>
                  \E l \in 1 .. (k - 1) : log[l].kind = "watermark" /\ log[j].ts <= log[l].ts
    BY <2>1 DEF Script
  <2> QED
    BY <2>1, <2>2, <2>3
<1>14. /\ event.kind = "element" => event.id = n + 1
       /\ event.kind = "watermark" =>
            \A j \in 1 .. n : lg[j].kind = "watermark" => lg[j].ts < event.ts
       /\ event.kind = "epoch" =>
            /\ event.epoch = Cardinality(EpochsUpTo(lg, n + 1))
            /\ \A j \in 1 .. n : lg[j].kind = "element" =>
                 \E l \in 1 .. n : lg[l].kind = "watermark" /\ lg[j].ts <= lg[l].ts
  <2>1. CASE \E ts \in 1 .. MaxTs : event = Element(n + 1, ts)
    BY <2>1 DEF Element
  <2>2. CASE \E ts \in (hw + 1) .. MaxTs : event = Watermark(ts)
    <3>1. event.kind = "watermark" /\ event.ts > hw /\ event.ts \in Nat
      BY <2>2, ScriptAssumption DEF Watermark
    <3>2. \A j \in 1 .. n : lg[j].kind = "watermark" => lg[j].ts <= hw /\ lg[j].ts \in Nat
      BY <1>1, <1>2, <1>3, <1>5, <1>11
    <3> QED
      BY <3>1, <3>2
  <2>3. CASE he <= hw /\ event = Epoch(LastEpoch + 1)
    <3>1. event.kind = "epoch" /\ event.epoch = LastEpoch + 1
      BY <2>3 DEF Epoch
    <3>2. Cardinality(EpochsUpTo(lg, n + 1)) = LastEpoch + 1
      <4>1. PICK S : S = EpochsUpTo(lg, n)
        OBVIOUS
      <4>2. S = EpochsUpTo(log, n)
        BY <1>11, <4>1, AfterExtend
      <4>3. IsFiniteSet(S) /\ n + 1 \notin S /\ EpochsUpTo(lg, n + 1) = S \cup {n + 1}
        BY <1>11, <3>1, <4>1, UpToFacts
      <4>4. Cardinality(S \cup {n + 1}) = Cardinality(S) + 1
        BY <4>3, FS_AddElement
      <4> QED
        BY <1>8, <4>2, <4>3, <4>4
    <3>3. ASSUME NEW j \in 1 .. n, lg[j].kind = "element"
          PROVE  \E l \in 1 .. n : lg[l].kind = "watermark" /\ lg[j].ts <= lg[l].ts
      <4>1. lg[j] = log[j] /\ j \in DOMAIN log
        BY <1>1, <1>2, <1>11
      <4>2. log[j].ts \in Nat /\ log[j].ts > 0 /\ log[j].ts <= he
        BY <1>3, <1>6, <3>3, <4>1
      <4>3. log[j].ts <= hw /\ hw # 0
        BY <2>3, <4>2
      <4>4. PICK l \in DOMAIN log : log[l].kind = "watermark" /\ log[l].ts = hw
        BY <1>5, <4>3
      <4> QED
        BY <1>1, <1>2, <1>11, <4>1, <4>3, <4>4
    <3> QED
      BY <3>1, <3>2, <3>3
  <2> QED
    BY <1>7, <2>1, <2>2, <2>3
<1>15. Script(lg)
  <2>1. (n + 1) - 1 = n
    OBVIOUS
  <2> QED
    BY <1>10, <1>11, <1>12, <1>13, <1>14, <2>1 DEF Script
<1>16. event \in Events
  BY <1>11, <1>12, <1>15, LogFacts
<1> QED
  BY <1>2, <1>10, <1>11, <1>15, <1>16

-----------------------------------------------------------------------------
(* The steps.                                                                *)

\* The invariant before the first event.
LEMMA InitScript == Init => ScriptInv
<1> SUFFICES ASSUME Init PROVE ScriptInv
  OBVIOUS
<1>1. /\ log = <<>> /\ sent = 0 /\ Len(log) = 0 /\ DOMAIN log = {}
      /\ queue[1] = <<>> /\ node[1] = NewNode /\ ~ saving[1] /\ DOMAIN dirs[1] = {}
  BY NodeFacts DEF Init, NodesInit
<1>2. Script(log)
  BY <1>1, EmptySeq DEF Script
<1>3. After(log, 0, NewNode)
  BY AfterNothing
<1>4. Reached(log, queue[1], node[1], saving[1], sent, 0, 0)
  BY <1>1, <1>3 DEF Reached
<1>5. node[1].seen \in InOrderOf(InTimeUpTo(log, 0))
  BY <1>1, <1>3 DEF After
<1>6. 0 \in 0 .. sent /\ 0 \in 0 .. Len(log) /\ sent \in 0 .. Len(log)
  BY <1>1
<1> QED
  BY <1>1, <1>2, <1>4, <1>5, <1>6 DEF ScriptInv

\* An event that is sent, the first time or again.
LEMMA ReachedSend ==
    ASSUME NEW lg \in Seq(Events), NEW lg2 \in Seq(Events), NEW q \in Seq(Events), NEW s, NEW sav,
           NEW n \in 0 .. Len(lg), NEW h \in 0 .. n, NEW r \in 0 .. Len(lg),
           Reached(lg, q, s, sav, n, h, r), sav => q # <<>>,
           \A k \in 1 .. Len(lg) : lg2[k] = lg[k], NEW event \in Events, event = lg2[n + 1]
    PROVE  Reached(lg2, Append(q, event), s, sav, n + 1, h, r)
<1>1. PICK q2 \in Seq(Events) : q2 = Append(q, event)
  <2>1. Append(q, event) \in Seq(Events)
    OBVIOUS
  <2> QED
    BY <2>1
<1>2. /\ Len(q2) = Len(q) + 1 /\ q2[Len(q) + 1] = event /\ \A k \in 1 .. Len(q) : q2[k] = q[k]
  BY <1>1, AppendProperties
<1>3. /\ Len(q) = n - h /\ \A k \in 1 .. Len(q) : q[k] = lg[h + k]
      /\ Len(q) \in Nat /\ Len(lg) \in Nat /\ n \in Nat /\ h \in Nat /\ r \in Nat
      /\ n <= Len(lg) /\ h <= n /\ r <= Len(lg)
  BY DEF Reached
<1>4. ASSUME NEW k \in 1 .. Len(q2) PROVE q2[k] = lg2[h + k]
  <2>1. CASE k \in 1 .. Len(q)
    <3>1. h + k \in 1 .. Len(lg)
      BY <1>3, <2>1
    <3> QED
      BY <1>2, <1>3, <2>1, <3>1
  <2>2. CASE k = Len(q) + 1
    <3>1. h + k = n + 1
      BY <1>3, <2>2
    <3> QED
      BY <1>2, <2>2, <3>1
  <2> QED
    BY <1>2, <1>3, <2>1, <2>2
<1>5. \A k \in 0 .. Len(lg) : After(lg, k, s) => After(lg2, k, s)
  <2> SUFFICES ASSUME NEW k \in 0 .. Len(lg) PROVE After(lg, k, s) => After(lg2, k, s)
    OBVIOUS
  <2>1. k \in Nat /\ \A j \in 1 .. k : lg2[j] = lg[j]
    BY <1>3
  <2> QED
    BY <2>1, AfterExtend
<1>6. r = 0 \/ lg2[r].kind = "epoch"
  BY <1>3 DEF Reached
<1>7. sav => h + 1 \in 0 .. Len(lg)
  <2> SUFFICES ASSUME sav PROVE h + 1 \in 0 .. Len(lg)
    OBVIOUS
  <2>1. Len(q) # 0
    BY EmptySeq
  <2> QED
    BY <1>3, <2>1
<1>8. IF h < r THEN ~ sav /\ After(lg2, r, s)
      ELSE IF sav THEN After(lg2, h + 1, s) ELSE After(lg2, h, s)
  <2>1. h \in 0 .. Len(lg) /\ r \in 0 .. Len(lg)
    BY <1>3
  <2> QED
    BY <1>5, <1>7, <2>1 DEF Reached
<1>9. Len(q2) = (n + 1) - h
  BY <1>2, <1>3
<1> QED
  BY <1>1, <1>4, <1>6, <1>8, <1>9 DEF Reached

\* What the first node has seen is what was on time in a beginning of the log.
LEMMA ReachedSeen ==
    ASSUME NEW lg, NEW q \in Seq(Events), NEW s, NEW sav, NEW m \in Nat,
           NEW n \in 0 .. m, NEW h \in 0 .. n, NEW r \in 0 .. m,
           Reached(lg, q, s, sav, n, h, r), sav => q # <<>>
    PROVE  \E k \in 0 .. m : s.seen \in InOrderOf(InTimeUpTo(lg, k))
<1>1. sav => h + 1 \in 0 .. m
  <2> SUFFICES ASSUME sav PROVE h + 1 \in 0 .. m
    OBVIOUS
  <2>1. Len(q) # 0 /\ Len(q) \in Nat /\ Len(q) = n - h
    BY EmptySeq DEF Reached
  <2> QED
    BY <2>1
<1>2. h \in 0 .. m
  OBVIOUS
<1> QED
  BY <1>1, <1>2 DEF Reached, After

\* A step of the first node.
LEMMA ReachedStep ==
    ASSUME ChainInv, Script(log), sent \in 0 .. Len(log),
           NEW h \in 0 .. sent, NEW r \in 0 .. Len(log),
           Reached(log, queue[1], node[1], saving[1], sent, h, r),
           FirstIdle \/ FirstDrops \/ FirstHandles \/ FirstBegins \/ FirstFinishes
    PROVE  /\ \E g \in 0 .. sent : Reached(log, queue'[1], node'[1], saving'[1], sent, g, r)
           /\ FirstFinishes => \E p \in 1 .. Len(log) :
                                  log[p].kind = "epoch" /\ After(log, p, node[1])
<1>1. /\ queue[1] \in Seq(Events) /\ node[1] \in State /\ saving[1] \in BOOLEAN
      /\ Len(log) \in Nat /\ DOMAIN log = 1 .. Len(log) /\ sent \in Nat /\ h \in Nat /\ r \in Nat
      /\ sent <= Len(log) /\ h <= sent /\ r <= Len(log)
  BY NodeFacts, LogFacts DEF ChainInv, Types
<1>2. /\ r = 0 \/ log[r].kind = "epoch"
      /\ Len(queue[1]) = sent - h
      /\ \A k \in 1 .. Len(queue[1]) : queue[1][k] = log[h + k]
      /\ IF h < r THEN ~ saving[1] /\ After(log, r, node[1])
         ELSE IF saving[1] THEN After(log, h + 1, node[1]) ELSE After(log, h, node[1])
  BY DEF Reached
<1>3. ASSUME queue[1] # <<>>
      PROVE  /\ h < sent /\ h + 1 \in 0 .. sent /\ h + 1 \in DOMAIN log
             /\ Event(1) = log[h + 1]
             /\ Tail(queue[1]) \in Seq(Events) /\ Len(Tail(queue[1])) = sent - (h + 1)
             /\ \A k \in 1 .. Len(Tail(queue[1])) : Tail(queue[1])[k] = log[(h + 1) + k]
  <2>1. PICK q \in Seq(Events) : q = queue[1]
    BY <1>1
  <2>2. Len(q) \in Nat /\ Len(q) > 0 /\ Head(q) = q[1]
    BY <1>3, <2>1
  <2>3. /\ h < sent /\ h + 1 \in 0 .. sent /\ h + 1 \in DOMAIN log
    BY <1>1, <1>2, <2>1, <2>2
  <2>4. Event(1) = log[h + 1]
    BY <1>2, <2>1, <2>2 DEF Event
  <2>5. /\ Tail(q) \in Seq(Events) /\ Len(Tail(q)) = Len(q) - 1
        /\ \A k \in 1 .. Len(Tail(q)) : Tail(q)[k] = q[k + 1]
    BY <1>3, <2>1
  <2>6. \A k \in 1 .. Len(Tail(q)) : Tail(q)[k] = log[(h + 1) + k]
    <3> SUFFICES ASSUME NEW k \in 1 .. Len(Tail(q)) PROVE Tail(q)[k] = log[(h + 1) + k]
      OBVIOUS
    <3>1. k + 1 \in 1 .. Len(q) /\ h + (k + 1) = (h + 1) + k
      BY <1>1, <2>2, <2>5
    <3>2. q[k + 1] = log[h + (k + 1)]
      BY <1>2, <2>1, <3>1
    <3> QED
      BY <2>5, <3>1, <3>2
  <2>7. Len(Tail(q)) = sent - (h + 1)
    BY <1>1, <1>2, <2>1, <2>5
  <2> QED
    BY <2>1, <2>3, <2>4, <2>5, <2>6, <2>7
<1>4. ASSUME queue[1] # <<>>, h < r
      PROVE  Dropped(node[1], log[h + 1]) /\ \A t : ~ Takes(node[1], log[h + 1], t)
  <2>1. r \in DOMAIN log /\ log[r].kind = "epoch" /\ h + 1 \in 1 .. r /\ After(log, r, node[1])
    BY <1>1, <1>2, <1>4
  <2> QED
    BY <1>1, <2>1, DroppedUpToEpoch
<1>5. ASSUME queue[1] # <<>>, queue'[1] = Tail(queue[1]), ~ saving'[1],
             IF h < r THEN After(log, r, node'[1]) ELSE After(log, h + 1, node'[1])
      PROVE  Reached(log, queue'[1], node'[1], saving'[1], sent, h + 1, r)
  <2>1. IF h + 1 < r THEN After(log, r, node'[1]) ELSE After(log, h + 1, node'[1])
    <3>1. CASE h < r /\ ~ (h + 1 < r)
      <4>1. h + 1 = r
        BY <1>1, <3>1
      <4> QED
        BY <1>5, <3>1, <4>1
    <3>2. h + 1 < r => h < r
      BY <1>1
    <3> QED
      BY <1>5, <3>1, <3>2
  <2> QED
    BY <1>2, <1>3, <1>5, <2>1 DEF Reached
<1>6. CASE FirstIdle
  <2>1. ~ FirstFinishes
    <3> SUFFICES ASSUME FirstFinishes PROVE FALSE
      OBVIOUS
    <3> QED
      BY <1>6 DEF FirstIdle, FirstFinishes
  <2> QED
    BY <1>6, <2>1 DEF FirstIdle
<1>7. CASE FirstDrops
  <2>1. /\ queue[1] # <<>> /\ queue'[1] = Tail(queue[1]) /\ ~ saving'[1] /\ ~ saving[1]
        /\ node'[1] = node[1] /\ Dropped(node[1], Event(1))
    BY <1>7 DEF FirstDrops
  <2>2. CASE h < r
    <3>1. Reached(log, queue'[1], node'[1], saving'[1], sent, h + 1, r)
      BY <1>2, <1>5, <2>1, <2>2
    <3> QED
      BY <1>3, <2>1, <3>1 DEF FirstFinishes
  <2>3. CASE ~ (h < r)
    <3>1. After(log, h + 1, node[1])
      BY <1>1, <1>2, <1>3, <2>1, <2>3, AfterStep
    <3>2. Reached(log, queue'[1], node'[1], saving'[1], sent, h + 1, r)
      BY <1>5, <2>1, <2>3, <3>1
    <3> QED
      BY <1>3, <2>1, <3>2 DEF FirstFinishes
  <2> QED
    BY <2>2, <2>3
<1>8. CASE FirstHandles
  <2>1. /\ queue[1] # <<>> /\ queue'[1] = Tail(queue[1]) /\ ~ saving'[1] /\ ~ saving[1]
        /\ Takes(node[1], Event(1), node'[1])
    BY <1>8 DEF FirstHandles
  <2>2. ~ (h < r)
    BY <1>3, <1>4, <2>1
  <2>3. After(log, h + 1, node'[1])
    BY <1>1, <1>2, <1>3, <2>1, <2>2, AfterStep
  <2>4. Reached(log, queue'[1], node'[1], saving'[1], sent, h + 1, r)
    BY <1>5, <2>1, <2>2, <2>3
  <2> QED
    BY <1>3, <2>1, <2>4 DEF FirstFinishes
<1>9. CASE FirstBegins
  <2>1. /\ queue[1] # <<>> /\ queue'[1] = queue[1] /\ saving'[1] /\ ~ saving[1]
        /\ Takes(node[1], Event(1), node'[1])
    BY <1>9 DEF FirstBegins
  <2>2. ~ (h < r)
    BY <1>3, <1>4, <2>1
  <2>3. After(log, h + 1, node'[1])
    BY <1>1, <1>2, <1>3, <2>1, <2>2, AfterStep
  <2>4. Reached(log, queue'[1], node'[1], saving'[1], sent, h, r)
    BY <1>2, <2>1, <2>2, <2>3 DEF Reached
  <2> QED
    BY <2>1, <2>4 DEF FirstFinishes
<1>10. CASE FirstFinishes
  <2>1. /\ queue[1] # <<>> /\ queue'[1] = Tail(queue[1]) /\ ~ saving'[1] /\ saving[1]
        /\ node'[1] = node[1]
    BY <1>10 DEF FirstFinishes
  <2>2. ~ (h < r) /\ After(log, h + 1, node[1])
    BY <1>2, <2>1
  <2>3. Reached(log, queue'[1], node'[1], saving'[1], sent, h + 1, r)
    BY <1>5, <2>1, <2>2
  <2>4. log[h + 1].kind = "epoch"
    BY <1>3, <2>1, NodeFacts DEF ChainInv, SavesItsEpoch
  <2> QED
    BY <1>1, <1>3, <2>1, <2>2, <2>3, <2>4
<1> QED
  BY <1>6, <1>7, <1>8, <1>9, <1>10

\* Every step of a node keeps the invariant.
LEMMA NodeStepKeepsScript ==
    ASSUME ChainInv, ScriptInv, NEW i \in Nodes, NodeStep(i), UNCHANGED <<log, sent>>
    PROVE  ScriptInv'
<1>1. /\ FirstIdle \/ FirstDrops \/ FirstHandles \/ FirstBegins \/ FirstFinishes
      /\ FirstDirs /\ failed' = failed
  BY FirstNodeStep
<1>2. ChainInv'
  BY NodeStepKeepsChain
<1>3. ~ failed
  BY DEF NodeStep, DropEvent, HandleElement, HandleWatermark, BeginEpoch, FinishEpoch, Handles
<1>4. /\ Script(log) /\ sent \in 0 .. Len(log) /\ Len(log) \in Nat
      /\ log' = log /\ sent' = sent
  BY LogFacts DEF ScriptInv
<1>5. PICK h \in 0 .. sent, r \in 0 .. Len(log) :
          Reached(log, queue[1], node[1], saving[1], sent, h, r)
  BY <1>3 DEF ScriptInv
<1>6. PICK g \in 0 .. sent : Reached(log, queue'[1], node'[1], saving'[1], sent, g, r)
  BY <1>1, <1>4, <1>5, ReachedStep
<1>7. queue'[1] \in Seq(Events) /\ (saving'[1] => queue'[1] # <<>>)
  BY <1>2, NodeFacts DEF ChainInv, Types, SavesItsEpoch
<1>8. \E n \in 0 .. Len(log) : node'[1].seen \in InOrderOf(InTimeUpTo(log, n))
  BY <1>4, <1>6, <1>7, ReachedSeen
<1>9. ASSUME NEW e \in DOMAIN dirs'[1], dirs'[1][e] # None
      PROVE  \E p \in 1 .. Len(log) : log[p].kind = "epoch" /\ After(log, p, dirs'[1][e])
  <2>1. CASE e \in DOMAIN dirs[1] /\ dirs'[1][e] = dirs[1][e]
    BY <1>9, <2>1 DEF ScriptInv
  <2>2. CASE FirstFinishes /\ dirs'[1][e] = node[1]
    BY <1>4, <1>5, <2>2, ReachedStep
  <2> QED
    BY <1>1, <1>9, <2>1, <2>2 DEF FirstDirs
<1> QED
  BY <1>4, <1>6, <1>8, <1>9 DEF ScriptInv

\* An event is sent: lg is the log after it.
LEMMA SendKeepsScript ==
    ASSUME ChainInv, ScriptInv, ~ failed, NEW lg, Script(lg), log' = lg,
           sent + 1 \in 0 .. Len(lg), \A k \in 1 .. Len(log) : lg[k] = log[k],
           Len(log) <= Len(lg), NEW event \in Events, event = lg[sent + 1],
           queue' = [queue EXCEPT ![1] = Append(@, event)], sent' = sent + 1,
           UNCHANGED <<node, saving, dirs, file, sink_buffer, failed>>
    PROVE  ChainInv' /\ ScriptInv' /\ (Written => Written')
<1>1. /\ Script(log) /\ sent \in 0 .. Len(log) /\ log \in Seq(Events) /\ lg \in Seq(Events)
      /\ Len(log) \in Nat /\ Len(lg) \in Nat
      /\ 1 \in Nodes /\ queue \in [Nodes -> Seq(Events)] /\ queue[1] \in Seq(Events)
      /\ saving[1] => queue[1] # <<>>
  BY LogFacts, NodeFacts DEF ScriptInv, ChainInv, Types, SavesItsEpoch
<1>2. ChainInv'
  <2>1. PICK events \in Seq(Events) : events = <<event>>
    <3>1. <<event>> \in Seq(Events)
      OBVIOUS
    <3> QED
      BY <3>1
  <2>2. Append(queue[1], event) = queue[1] \o events
    BY <1>1, <2>1, AppendIsConcat
  <2>3. queue' = [queue EXCEPT ![1] = @ \o events]
    BY <2>2
  <2> QED
    BY <2>3, SourceKeepsChain
<1>3. queue'[1] = Append(queue[1], event)
  BY <1>1
<1>4. PICK h \in 0 .. sent, r \in 0 .. Len(log) :
          Reached(log, queue[1], node[1], saving[1], sent, h, r)
  BY DEF ScriptInv
<1>5. Reached(lg, queue'[1], node[1], saving[1], sent + 1, h, r)
  BY <1>1, <1>3, <1>4, ReachedSend
<1>6. h \in 0 .. (sent + 1) /\ r \in 0 .. Len(lg)
  BY <1>1
<1>7. ASSUME NEW k \in 0 .. Len(log)
      PROVE  /\ InTimeUpTo(lg, k) = InTimeUpTo(log, k)
             /\ \A s : After(log, k, s) => After(lg, k, s)
  <2>1. k \in Nat /\ \A j \in 1 .. k : lg[j] = log[j]
    BY <1>1
  <2> QED
    BY <2>1, AfterExtend
<1>8. \E n \in 0 .. Len(lg) : node[1].seen \in InOrderOf(InTimeUpTo(lg, n))
  <2>1. PICK n \in 0 .. Len(log) : node[1].seen \in InOrderOf(InTimeUpTo(log, n))
    BY DEF ScriptInv
  <2>2. n \in 0 .. Len(lg)
    BY <1>1
  <2> QED
    BY <1>7, <2>1, <2>2
<1>9. ASSUME NEW e \in DOMAIN dirs[1], dirs[1][e] # None
      PROVE  \E p \in 1 .. Len(lg) : lg[p].kind = "epoch" /\ After(lg, p, dirs[1][e])
  <2>1. PICK p \in 1 .. Len(log) : log[p].kind = "epoch" /\ After(log, p, dirs[1][e])
    BY <1>9 DEF ScriptInv
  <2>2. p \in 0 .. Len(log) /\ p \in 1 .. Len(lg) /\ lg[p] = log[p]
    BY <1>1
  <2> QED
    BY <1>7, <2>1, <2>2
<1>10. ScriptInv'
  BY <1>5, <1>6, <1>8, <1>9 DEF ScriptInv
<1>11. Written => Written'
  BY WrittenUnchanged
<1> QED
  BY <1>2, <1>10, <1>11

\* A new event of the source keeps the invariant.
LEMMA SendNewKeepsScript ==
    ASSUME ChainInv, ScriptInv, SendNew
    PROVE  ChainInv' /\ ScriptInv' /\ (Written => Written')
<1>1. PICK event \in NewEvents : /\ log' = Append(log, event)
                                 /\ queue' = [queue EXCEPT ![1] = Append(@, event)]
  BY DEF SendNew
<1>2. /\ ~ failed /\ sent = Len(log) /\ sent' = sent + 1 /\ Script(log)
      /\ UNCHANGED <<node, saving, dirs, file, sink_buffer, failed>>
  BY DEF SendNew, ScriptInv
<1>3. PICK lg : lg = Append(log, event)
  OBVIOUS
<1>4. /\ event \in Events /\ Script(lg) /\ Len(lg) = Len(log) + 1
      /\ lg[Len(log) + 1] = event /\ \A k \in 1 .. Len(log) : lg[k] = log[k]
  BY <1>2, <1>3, ScriptAppend
<1>5. Len(log) \in Nat
  BY <1>2, LogFacts
<1>6. sent + 1 \in 0 .. Len(lg) /\ Len(log) <= Len(lg) /\ event = lg[sent + 1]
  BY <1>2, <1>4, <1>5
<1>7. log' = lg
  BY <1>1, <1>3
<1> QED
  BY <1>1, <1>2, <1>4, <1>6, <1>7, SendKeepsScript

\* An event that the source sends again after a restart keeps the invariant.
LEMMA SendAgainKeepsScript ==
    ASSUME ChainInv, ScriptInv, SendAgain
    PROVE  ChainInv' /\ ScriptInv' /\ (Written => Written')
<1>1. /\ ~ failed /\ sent < Len(log) /\ sent' = sent + 1 /\ log' = log
      /\ queue' = [queue EXCEPT ![1] = Append(@, log[sent + 1])]
      /\ UNCHANGED <<node, saving, dirs, file, sink_buffer, failed>>
  BY DEF SendAgain
<1>2. /\ Script(log) /\ Len(log) \in Nat /\ sent \in 0 .. Len(log) /\ DOMAIN log = 1 .. Len(log)
  BY LogFacts DEF ScriptInv
<1>3. PICK lg : lg = log
  OBVIOUS
<1>4. sent + 1 \in 0 .. Len(lg) /\ sent + 1 \in DOMAIN log /\ Len(log) <= Len(lg)
  BY <1>1, <1>2, <1>3
<1>5. PICK event \in Events : event = log[sent + 1]
  BY <1>2, <1>4, LogFacts
<1>6. queue' = [queue EXCEPT ![1] = Append(@, event)]
  BY <1>1, <1>5
<1> QED
  BY <1>1, <1>2, <1>3, <1>4, <1>5, <1>6, SendKeepsScript

\* A restart: the sender starts again from the first event.
LEMMA RestartKeepsScript ==
    ASSUME ChainInv, ScriptInv, Restart
    PROVE  ScriptInv'
<1>1. /\ RestartNodes /\ sent' = 0 /\ log' = log /\ dirs' = dirs
      /\ queue'[1] = <<>> /\ ~ saving'[1] /\ 1 \in Nodes
  BY NodeFacts DEF Restart, RestartNodes
<1>2. Script(log) /\ Len(log) \in Nat /\ 0 \in 0 .. Len(log) /\ Len(<<>>) = 0
  BY LogFacts DEF ScriptInv
<1>3. CASE \E i \in Nodes : Restored(i) = None
  <2>1. failed' /\ node' = node
    BY <1>1, <1>3 DEF RestartNodes
  <2> QED
    BY <1>1, <1>2, <2>1 DEF ScriptInv
<1>4. CASE \A i \in Nodes : Restored(i) # None
  <2>1. PICK s \in State : /\ \A i \in Nodes : Restored(i) = s
                           /\ \/ s = NewNode
                              \/ \E e \in DOMAIN dirs[Sink] : dirs[Sink][e] # None
                                   /\ \A i \in Nodes : e \in DOMAIN dirs[i] /\ dirs[i][e] = s
    BY <1>4, RestoredFacts
  <2>2. node'[1] = s
    BY <1>1, <1>4, <2>1 DEF RestartNodes
  <2>3. PICK p \in 0 .. Len(log) : After(log, p, s) /\ (p = 0 \/ log[p].kind = "epoch")
    <3>1. CASE s = NewNode
      BY <1>2, <3>1, AfterNothing
    <3>2. CASE s # NewNode
      <4>1. PICK e \in DOMAIN dirs[Sink] : /\ dirs[Sink][e] # None
              /\ \A i \in Nodes : e \in DOMAIN dirs[i] /\ dirs[i][e] = s
        BY <2>1, <3>2
      <4>2. e \in DOMAIN dirs[1] /\ dirs[1][e] = s /\ s # None
        BY <1>1, <4>1, NodeFacts
      <4>3. PICK p \in 1 .. Len(log) : log[p].kind = "epoch" /\ After(log, p, s)
        BY <4>2 DEF ScriptInv
      <4> QED
        BY <1>2, <4>3
    <3> QED
      BY <3>1, <3>2
  <2>4. Reached(log, <<>>, s, FALSE, 0, 0, p)
    <3>1. CASE p = 0
      BY <1>2, <2>3, <3>1 DEF Reached
    <3>2. CASE p # 0
      <4>1. 0 < p
        BY <1>2, <3>2
      <4> QED
        BY <1>2, <2>3, <4>1 DEF Reached
    <3> QED
      BY <3>1, <3>2
  <2>5. Reached(log, queue'[1], node'[1], saving'[1], 0, 0, p)
    BY <1>1, <2>2, <2>4 DEF Reached
  <2>6. s.seen \in InOrderOf(InTimeUpTo(log, p))
    BY <2>3 DEF After
  <2>7. 0 \in 0 .. 0
    OBVIOUS
  <2> QED
    BY <1>1, <1>2, <2>2, <2>5, <2>6, <2>7 DEF ScriptInv
<1> QED
  BY <1>3, <1>4

-----------------------------------------------------------------------------
(* A beginning of the elements in order is the elements in order of a        *)
(* beginning of the log.                                                     *)
LEMMA InOrderBegins ==
    ASSUME NEW lg, NEW n \in Nat, NEW all \in InOrderOf(InTimeUpTo(lg, n)),
           NEW s \in Seq(Nat), Begins(s, all)
    PROVE  \E m \in 0 .. n : s \in InOrderOf(InTimeUpTo(lg, m))
<1>1. CASE s = <<>>
  <2>1. NewNode.seen = <<>> /\ After(lg, 0, NewNode) /\ 0 \in 0 .. n
    BY AfterNothing DEF NewNode
  <2> QED
    BY <1>1, <2>1 DEF After
<1>2. CASE s # <<>>
  <2>1. PICK S \in SUBSET Nat : S = InTimeUpTo(lg, n) /\ IsFiniteSet(S)
    BY UpToFacts
  <2>2. PICK c \in Nat : c = Cardinality(S)
    BY <2>1, FS_CardinalityType
  <2>3. /\ all \in [1 .. c -> S]
        /\ \A j, k \in 1 .. c : j < k => all[j] < all[k]
    BY <2>1, <2>2 DEF InOrderOf
  <2>4. \A j \in 1 .. c : all[j] \in Nat
    BY <2>1, <2>3
  <2>5. all \in Injection(1 .. c, S)
    <3>1. ASSUME NEW j \in 1 .. c, NEW k \in 1 .. c, all[j] = all[k] PROVE j = k
      <4>1. ~ (j < k) /\ ~ (k < j)
        BY <2>3, <2>4, <3>1
      <4> QED
        BY <4>1
    <3> QED
      BY <2>3, <3>1 DEF Injection, IsInjective
  <2>6. \A x \in S : \E j \in 1 .. c : all[j] = x
    <3>1. Cardinality(1 .. c) = c
      BY FS_Interval
    <3>2. all \in Surjection(1 .. c, S)
      BY <2>1, <2>2, <2>5, <3>1, FS_Injection
    <3> QED
      BY <3>2 DEF Surjection
  <2>7. PICK l \in Nat : l = Len(s)
    OBVIOUS
  <2>8. /\ l > 0 /\ l <= c /\ \A k \in 1 .. l : s[k] = all[k]
        /\ s \in [1 .. l -> Nat]
    <3>1. Len(all) = c
      <4>1. all \in Seq(S)
        BY <2>3, SeqDef
      <4> QED
        BY <2>3, <4>1, LenProperties
    <3>2. l # 0
      BY <1>2, <2>7
    <3> QED
      BY <2>7, <3>1, <3>2, LenProperties DEF Begins
  <2>9. PICK m \in Nat : m = s[l]
    BY <2>8
  <2>10. \A k \in 1 .. l : k \in 1 .. c
    BY <2>8
  <2>11. m \in S /\ m \in 1 .. n
    BY <2>1, <2>3, <2>8, <2>9, <2>10 DEF InTimeUpTo
  <2>12. InTimeUpTo(lg, m) = {x \in S : x <= m}
    BY <2>1, <2>11 DEF InTimeUpTo
  <2>13. \A k \in 1 .. l : s[k] \in InTimeUpTo(lg, m)
    <3> SUFFICES ASSUME NEW k \in 1 .. l PROVE s[k] \in S /\ s[k] <= m
      BY <2>12
    <3>1. s[k] \in S /\ s[k] = all[k] /\ k \in 1 .. c /\ l \in 1 .. c /\ all[l] = m
      BY <2>3, <2>8, <2>9, <2>10
    <3>2. CASE k = l
      BY <2>9, <3>1, <3>2
    <3>3. CASE k < l
      BY <2>3, <2>4, <2>9, <3>1, <3>3
    <3> QED
      BY <3>1, <3>2, <3>3
  <2>14. \A x \in InTimeUpTo(lg, m) : \E k \in 1 .. l : s[k] = x
    <3> SUFFICES ASSUME NEW x \in S, x <= m PROVE \E k \in 1 .. l : s[k] = x
      BY <2>12
    <3>1. PICK j \in 1 .. c : all[j] = x
      BY <2>6
    <3>2. l \in 1 .. c /\ all[l] = m
      BY <2>8, <2>9
    <3>3. ~ (l < j)
      <4> SUFFICES ASSUME l < j PROVE FALSE
        OBVIOUS
      <4>1. all[l] < all[j] /\ all[l] \in Nat /\ all[j] \in Nat
        BY <2>3, <2>4, <3>1, <3>2
      <4>2. m < x /\ x \in Nat
        BY <3>1, <3>2, <4>1
      <4> QED
        BY <2>9, <4>2
    <3>4. j \in 1 .. l
      BY <3>3
    <3> QED
      BY <2>8, <3>1, <3>4
  <2>15. \A j, k \in 1 .. l : j < k => s[j] < s[k]
    BY <2>3, <2>8, <2>10
  <2>16. s \in [1 .. l -> InTimeUpTo(lg, m)]
    BY <2>8, <2>13
  <2>17. Cardinality(InTimeUpTo(lg, m)) = l
    <3>1. s \in Surjection(1 .. l, InTimeUpTo(lg, m))
      BY <2>14, <2>16 DEF Surjection
    <3>2. s \in Injection(1 .. l, InTimeUpTo(lg, m))
      <4>1. ASSUME NEW j \in 1 .. l, NEW k \in 1 .. l, s[j] = s[k] PROVE j = k
        <5>1. s[j] \in Nat /\ s[k] \in Nat
          BY <2>8
        <5>2. ~ (j < k) /\ ~ (k < j)
          BY <2>15, <4>1, <5>1
        <5> QED
          BY <5>2
      <4> QED
        BY <2>16, <4>1 DEF Injection, IsInjective
    <3>3. IsFiniteSet(1 .. l) /\ Cardinality(1 .. l) = l
      BY FS_Interval
    <3> QED
      BY <3>1, <3>2, <3>3, FS_Surjection
  <2>18. DOMAIN s = 1 .. l
    BY <2>8
  <2>19. s \in InOrderOf(InTimeUpTo(lg, m))
    BY <2>15, <2>16, <2>17, <2>18 DEF InOrderOf
  <2> QED
    BY <2>11, <2>19
<1> QED
  BY <1>1, <1>2

-----------------------------------------------------------------------------
\* The inductive invariant: the links between the nodes, what the sink has
\* written, and how far the first node is in the log.
THEOREM ScriptInvariant == Spec => [](ChainInv /\ Written /\ ScriptInv)
<1>1. Init => ChainInv /\ Written /\ ScriptInv
  BY InitChain, InitWritten, InitScript DEF Init
<1>2. ASSUME ChainInv, Written, ScriptInv, [Next]_vars PROVE (ChainInv /\ Written /\ ScriptInv)'
  <2>1. CASE SendNew
    BY <1>2, <2>1, SendNewKeepsScript
  <2>2. CASE SendAgain
    BY <1>2, <2>2, SendAgainKeepsScript
  <2>3. CASE \E i \in Nodes : NodeStep(i) /\ UNCHANGED <<log, sent>>
    BY <1>2, <2>3, NodeStepKeepsChain, NodeStepKeepsWritten, NodeStepKeepsScript
  <2>4. CASE Restart
    <3>1. RestartNodes
      BY <2>4 DEF Restart
    <3> QED
      BY <1>2, <2>4, <3>1, RestartKeepsChain, RestartKeepsWritten, RestartKeepsScript
  <2>5. CASE UNCHANGED vars
    <3>1. UNCHANGED <<queue, node, saving, dirs, file, sink_buffer, failed, log, sent>>
      BY <2>5 DEF vars, nodeVars
    <3>2. ChainInv'
      BY <1>2, <3>1, ChainUnchanged
    <3>3. Written'
      BY <1>2, <3>1, WrittenUnchanged
    <3>4. ScriptInv'
      BY <1>2, <3>1 DEF ScriptInv
    <3> QED
      BY <3>2, <3>3, <3>4
  <2> QED
    BY <1>2, <2>1, <2>2, <2>3, <2>4, <2>5 DEF Next
<1> QED
  BY <1>1, <1>2, PTL DEF Spec

\* Each node has processed every element that was on time once and in order,
\* for every number of nodes, crashes and events, every kind of sink and backend,
\* and wherever a crash falls.
THEOREM ScriptExactlyOnce == Spec => []StateIsExactlyOnce
<1>1. ChainInv /\ ScriptInv => StateIsExactlyOnce
  <2> SUFFICES ASSUME ChainInv, ScriptInv, NEW i \in Nodes
               PROVE  \E n \in 0 .. Len(log) :
                          node[i].seen \in InOrderOf({k \in 1 .. n : IsOnTime(k)})
    BY DEF StateIsExactlyOnce
  <2>1. Script(log) /\ Len(log) \in Nat /\ DOMAIN log = 1 .. Len(log) /\ 1 \in Nodes
    BY LogFacts, NodeFacts DEF ScriptInv
  <2>2. PICK all : all = node[1].seen
    OBVIOUS
  <2>3. PICK n \in 0 .. Len(log) : all \in InOrderOf(InTimeUpTo(log, n))
    BY <2>2 DEF ScriptInv
  <2>4. PICK s \in Seq(Nat) : s = node[i].seen
    BY DEF ChainInv, Types, State
  <2>5. Before(node[i], node[1])
    <3>1. CASE i = 1
      BY <3>1, BeforeReflexive DEF ChainInv, Types
    <3>2. CASE i # 1
      BY <2>1, <3>2, NodeFacts DEF ChainInv, InOrder
    <3> QED
      BY <3>1, <3>2
  <2>6. Begins(s, all)
    BY <2>2, <2>4, <2>5 DEF Before
  <2>7. PICK m \in 0 .. n : s \in InOrderOf(InTimeUpTo(log, m))
    BY <2>3, <2>6, InOrderBegins
  <2>8. m \in 0 .. Len(log) /\ \A k \in 1 .. m : k \in DOMAIN log
    BY <2>1
  <2>9. InTimeUpTo(log, m) = {k \in 1 .. m : IsOnTime(k)}
    BY <2>1, <2>8, OnTimeIsInTime DEF InTimeUpTo
  <2> QED
    BY <2>4, <2>7, <2>8, <2>9
<1> QED
  BY <1>1, ScriptInvariant, PTL

\* What is in a checkpoint, the sink has written.
THEOREM ScriptSavedIsWritten == Spec => []SavedEpochsAreWritten
  BY ScriptInvariant, WrittenIsSaved, PTL

\* All nodes have seen the same in the checkpoints of an epoch.
THEOREM ScriptCheckpointsFit == Spec => []CheckpointsFitTogether
  BY ScriptInvariant, ChainFitsTogether, PTL
=============================================================================
