------------------------ MODULE KafkaRecovery_proofs ------------------------
(* Proofs about the pipeline behind a KafkaSource. Where the consumer goes on *)
(* after a restart has nothing to do with the checkpoint the nodes are        *)
(* restored from, and epochs are numbered from zero again. What keeps a       *)
(* message from being processed twice: an epoch comes right after a watermark *)
(* of its batch, so every message in a checkpoint is covered by the watermark *)
(* in it, and is dropped when it comes again.                                 *)
EXTENDS KafkaRecovery, Recovery_proofs

KafkaTypes ==
    /\ partition \in Seq([ts : 1 .. MaxTs, parses : BOOLEAN])
    /\ position \in 0 .. Len(partition)
    /\ committed = None \/ committed \in 0 .. Len(partition)
    /\ source \in [epoch : Nat, offset : 0 .. Len(partition), max_timestamp : Nat]

\* The messages of seen are messages of the partition, each there once.
Once(part, seen) ==
    /\ \A k \in DOMAIN seen : seen[k] \in DOMAIN part
    /\ IsInjective(seen)

\* Their timestamps are covered by the watermark w, or by the limit.
Covered(part, seen, w, limit) ==
    \A k \in DOMAIN seen : part[seen[k]].ts <= w \/ part[seen[k]].ts <= limit

\* Each message in the queue comes after those before it in the queue, ...
ElementsAscend(part, q, pos, max) ==
    /\ \A k \in DOMAIN q : q[k].kind = "element" =>
         /\ q[k].id \in DOMAIN part /\ q[k].id <= pos
         /\ q[k].ts = part[q[k].id].ts /\ q[k].ts <= max
    /\ \A k, l \in DOMAIN q :
         (k < l /\ q[k].kind = "element" /\ q[l].kind = "element") => q[k].id < q[l].id
\* ... and after those in seen, but for the ones that the watermark covers.
SeenIsOlder(part, q, seen, w, pos) ==
    \A n \in DOMAIN seen :
        \/ part[seen[n]].ts <= w
        \/ /\ seen[n] <= pos
           /\ \A k \in DOMAIN q : q[k].kind = "element" => seen[n] < q[k].id
\* An epoch in the queue comes right after a watermark that covers everything
\* before it.
EpochIsCovered(part, q, seen, w, k) ==
    IF k = 1 THEN Covered(part, seen, w, w)
    ELSE /\ q[k - 1].kind = "watermark"
         /\ \A l \in 1 .. (k - 1) : q[l].kind = "element" => q[l].ts <= q[k - 1].ts
         /\ Covered(part, seen, w, q[k - 1].ts)

Stream(part, q, seen, w, pos, max) ==
    /\ ElementsAscend(part, q, pos, max)
    /\ SeenIsOlder(part, q, seen, w, pos)
    /\ Covered(part, seen, w, max)
    /\ \A k \in DOMAIN q : q[k].kind = "epoch" => EpochIsCovered(part, q, seen, w, k)

KafkaInv ==
    /\ KafkaTypes
    /\ Once(partition, node[1].seen)
    /\ ~ failed =>
         Stream(partition, queue[1], node[1].seen, node[1].watermark, position, source.max_timestamp)
    /\ \A e \in DOMAIN dirs[1] : dirs[1][e] # None =>
         /\ Once(partition, dirs[1][e].seen)
         /\ Covered(partition, dirs[1][e].seen, dirs[1][e].watermark, dirs[1][e].watermark)

-----------------------------------------------------------------------------
(* What the first node does with the first event of its queue.               *)

\* A queue without its first event.
LEMMA TailFacts ==
    ASSUME NEW q \in Seq(Events), q # <<>>
    PROVE  /\ Tail(q) \in Seq(Events) /\ Head(q) = q[1] /\ Head(q) \in Events
           /\ DOMAIN Tail(q) = 1 .. Len(Tail(q)) /\ DOMAIN q = 1 .. Len(q)
           /\ Len(q) \in Nat /\ Len(q) > 0 /\ Len(Tail(q)) = Len(q) - 1
           /\ \A k \in DOMAIN Tail(q) :
                /\ k \in Nat /\ k > 0 /\ k + 1 \in DOMAIN q /\ k + 1 # 1
                /\ Tail(q)[k] = q[k + 1]
                /\ Tail(q)[k] \in Events
  OBVIOUS

\* Without the first event.
LEMMA AscendTail ==
    ASSUME NEW part, NEW q \in Seq(Events), q # <<>>, NEW pos, NEW max,
           ElementsAscend(part, q, pos, max)
    PROVE  ElementsAscend(part, Tail(q), pos, max)
  BY TailFacts DEF ElementsAscend

\* What is older than a queue is older than its rest.
LEMMA OlderTail ==
    ASSUME NEW part, NEW q \in Seq(Events), q # <<>>, NEW seen, NEW w, NEW pos,
           SeenIsOlder(part, q, seen, w, pos)
    PROVE  SeenIsOlder(part, Tail(q), seen, w, pos)
  BY TailFacts DEF SeenIsOlder

\* The first event of the queue goes, and the node has now seen2 and w2, which
\* the watermarks to come cover as before.
LEMMA EpochsAfterTail ==
    ASSUME NEW part, NEW q \in Seq(Events), q # <<>>, NEW seen, NEW w, NEW seen2, NEW w2,
           \A k \in DOMAIN q : q[k].kind = "epoch" => EpochIsCovered(part, q, seen, w, k),
           2 \in DOMAIN q /\ q[2].kind = "epoch" => Covered(part, seen2, w2, w2),
           \A k \in DOMAIN q : k > 2 /\ q[k].kind = "epoch" => Covered(part, seen2, w2, q[k - 1].ts)
    PROVE  \A k \in DOMAIN Tail(q) : Tail(q)[k].kind = "epoch" =>
               EpochIsCovered(part, Tail(q), seen2, w2, k)
<1> SUFFICES ASSUME NEW k \in DOMAIN Tail(q), Tail(q)[k].kind = "epoch"
             PROVE  EpochIsCovered(part, Tail(q), seen2, w2, k)
  OBVIOUS
<1>1. /\ k \in Nat /\ k > 0 /\ k + 1 \in DOMAIN q /\ k + 1 # 1 /\ (k + 1) - 1 = k
      /\ q[k + 1].kind = "epoch" /\ DOMAIN Tail(q) = 1 .. Len(Tail(q)) /\ Len(Tail(q)) \in Nat
  BY TailFacts
<1>2. /\ q[k].kind = "watermark"
      /\ \A l \in 1 .. k : q[l].kind = "element" => q[l].ts <= q[k].ts
  BY <1>1 DEF EpochIsCovered
<1>3. CASE k = 1
  BY <1>2, <1>3 DEF EpochIsCovered
<1>4. CASE k # 1
  <2>1. /\ k - 1 \in DOMAIN Tail(q) /\ Tail(q)[k - 1] = q[k] /\ k + 1 > 2
        /\ \A l \in 1 .. (k - 1) : l \in DOMAIN Tail(q) /\ l + 1 \in 1 .. k
    <3>1. k - 1 \in DOMAIN Tail(q) /\ (k - 1) + 1 = k /\ k + 1 > 2
      BY <1>1, <1>4
    <3>2. \A l \in 1 .. (k - 1) : l \in DOMAIN Tail(q) /\ l + 1 \in 1 .. k
      BY <1>1, <1>4
    <3> QED
      BY <3>1, <3>2, TailFacts
  <2>2. \A l \in 1 .. (k - 1) : Tail(q)[l] = q[l + 1]
    BY <2>1, TailFacts
  <2>3. Covered(part, seen2, w2, q[k].ts)
    BY <1>1, <2>1
  <2> QED
    BY <1>2, <1>4, <2>1, <2>2, <2>3 DEF EpochIsCovered
<1> QED
  BY <1>3, <1>4

\* An event that is dropped, and an epoch that is done.
LEMMA StreamDrop ==
    ASSUME NEW part, NEW q \in Seq(Events), q # <<>>, NEW seen, NEW w \in Nat, NEW pos, NEW max,
           \A k \in DOMAIN seen : part[seen[k]].ts \in Nat,
           Stream(part, q, seen, w, pos, max),
           q[1].kind # "epoch" => q[1].ts <= w
    PROVE  Stream(part, Tail(q), seen, w, pos, max)
<1>1. /\ \A k \in DOMAIN q : q[k].kind = "epoch" => EpochIsCovered(part, q, seen, w, k)
      /\ 1 \in DOMAIN q /\ q[1] \in Events
  BY TailFacts DEF Stream
<1>2. ASSUME 2 \in DOMAIN q, q[2].kind = "epoch" PROVE Covered(part, seen, w, w)
  <2>1. q[2 - 1].kind = "watermark" /\ Covered(part, seen, w, q[2 - 1].ts)
    BY <1>1, <1>2 DEF EpochIsCovered
  <2>2. q[1].ts <= w /\ q[1].ts \in Nat /\ Covered(part, seen, w, q[1].ts)
    BY <1>1, <2>1, EventFacts
  <2> QED
    BY <2>2 DEF Covered
<1>3. \A k \in DOMAIN q : k > 2 /\ q[k].kind = "epoch" => Covered(part, seen, w, q[k - 1].ts)
  BY <1>1 DEF EpochIsCovered
<1>4. \A k \in DOMAIN Tail(q) : Tail(q)[k].kind = "epoch" =>
          EpochIsCovered(part, Tail(q), seen, w, k)
  BY <1>1, <1>2, <1>3, EpochsAfterTail
<1> QED
  BY <1>4, AscendTail, OlderTail DEF Stream

\* A watermark that is not dropped.
LEMMA StreamWatermark ==
    ASSUME NEW part, NEW q \in Seq(Events), q # <<>>, NEW seen, NEW w \in Nat, NEW pos, NEW max,
           \A k \in DOMAIN seen : part[seen[k]].ts \in Nat,
           Stream(part, q, seen, w, pos, max),
           q[1].kind = "watermark", q[1].ts > w
    PROVE  Stream(part, Tail(q), seen, q[1].ts, pos, max)
<1>1. /\ \A k \in DOMAIN q : q[k].kind = "epoch" => EpochIsCovered(part, q, seen, w, k)
      /\ 1 \in DOMAIN q /\ q[1].ts \in Nat
  BY TailFacts, EventFacts DEF Stream
<1>2. ASSUME 2 \in DOMAIN q, q[2].kind = "epoch" PROVE Covered(part, seen, q[1].ts, q[1].ts)
  <2>1. Covered(part, seen, w, q[2 - 1].ts)
    BY <1>1, <1>2 DEF EpochIsCovered
  <2>2. Covered(part, seen, w, q[1].ts)
    BY <2>1
  <2> QED
    BY <1>1, <2>2 DEF Covered
<1>3. ASSUME NEW limit, Covered(part, seen, w, limit) PROVE Covered(part, seen, q[1].ts, limit)
  BY <1>1, <1>3 DEF Covered
<1>4. \A k \in DOMAIN q : k > 2 /\ q[k].kind = "epoch" => Covered(part, seen, w, q[k - 1].ts)
  BY <1>1 DEF EpochIsCovered
<1>5. \A k \in DOMAIN q : k > 2 /\ q[k].kind = "epoch" => Covered(part, seen, q[1].ts, q[k - 1].ts)
  BY <1>3, <1>4
<1>6. \A k \in DOMAIN Tail(q) : Tail(q)[k].kind = "epoch" =>
          EpochIsCovered(part, Tail(q), seen, q[1].ts, k)
  BY <1>1, <1>2, <1>5, EpochsAfterTail
<1>7. SeenIsOlder(part, q, seen, q[1].ts, pos)
  BY <1>1 DEF Stream, SeenIsOlder
<1> QED
  BY <1>3, <1>6, <1>7, AscendTail, OlderTail DEF Stream

\* An element that is not dropped is new.
LEMMA StreamElement ==
    ASSUME NEW part, NEW q \in Seq(Events), q # <<>>, NEW seen \in Seq(Nat), NEW w \in Nat,
           NEW pos \in Nat, NEW max, DOMAIN part \subseteq Nat,
           \A k \in DOMAIN part : part[k].ts \in Nat,
           Once(part, seen), Stream(part, q, seen, w, pos, max),
           q[1].kind = "element", q[1].ts > w
    PROVE  /\ Once(part, Append(seen, q[1].id))
           /\ Stream(part, Tail(q), Append(seen, q[1].id), w, pos, max)
<1>1. PICK id : id = q[1].id
  OBVIOUS
<1>2. /\ \A k \in DOMAIN q : q[k].kind = "epoch" => EpochIsCovered(part, q, seen, w, k)
      /\ 1 \in DOMAIN q /\ DOMAIN q = 1 .. Len(q) /\ Len(q) \in Nat
      /\ id \in Nat /\ q[1].ts \in Nat
  BY <1>1, TailFacts, EventFacts DEF Stream
<1>3. id \in DOMAIN part /\ id <= pos /\ q[1].ts = part[id].ts /\ q[1].ts <= max
  BY <1>1, <1>2 DEF Stream, ElementsAscend
<1>4. PICK new \in Seq(Nat) : new = Append(seen, id)
  <2>1. Append(seen, id) \in Seq(Nat)
    BY <1>2
  <2> QED
    BY <2>1
<1>5. /\ DOMAIN new = 1 .. (Len(seen) + 1) /\ DOMAIN seen = 1 .. Len(seen) /\ Len(seen) \in Nat
      /\ new[Len(seen) + 1] = id /\ \A k \in DOMAIN seen : new[k] = seen[k]
      /\ \A k \in DOMAIN new : k \in DOMAIN seen \/ k = Len(seen) + 1
  <2>1. Len(seen) \in Nat /\ DOMAIN seen = 1 .. Len(seen)
    OBVIOUS
  <2>2. Len(new) = Len(seen) + 1 /\ DOMAIN new = 1 .. Len(new)
    BY <1>2, <1>4, AppendProperties
  <2>3. new[Len(seen) + 1] = id /\ \A k \in 1 .. Len(seen) : new[k] = seen[k]
    BY <1>2, <1>4, AppendProperties
  <2>4. \A k \in 1 .. (Len(seen) + 1) : k \in 1 .. Len(seen) \/ k = Len(seen) + 1
    BY <2>1
  <2> QED
    BY <2>1, <2>2, <2>3, <2>4
<1>6. \A k \in DOMAIN seen : seen[k] # id
  <2>1. ~ (id < id) /\ ~ (part[id].ts <= w)
    BY <1>2, <1>3
  <2>2. \A k \in DOMAIN seen : part[seen[k]].ts <= w \/ seen[k] < id
    BY <1>1, <1>2 DEF Stream, SeenIsOlder
  <2> QED
    BY <2>1, <2>2, Zenon
<1>7. Once(part, new)
  <2>1. \A k \in DOMAIN new : new[k] \in DOMAIN part
    BY <1>3, <1>5 DEF Once
  <2>2. ASSUME NEW k \in DOMAIN new, NEW l \in DOMAIN new, new[k] = new[l] PROVE k = l
    <3>1. CASE k \in DOMAIN seen /\ l \in DOMAIN seen
      BY <1>5, <2>2, <3>1 DEF Once, IsInjective
    <3> QED
      BY <1>5, <1>6, <2>2, <3>1
  <2> QED
    BY <2>1, <2>2 DEF Once, IsInjective
<1>8. ASSUME NEW limit, Covered(part, seen, w, limit), q[1].ts <= limit
      PROVE  Covered(part, new, w, limit)
  <2>1. part[id].ts <= limit
    BY <1>3, <1>8
  <2> QED
    BY <1>5, <1>8, <2>1 DEF Covered
<1>9. ASSUME NEW k \in DOMAIN q, q[k].kind = "epoch"
      PROVE  /\ k # 2
             /\ k > 2 => Covered(part, new, w, q[k - 1].ts)
  <2>1. /\ k # 1 /\ q[k - 1].kind = "watermark" /\ k \in Nat /\ k > 0
        /\ Covered(part, seen, w, q[k - 1].ts)
        /\ \A l \in 1 .. (k - 1) : q[l].kind = "element" => q[l].ts <= q[k - 1].ts
    <3>1. k # 1 /\ k \in Nat /\ k > 0
      BY <1>2, <1>9
    <3>2. EpochIsCovered(part, q, seen, w, k)
      BY <1>2, <1>9
    <3> QED
      BY <3>1, <3>2 DEF EpochIsCovered
  <2>2. k # 2 /\ 1 \in 1 .. (k - 1)
    <3>1. CASE k = 2
      <4>1. q[k - 1] = q[1]
        BY <3>1
      <4> QED
        BY <2>1, <4>1
    <3> QED
      BY <2>1, <3>1
  <2> QED
    BY <1>8, <2>1, <2>2
<1>10. \A k \in DOMAIN Tail(q) : Tail(q)[k].kind = "epoch" =>
          EpochIsCovered(part, Tail(q), new, w, k)
  BY <1>2, <1>9, EpochsAfterTail
<1>11. SeenIsOlder(part, Tail(q), new, w, pos)
  <2>1. SeenIsOlder(part, Tail(q), seen, w, pos)
    BY OlderTail DEF Stream
  <2>2. ASSUME NEW k \in DOMAIN Tail(q), Tail(q)[k].kind = "element" PROVE id < Tail(q)[k].id
    <3>1. k + 1 \in DOMAIN q /\ 1 < k + 1 /\ q[k + 1].kind = "element" /\ Tail(q)[k] = q[k + 1]
      BY <2>2, TailFacts
    <3>2. q[1].id < q[k + 1].id
      BY <1>2, <3>1 DEF Stream, ElementsAscend
    <3> QED
      BY <1>1, <3>1, <3>2
  <2> QED
    BY <1>3, <1>5, <2>1, <2>2 DEF SeenIsOlder
<1>12. Covered(part, new, w, max)
  BY <1>3, <1>8 DEF Stream
<1>13. Stream(part, Tail(q), new, w, pos, max)
  BY <1>10, <1>11, <1>12, AscendTail DEF Stream
<1> QED
  BY <1>1, <1>4, <1>7, <1>13

-----------------------------------------------------------------------------
(* What the source appends to the queue.                                     *)

\* A queue with a batch behind it.
LEMMA ConcatFacts ==
    ASSUME NEW q \in Seq(Events), NEW new \in Seq(Events)
    PROVE  /\ q \o new \in Seq(Events)
           /\ Len(q) \in Nat /\ Len(new) \in Nat
           /\ DOMAIN q = 1 .. Len(q) /\ DOMAIN new = 1 .. Len(new)
           /\ DOMAIN (q \o new) = 1 .. (Len(q) + Len(new))
           /\ \A k \in DOMAIN q : k \in DOMAIN (q \o new) /\ (q \o new)[k] = q[k]
           /\ \A k \in DOMAIN (q \o new) \ DOMAIN q :
                /\ k \in Nat /\ k > Len(q) /\ k - Len(q) \in DOMAIN new
                /\ (q \o new)[k] = new[k - Len(q)]
  OBVIOUS

\* What comes later does not matter to the epochs that are in the queue.
LEMMA EpochsBefore ==
    ASSUME NEW part, NEW q \in Seq(Events), NEW new \in Seq(Events), NEW seen, NEW w,
           NEW k \in DOMAIN q, EpochIsCovered(part, q, seen, w, k)
    PROVE  EpochIsCovered(part, q \o new, seen, w, k)
<1>1. CASE k = 1
  BY <1>1 DEF EpochIsCovered
<1>2. CASE k # 1
  <2>1. k - 1 \in DOMAIN q /\ \A l \in 1 .. (k - 1) : l \in DOMAIN q
    BY <1>2, ConcatFacts
  <2>2. (q \o new)[k - 1] = q[k - 1] /\ \A l \in 1 .. (k - 1) : (q \o new)[l] = q[l]
    BY <2>1, ConcatFacts
  <2> QED
    BY <1>2, <2>2 DEF EpochIsCovered
<1> QED
  BY <1>1, <1>2

\* A batch: messages after the position, in their order.
LEMMA StreamBatch ==
    ASSUME NEW part, NEW q \in Seq(Events), NEW new \in Seq(Events), NEW seen, NEW w,
           NEW pos \in Nat, NEW max \in Nat, NEW pos2 \in Nat, NEW max2 \in Nat,
           pos <= pos2, max <= max2,
           \A k \in DOMAIN seen : seen[k] \in Nat /\ part[seen[k]].ts \in Nat,
           Stream(part, q, seen, w, pos, max),
           \A k \in DOMAIN new :
               /\ new[k].kind = "element" /\ new[k].id \in DOMAIN part
               /\ pos < new[k].id /\ new[k].id <= pos2
               /\ new[k].ts = part[new[k].id].ts /\ new[k].ts <= max2,
           \A k, l \in DOMAIN new : k < l => new[k].id < new[l].id
    PROVE  Stream(part, q \o new, seen, w, pos2, max2)
<1> DEFINE all == q \o new
<1>1. /\ all \in Seq(Events)
      /\ \A k \in DOMAIN q : all[k] = q[k]
      /\ \A k \in DOMAIN all \ DOMAIN q : k - Len(q) \in DOMAIN new /\ all[k] = new[k - Len(q)]
      /\ \A k \in DOMAIN all : all[k] \in Events
      /\ \A k \in DOMAIN all : k \in Nat
      /\ Len(q) \in Nat /\ DOMAIN q = 1 .. Len(q) /\ \A k \in DOMAIN all : k > 0
  BY ConcatFacts
<1> HIDE DEF all
<1>2. ASSUME NEW k \in DOMAIN all, all[k].kind = "element"
      PROVE  /\ all[k].id \in DOMAIN part /\ all[k].id <= pos2
             /\ all[k].ts = part[all[k].id].ts /\ all[k].ts <= max2
             /\ all[k].id \in Nat
             /\ IF k \in DOMAIN q THEN all[k].id <= pos ELSE pos < all[k].id
  <2>1. all[k].id \in Nat /\ all[k].ts \in Nat
    BY <1>1, <1>2, EventFacts
  <2>2. CASE k \in DOMAIN q
    <3>1. /\ all[k].id \in DOMAIN part /\ all[k].id <= pos
          /\ all[k].ts = part[all[k].id].ts /\ all[k].ts <= max
      BY <1>1, <1>2, <2>2 DEF Stream, ElementsAscend
    <3> QED
      BY <2>1, <2>2, <3>1
  <2>3. CASE k \notin DOMAIN q
    BY <1>1, <2>1, <2>3
  <2> QED
    BY <2>2, <2>3
<1>3. ASSUME NEW k \in DOMAIN all, NEW l \in DOMAIN all, k < l,
             all[k].kind = "element", all[l].kind = "element"
      PROVE  all[k].id < all[l].id
  <2>1. CASE l \in DOMAIN q
    <3>1. k \in DOMAIN q
      BY <1>1, <1>3, <2>1
    <3> QED
      BY <1>1, <1>3, <2>1, <3>1 DEF Stream, ElementsAscend
  <2>2. CASE l \notin DOMAIN q /\ k \in DOMAIN q
    BY <1>2, <1>3, <2>2
  <2>3. CASE l \notin DOMAIN q /\ k \notin DOMAIN q
    <3>1. k - Len(q) < l - Len(q)
      BY <1>1, <1>3
    <3> QED
      BY <1>1, <2>3, <3>1
  <2> QED
    BY <2>1, <2>2, <2>3
<1>4. ElementsAscend(part, all, pos2, max2)
  BY <1>2, <1>3 DEF ElementsAscend
<1>5. SeenIsOlder(part, all, seen, w, pos2)
  <2> SUFFICES ASSUME NEW n \in DOMAIN seen, ~ (part[seen[n]].ts <= w)
               PROVE  /\ seen[n] <= pos2
                      /\ \A k \in DOMAIN all : all[k].kind = "element" => seen[n] < all[k].id
    BY DEF SeenIsOlder
  <2>1. /\ seen[n] \in Nat /\ seen[n] <= pos
        /\ \A k \in DOMAIN q : q[k].kind = "element" => seen[n] < q[k].id
    BY DEF Stream, SeenIsOlder
  <2>2. ASSUME NEW k \in DOMAIN all, all[k].kind = "element" PROVE seen[n] < all[k].id
    <3>1. CASE k \in DOMAIN q
      BY <1>1, <2>1, <2>2, <3>1
    <3>2. CASE k \notin DOMAIN q
      BY <1>2, <2>1, <2>2, <3>2
    <3> QED
      BY <3>1, <3>2
  <2> QED
    BY <2>1, <2>2
<1>6. Covered(part, seen, w, max2)
  BY DEF Stream, Covered
<1>7. ASSUME NEW k \in DOMAIN all, all[k].kind = "epoch" PROVE EpochIsCovered(part, all, seen, w, k)
  <2>1. k \in DOMAIN q
    BY <1>1, <1>7
  <2> QED
    BY <1>1, <1>7, <2>1, EpochsBefore DEF Stream, all
<1> QED
  BY <1>4, <1>5, <1>6, <1>7 DEF Stream, all

\* The watermark of a batch and the epoch after it.
LEMMA StreamEpoch ==
    ASSUME NEW part, NEW q \in Seq(Events), NEW seen, NEW w, NEW pos, NEW max \in Nat, NEW e \in Nat,
           Stream(part, q, seen, w, pos, max)
    PROVE  /\ <<Watermark(max), Epoch(e)>> \in Seq(Events)
           /\ Stream(part, q \o <<Watermark(max), Epoch(e)>>, seen, w, pos, max)
<1>1. PICK new : new = <<Watermark(max), Epoch(e)>>
  OBVIOUS
<1>2. /\ new \in Seq(Events) /\ Len(new) = 2
      /\ new[1].kind = "watermark" /\ new[1].ts = max /\ new[2].kind = "epoch"
  <2>1. PICK a \in Events, b \in Events : a = Watermark(max) /\ b = Epoch(e)
    BY DEF Events
  <2>2. a.kind = "watermark" /\ a.ts = max /\ b.kind = "epoch"
    BY <2>1 DEF Watermark, Epoch
  <2>3. new = <<a, b>>
    BY <1>1, <2>1
  <2> QED
    BY <2>2, <2>3
<1> DEFINE all == q \o new
<1>3. /\ Len(q) \in Nat /\ DOMAIN q = 1 .. Len(q) /\ DOMAIN all = 1 .. (Len(q) + 2)
      /\ \A k \in DOMAIN q : all[k] = q[k]
      /\ all[Len(q) + 1] = new[1] /\ all[Len(q) + 2] = new[2]
  <2>1. Len(q) \in Nat /\ DOMAIN q = 1 .. Len(q)
    OBVIOUS
  <2>2. DOMAIN all = 1 .. (Len(q) + 2) /\ \A k \in DOMAIN q : all[k] = q[k]
    <3>1. DOMAIN all = 1 .. (Len(q) + Len(new)) /\ \A k \in DOMAIN q : all[k] = q[k]
      BY <1>2, ConcatFacts
    <3> QED
      BY <1>2, <3>1, Zenon
  <2>3. /\ Len(q) + 1 \in DOMAIN all \ DOMAIN q /\ Len(q) + 2 \in DOMAIN all \ DOMAIN q
        /\ (Len(q) + 1) - Len(q) = 1 /\ (Len(q) + 2) - Len(q) = 2
    <3> HIDE DEF all
    <3> QED
      BY <2>1, <2>2
  <2>4. \A k \in DOMAIN all \ DOMAIN q : all[k] = new[k - Len(q)]
    BY <1>2, ConcatFacts
  <2> HIDE DEF all
  <2> QED
    BY <2>1, <2>2, <2>3, <2>4
<1> HIDE DEF all
<1>4. \A k \in DOMAIN all : k \in DOMAIN q \/ k = Len(q) + 1 \/ k = Len(q) + 2
  BY <1>3
<1>5. \A k \in DOMAIN all : all[k].kind = "element" => k \in DOMAIN q
  BY <1>2, <1>3, <1>4
<1>6. ElementsAscend(part, all, pos, max)
  BY <1>3, <1>5 DEF Stream, ElementsAscend
<1>7. SeenIsOlder(part, all, seen, w, pos)
  BY <1>3, <1>5 DEF Stream, SeenIsOlder
<1>8. ASSUME NEW k \in DOMAIN all, all[k].kind = "epoch" PROVE EpochIsCovered(part, all, seen, w, k)
  <2>1. CASE k \in DOMAIN q
    BY <1>2, <1>3, <1>8, <2>1, EpochsBefore DEF Stream, all
  <2>2. CASE k = Len(q) + 2
    <3>1. k # 1 /\ k - 1 = Len(q) + 1
      BY <1>3, <2>2
    <3>2. all[k - 1].kind = "watermark" /\ all[k - 1].ts = max
      BY <1>2, <1>3, <3>1
    <3>3. ASSUME NEW l \in 1 .. (k - 1), all[l].kind = "element" PROVE all[l].ts <= max
      <4>1. l \in DOMAIN all
        BY <1>3, <2>2
      <4> QED
        BY <1>6, <3>3, <4>1 DEF ElementsAscend
    <3> QED
      BY <3>1, <3>2, <3>3 DEF EpochIsCovered, Stream
  <2> QED
    BY <1>2, <1>3, <1>4, <1>8, <2>1, <2>2
<1>9. Stream(part, all, seen, w, pos, max)
  BY <1>6, <1>7, <1>8 DEF Stream
<1> QED
  BY <1>1, <1>2, <1>9 DEF all

\* After a restart.
LEMMA StreamEmpty ==
    ASSUME NEW part, NEW seen, NEW w, NEW pos, Covered(part, seen, w, w)
    PROVE  Stream(part, <<>>, seen, w, pos, 0)
  BY DEF Stream, ElementsAscend, SeenIsOlder, Covered

-----------------------------------------------------------------------------
(* The steps.                                                                *)

\* The invariant before the first batch.
LEMMA InitKafka == Init => KafkaInv
<1> SUFFICES ASSUME Init PROVE KafkaInv
  OBVIOUS
<1>1. NodesInit /\ 1 \in Nodes
  BY NodeFacts DEF Init
<1>2. node[1].seen = <<>> /\ queue[1] = <<>> /\ dirs[1] = <<>>
  BY <1>1 DEF NodesInit, NewNode
<1>3. KafkaTypes
  <2>1. PICK n \in 0 .. MaxMessages :
            partition \in [1 .. n -> [ts : 1 .. MaxTs, parses : Parses]]
    BY DEF Init
  <2>2. n \in Nat /\ partition \in [1 .. n -> [ts : 1 .. MaxTs, parses : BOOLEAN]]
    BY <2>1, KafkaAssumption
  <2>3. partition \in Seq([ts : 1 .. MaxTs, parses : BOOLEAN])
    BY <2>2, SeqDef
  <2>4. Len(partition) \in Nat /\ 0 \in 0 .. Len(partition)
    BY <2>3
  <2>5. position \in 0 .. Len(partition) /\ committed = None
    BY <2>4 DEF Init
  <2>6. source \in [epoch : Nat, offset : 0 .. Len(partition), max_timestamp : Nat]
    BY <2>4 DEF Init, NewSource
  <2> QED
    BY <2>3, <2>5, <2>6 DEF KafkaTypes
<1>4. Once(partition, <<>>) /\ Covered(partition, <<>>, node[1].watermark, node[1].watermark)
  BY DEF Once, IsInjective, Covered
<1>5. Stream(partition, <<>>, <<>>, node[1].watermark, position, 0)
  BY <1>4, StreamEmpty
<1>6. source.max_timestamp = 0
  BY DEF Init, NewSource
<1> QED
  BY <1>2, <1>3, <1>4, <1>5, <1>6 DEF KafkaInv

\* What the types give for the messages that the first node has seen.
LEMMA PartitionFacts ==
    ASSUME KafkaTypes
    PROVE  /\ Len(partition) \in Nat /\ DOMAIN partition = 1 .. Len(partition)
           /\ DOMAIN partition \subseteq Nat
           /\ \A k \in DOMAIN partition : partition[k].ts \in Nat /\ partition[k].ts <= MaxTs
           /\ position \in Nat /\ position <= Len(partition)
           /\ source.max_timestamp \in Nat /\ source.epoch \in Nat
<1>1. partition \in Seq([ts : 1 .. MaxTs, parses : BOOLEAN])
  BY DEF KafkaTypes
<1>2. Len(partition) \in Nat /\ DOMAIN partition = 1 .. Len(partition)
  BY <1>1
<1>3. \A k \in DOMAIN partition : partition[k] \in [ts : 1 .. MaxTs, parses : BOOLEAN]
  BY <1>1, <1>2, ElementOfSeq
<1>4. \A k \in DOMAIN partition : partition[k].ts \in Nat /\ partition[k].ts <= MaxTs
  BY <1>3, KafkaAssumption
<1> QED
  BY <1>2, <1>4 DEF KafkaTypes

\* Every step of a node keeps the invariant.
LEMMA NodeStepKeepsKafka ==
    ASSUME ChainInv, KafkaInv, NEW i \in Nodes, NodeStep(i), UNCHANGED kafkaVars
    PROVE  KafkaInv'
<1>1. /\ FirstIdle \/ FirstDrops \/ FirstHandles \/ FirstBegins \/ FirstFinishes
      /\ FirstDirs /\ failed' = failed
  BY FirstNodeStep
<1>2. /\ 1 \in Nodes /\ queue[1] \in Seq(Events) /\ node[1] \in State
      /\ node[1].seen \in Seq(Nat) /\ node[1].watermark \in Nat
  BY NodeFacts DEF ChainInv, Types, State
<1>3. /\ partition' = partition /\ position' = position /\ source' = source
      /\ committed' = committed
  BY DEF kafkaVars
<1>4. KafkaTypes /\ KafkaTypes'
  BY <1>3 DEF KafkaInv, KafkaTypes
<1>5. /\ \A k \in DOMAIN node[1].seen :
           node[1].seen[k] \in DOMAIN partition /\ partition[node[1].seen[k]].ts \in Nat
      /\ DOMAIN partition \subseteq Nat
      /\ \A k \in DOMAIN partition : partition[k].ts \in Nat
      /\ position \in Nat
  BY <1>4, PartitionFacts DEF KafkaInv, Once
<1>6. queue[1] # <<>> => Event(1) = queue[1][1] /\ Event(1) \in Events /\ 1 \in DOMAIN queue[1]
  BY <1>2, TailFacts DEF Event
<1> DEFINE InStep(q, s) ==
       /\ Once(partition, s.seen)
       /\ ~ failed => Stream(partition, q, s.seen, s.watermark, position, source.max_timestamp)
<1>7. InStep(queue'[1], node'[1])
  <2>1. CASE FirstIdle
    BY <2>1 DEF FirstIdle, KafkaInv
  <2>2. CASE FirstDrops
    <3>1. queue[1][1].kind # "epoch" => queue[1][1].ts <= node[1].watermark
      BY <1>6, <2>2 DEF FirstDrops, Dropped
    <3> QED
      BY <1>2, <1>5, <2>2, <3>1, StreamDrop DEF FirstDrops, KafkaInv
  <2>3. CASE FirstHandles
    <3>1. PICK q, seen, w : q = queue[1] /\ seen = node[1].seen /\ w = node[1].watermark
      OBVIOUS
    <3>2. /\ q \in Seq(Events) /\ q # <<>> /\ seen \in Seq(Nat) /\ w \in Nat /\ ~ failed
          /\ Once(partition, seen)
          /\ Stream(partition, q, seen, w, position, source.max_timestamp)
          /\ queue'[1] = Tail(q) /\ Takes(node[1], q[1], node'[1]) /\ q[1].kind # "epoch"
      BY <1>2, <1>6, <2>3, <3>1 DEF FirstHandles, KafkaInv
    <3>3. CASE q[1].kind = "element"
      <4>1. q[1].ts > w /\ node'[1] = [node[1] EXCEPT !.seen = Append(seen, q[1].id)]
        BY <3>1, <3>2, <3>3 DEF Takes
      <4>2. PICK new : new = Append(seen, q[1].id)
        OBVIOUS
      <4>3. node'[1].seen = new /\ node'[1].watermark = w
        BY <1>2, <3>1, <4>1, <4>2 DEF State
      <4>4. /\ Once(partition, new)
            /\ Stream(partition, Tail(q), new, w, position, source.max_timestamp)
        BY <1>5, <3>2, <3>3, <4>1, <4>2, StreamElement
      <4> QED
        BY <3>2, <4>3, <4>4
    <3>4. CASE q[1].kind = "watermark"
      <4>1. q[1].ts > w /\ node'[1].seen = seen /\ node'[1].watermark = q[1].ts
        BY <1>2, <3>1, <3>2, <3>4 DEF Takes, State
      <4>2. Stream(partition, Tail(q), seen, q[1].ts, position, source.max_timestamp)
        BY <1>5, <3>1, <3>2, <3>4, <4>1, StreamWatermark
      <4> QED
        BY <3>2, <4>1, <4>2
    <3> QED
      BY <1>2, <1>6, <3>1, <3>2, <3>3, <3>4, EventFacts
  <2>4. CASE FirstBegins
    <3>1. node'[1].seen = node[1].seen /\ node'[1].watermark = node[1].watermark
      BY <1>2, <2>4 DEF FirstBegins, Takes, State
    <3> QED
      BY <2>4, <3>1 DEF FirstBegins, KafkaInv
  <2>5. CASE FirstFinishes
    <3>1. queue[1][1].kind = "epoch"
      BY <1>2, <1>6, <2>5 DEF FirstFinishes, ChainInv, SavesItsEpoch
    <3> QED
      BY <1>2, <1>5, <2>5, <3>1, StreamDrop DEF FirstFinishes, KafkaInv
  <2> QED
    BY <1>1, <2>1, <2>2, <2>3, <2>4, <2>5
<1>8. ASSUME NEW e \in DOMAIN dirs'[1], dirs'[1][e] # None
      PROVE  /\ Once(partition, dirs'[1][e].seen)
             /\ Covered(partition, dirs'[1][e].seen, dirs'[1][e].watermark, dirs'[1][e].watermark)
  <2>1. CASE e \in DOMAIN dirs[1] /\ dirs'[1][e] = dirs[1][e]
    BY <1>8, <2>1 DEF KafkaInv
  <2>2. CASE FirstFinishes /\ dirs'[1][e] = node[1]
    <3>1. queue[1][1].kind = "epoch" /\ 1 \in DOMAIN queue[1] /\ ~ failed
      BY <1>2, <1>6, <2>2 DEF FirstFinishes, ChainInv, SavesItsEpoch
    <3>2. Covered(partition, node[1].seen, node[1].watermark, node[1].watermark)
      BY <3>1 DEF KafkaInv, Stream, EpochIsCovered
    <3> QED
      BY <2>2, <3>2 DEF KafkaInv
  <2> QED
    BY <1>1, <1>8, <2>1, <2>2 DEF FirstDirs
<1> QED
  BY <1>1, <1>3, <1>4, <1>7, <1>8 DEF KafkaInv

\* A batch: what it does to the source, and the events it sends.
LEMMA BatchFacts ==
    ASSUME KafkaTypes, NEW n \in 1 .. batch_size, ReceiveBatch(n)
    PROVE  /\ position' \in Nat /\ position <= position' /\ position' <= Len(partition)
           /\ source' \in [epoch : Nat, offset : 0 .. Len(partition), max_timestamp : Nat]
           /\ source.max_timestamp <= source'.max_timestamp
           /\ \E new \in Seq(Events) :
                /\ queue' = [queue EXCEPT ![1] = @ \o new]
                /\ \A k \in DOMAIN new :
                     /\ new[k].kind = "element" /\ new[k].id \in DOMAIN partition
                     /\ position < new[k].id /\ new[k].id <= position'
                     /\ new[k].ts = partition[new[k].id].ts
                     /\ new[k].ts <= source'.max_timestamp
                /\ \A k, l \in DOMAIN new : k < l => new[k].id < new[l].id
<1> DEFINE batch == (position + 1) .. (position + n)
           good == {k \in batch : partition[k].parses}
           stamps == {source.max_timestamp} \cup {partition[k].ts : k \in batch}
<1>1. /\ Len(partition) \in Nat /\ DOMAIN partition = 1 .. Len(partition)
      /\ DOMAIN partition \subseteq Nat
      /\ \A k \in DOMAIN partition : partition[k].ts \in Nat /\ partition[k].ts <= MaxTs
      /\ position \in Nat /\ position <= Len(partition)
      /\ source.max_timestamp \in Nat /\ n \in Nat /\ n > 0 /\ MaxTs \in Nat
  BY PartitionFacts, KafkaAssumption
<1>2. /\ position + n <= Len(partition) /\ position' = position + n
      /\ source' = [source EXCEPT !.offset = IF good = {} THEN @ ELSE Max(good),
                                  !.max_timestamp = Max(stamps)]
      /\ \E order \in InOrderOf(good) : queue' = [queue EXCEPT ![1] =
             @ \o [k \in DOMAIN order |-> Element(order[k], partition[order[k]].ts)]]
  BY DEF ReceiveBatch
<1>3. \A k \in batch : k \in DOMAIN partition /\ position < k /\ k <= position + n
  BY <1>1, <1>2
<1>4. good \subseteq DOMAIN partition /\ good \in SUBSET Nat /\ good \subseteq batch
  BY <1>1, <1>3
<1>5. \A k \in batch : partition[k].ts \in Nat /\ partition[k].ts <= MaxTs
  BY <1>1, <1>3
<1>6. /\ stamps \in SUBSET Nat /\ stamps # {} /\ source.max_timestamp + MaxTs \in Nat
      /\ \A x \in stamps : x <= source.max_timestamp + MaxTs
  <2>1. PICK max \in Nat : max = source.max_timestamp
    BY <1>1
  <2>2. \A x \in stamps : x = max \/ \E k \in batch : x = partition[k].ts
    BY <2>1
  <2>3. max \in stamps /\ max + MaxTs \in Nat /\ max <= max + MaxTs
    BY <1>1, <2>1
  <2>4. ASSUME NEW x \in stamps PROVE x \in Nat /\ x <= max + MaxTs
    <3> HIDE DEF stamps, batch
    <3>1. CASE x = max
      BY <2>3, <3>1
    <3>2. CASE \E k \in batch : x = partition[k].ts
      <4>1. x \in Nat /\ x <= MaxTs
        BY <1>5, <3>2
      <4> QED
        BY <1>1, <4>1
    <3> QED
      BY <2>2, <3>1, <3>2
  <2> HIDE DEF stamps
  <2> QED
    BY <2>1, <2>3, <2>4
<1>7. source.max_timestamp \in stamps /\ \A k \in batch : partition[k].ts \in stamps
  OBVIOUS
<1> HIDE DEF batch, good, stamps
<1>8. Max(stamps) \in Nat /\ \A x \in stamps : x <= Max(stamps)
  BY <1>6, MaxOfBounded
<1>9. ASSUME good # {} PROVE Max(good) \in 0 .. Len(partition)
  <2>1. \A x \in good : x <= Len(partition)
    BY <1>1, <1>4
  <2>2. Max(good) \in good
    BY <1>1, <1>4, <1>9, <2>1, MaxOfBounded
  <2> QED
    BY <1>1, <1>4, <2>2
<1>10. /\ source' \in [epoch : Nat, offset : 0 .. Len(partition), max_timestamp : Nat]
       /\ source'.max_timestamp = Max(stamps)
  <2>1. PICK offset \in 0 .. Len(partition) :
            offset = IF good = {} THEN source.offset ELSE Max(good)
    BY <1>9 DEF KafkaTypes
  <2>2. PICK max \in Nat : max = Max(stamps)
    BY <1>8
  <2>3. source' = [source EXCEPT !.offset = offset, !.max_timestamp = max]
    BY <1>2, <2>1, <2>2
  <2> QED
    BY <2>2, <2>3 DEF KafkaTypes
<1>11. PICK order \in InOrderOf(good) : queue' = [queue EXCEPT ![1] =
             @ \o [k \in DOMAIN order |-> Element(order[k], partition[order[k]].ts)]]
  BY <1>2
<1>12. /\ order \in [1 .. Cardinality(good) -> good]
       /\ \A j, k \in DOMAIN order : j < k => order[j] < order[k]
  BY <1>11 DEF InOrderOf
<1>13. PICK new : new = [k \in DOMAIN order |-> Element(order[k], partition[order[k]].ts)]
  OBVIOUS
<1>14. /\ DOMAIN new = DOMAIN order
       /\ \A k \in DOMAIN new :
            /\ new[k].kind = "element" /\ new[k].id = order[k]
            /\ new[k].ts = partition[order[k]].ts
            /\ new[k] = Element(order[k], partition[order[k]].ts)
  BY <1>13 DEF Element
<1>15. \A k \in DOMAIN new : order[k] \in DOMAIN partition /\ order[k] \in batch
  BY <1>4, <1>12, <1>14
<1>16. \A k \in DOMAIN new :
          /\ new[k].id \in DOMAIN partition
          /\ position < new[k].id /\ new[k].id <= position'
          /\ new[k].ts = partition[new[k].id].ts
          /\ new[k].ts <= source'.max_timestamp
  BY <1>2, <1>3, <1>7, <1>8, <1>10, <1>14, <1>15
<1>17. new \in Seq(Events)
  <2>1. Cardinality(good) \in Nat
    <3>1. IsFiniteSet(batch)
      <4>1. position + 1 \in Int /\ position + n \in Int
        BY <1>1
      <4> QED
        BY <4>1, FS_Interval DEF batch
    <3> QED
      BY <1>4, <3>1, FS_Subset, FS_CardinalityType
  <2>2. \A k \in DOMAIN new : new[k] \in Events
    <3> SUFFICES ASSUME NEW k \in DOMAIN new PROVE new[k] \in Events
      OBVIOUS
    <3>1. order[k] \in Nat /\ partition[order[k]].ts \in Nat
      BY <1>1, <1>15
    <3> QED
      BY <1>14, <3>1 DEF Events
  <2>3. DOMAIN new = 1 .. Cardinality(good)
    BY <1>12, <1>14
  <2>4. new \in [1 .. Cardinality(good) -> Events]
    BY <1>13, <2>2, <2>3
  <2> QED
    BY <2>1, <2>4, SeqDef
<1>18. \A k, l \in DOMAIN new : k < l => new[k].id < new[l].id
  BY <1>12, <1>14
<1>19. position' \in Nat /\ position <= position' /\ position' <= Len(partition)
  BY <1>1, <1>2
<1>20. source.max_timestamp <= source'.max_timestamp
  BY <1>7, <1>8, <1>10
<1>21. queue' = [queue EXCEPT ![1] = @ \o new]
  BY <1>11, <1>13
<1>22. \A k \in DOMAIN new : new[k].kind = "element"
  BY <1>14
<1>23. \E any \in Seq(Events) :
         /\ queue' = [queue EXCEPT ![1] = @ \o any]
         /\ \A k \in DOMAIN any :
              /\ any[k].kind = "element" /\ any[k].id \in DOMAIN partition
              /\ position < any[k].id /\ any[k].id <= position'
              /\ any[k].ts = partition[any[k].id].ts
              /\ any[k].ts <= source'.max_timestamp
         /\ \A k, l \in DOMAIN any : k < l => any[k].id < any[l].id
  <2> WITNESS new \in Seq(Events)
  <2> QED
    BY <1>16, <1>18, <1>21, <1>22
<1> QED
  BY <1>10, <1>19, <1>20, <1>23

\* A batch of messages keeps the invariant.
LEMMA BatchKeepsKafka ==
    ASSUME ChainInv, KafkaInv, NEW n \in 1 .. batch_size, ReceiveBatch(n)
    PROVE  ChainInv' /\ KafkaInv' /\ (Written => Written')
<1>1. /\ ~ failed /\ partition' = partition /\ committed' = committed
      /\ UNCHANGED <<node, saving, dirs, file, sink_buffer, failed>>
  BY DEF ReceiveBatch
<1>2. KafkaTypes /\ 1 \in Nodes /\ queue[1] \in Seq(Events) /\ DOMAIN queue = Nodes
  BY NodeFacts DEF KafkaInv, ChainInv, Types
<1>3. /\ position' \in Nat /\ position <= position' /\ position' <= Len(partition)
      /\ source' \in [epoch : Nat, offset : 0 .. Len(partition), max_timestamp : Nat]
      /\ source.max_timestamp <= source'.max_timestamp
  BY <1>2, BatchFacts
<1>4. PICK new \in Seq(Events) :
        /\ queue' = [queue EXCEPT ![1] = @ \o new]
        /\ \A k \in DOMAIN new :
             /\ new[k].kind = "element" /\ new[k].id \in DOMAIN partition
             /\ position < new[k].id /\ new[k].id <= position'
             /\ new[k].ts = partition[new[k].id].ts
             /\ new[k].ts <= source'.max_timestamp
        /\ \A k, l \in DOMAIN new : k < l => new[k].id < new[l].id
  BY <1>2, BatchFacts
<1>5. ChainInv'
  BY <1>1, <1>4, SourceKeepsChain
<1>6. queue'[1] = queue[1] \o new
  BY <1>2, <1>4
<1>7. KafkaTypes'
  BY <1>1, <1>3 DEF KafkaInv, KafkaTypes
<1>8. Stream(partition, queue[1] \o new, node[1].seen, node[1].watermark,
             position', source'.max_timestamp)
  <2>1. \A k \in DOMAIN node[1].seen :
          node[1].seen[k] \in Nat /\ partition[node[1].seen[k]].ts \in Nat
    BY <1>2, PartitionFacts DEF KafkaInv, Once
  <2>2. /\ position \in Nat /\ source.max_timestamp \in Nat /\ source'.max_timestamp \in Nat
        /\ Stream(partition, queue[1], node[1].seen, node[1].watermark, position,
                  source.max_timestamp)
    BY <1>1, <1>2, <1>3, PartitionFacts DEF KafkaInv
  <2> QED
    BY <1>2, <1>3, <1>4, <2>1, <2>2, StreamBatch
<1>9. KafkaInv'
  BY <1>1, <1>6, <1>7, <1>8 DEF KafkaInv
<1>10. Written => Written'
  BY <1>1, WrittenUnchanged
<1> QED
  BY <1>5, <1>9, <1>10

\* A new epoch of the source keeps the invariant.
LEMMA NewEpochKeepsKafka ==
    ASSUME ChainInv, KafkaInv, NewEpoch
    PROVE  ChainInv' /\ KafkaInv' /\ (Written => Written')
<1>1. /\ ~ failed /\ partition' = partition /\ committed' = committed /\ position' = position
      /\ UNCHANGED <<node, saving, dirs, file, sink_buffer, failed>>
      /\ queue' = [queue EXCEPT ![1] = @ \o EndOfBatch]
      /\ source' = [source EXCEPT !.epoch = @ + 1]
  BY DEF NewEpoch
<1>2. /\ KafkaTypes /\ 1 \in Nodes /\ queue[1] \in Seq(Events) /\ DOMAIN queue = Nodes
      /\ source.max_timestamp \in Nat /\ source.epoch \in Nat
  BY NodeFacts, PartitionFacts DEF KafkaInv, ChainInv, Types
<1>3. PICK new : new = EndOfBatch
  OBVIOUS
<1>4. /\ new \in Seq(Events)
      /\ Stream(partition, queue[1] \o new, node[1].seen, node[1].watermark, position,
                source.max_timestamp)
  BY <1>1, <1>2, <1>3, StreamEpoch DEF KafkaInv, EndOfBatch
<1>5. ChainInv'
  BY <1>1, <1>3, <1>4, SourceKeepsChain
<1>6. queue'[1] = queue[1] \o new
  BY <1>1, <1>2, <1>3
<1>7. /\ source' \in [epoch : Nat, offset : 0 .. Len(partition), max_timestamp : Nat]
      /\ source'.max_timestamp = source.max_timestamp
  <2>1. PICK e \in Nat : e = source.epoch + 1
    BY <1>2
  <2>2. source' = [source EXCEPT !.epoch = e]
    BY <1>1, <2>1
  <2> QED
    BY <1>2, <2>2 DEF KafkaTypes
<1>8. KafkaTypes'
  BY <1>1, <1>7 DEF KafkaInv, KafkaTypes
<1>9. KafkaInv'
  BY <1>1, <1>4, <1>6, <1>7, <1>8 DEF KafkaInv
<1>10. Written => Written'
  BY <1>1, WrittenUnchanged
<1> QED
  BY <1>5, <1>9, <1>10

\* A restart. The position may be before what the checkpoint has.
LEMMA RestartKeepsKafka ==
    ASSUME ChainInv, KafkaInv, Restart
    PROVE  KafkaInv'
<1>1. /\ RestartNodes /\ source' = NewSource /\ position' \in StartPositions
      /\ partition' = partition /\ committed' = committed /\ dirs' = dirs
      /\ queue' = [i \in Nodes |-> <<>>]
  BY DEF Restart, RestartNodes
<1>2. KafkaTypes'
  <2>1. Len(partition) \in Nat
    BY PartitionFacts DEF KafkaInv
  <2>2. position' \in 0 .. Len(partition)
    BY <1>1, <2>1 DEF KafkaInv, KafkaTypes, StartPositions
  <2>3. source' \in [epoch : Nat, offset : 0 .. Len(partition), max_timestamp : Nat]
    BY <1>1, <2>1 DEF NewSource
  <2> QED
    BY <1>1, <2>2, <2>3 DEF KafkaInv, KafkaTypes
<1>3. queue'[1] = <<>> /\ source'.max_timestamp = 0 /\ 1 \in Nodes
  BY <1>1, NodeFacts DEF NewSource
<1>4. CASE \E i \in Nodes : Restored(i) = None
  <2>1. failed' /\ node' = node
    BY <1>1, <1>4 DEF RestartNodes
  <2> QED
    BY <1>1, <1>2, <2>1 DEF KafkaInv
<1>5. CASE \A i \in Nodes : Restored(i) # None
  <2>1. PICK s \in State : /\ \A i \in Nodes : Restored(i) = s
                           /\ \/ s = NewNode
                              \/ \E e \in DOMAIN dirs[Sink] : dirs[Sink][e] # None
                                   /\ \A i \in Nodes : e \in DOMAIN dirs[i] /\ dirs[i][e] = s
    BY <1>5, RestoredFacts
  <2>2. node'[1] = s
    BY <1>1, <1>3, <1>5, <2>1 DEF RestartNodes
  <2>3. Once(partition, s.seen) /\ Covered(partition, s.seen, s.watermark, s.watermark)
    <3>1. CASE s = NewNode
      BY <3>1 DEF NewNode, Once, IsInjective, Covered
    <3>2. CASE s # NewNode
      <4>1. PICK e \in DOMAIN dirs[Sink] : /\ dirs[Sink][e] # None
              /\ \A i \in Nodes : e \in DOMAIN dirs[i] /\ dirs[i][e] = s
        BY <2>1, <3>2
      <4>2. e \in DOMAIN dirs[1] /\ dirs[1][e] = s /\ s # None
        BY <1>3, <4>1, NodeFacts
      <4> QED
        BY <4>2 DEF KafkaInv
    <3> QED
      BY <3>1, <3>2
  <2>4. Stream(partition, <<>>, s.seen, s.watermark, position', 0)
    BY <2>3, StreamEmpty
  <2> QED
    BY <1>1, <1>2, <1>3, <2>2, <2>3, <2>4 DEF KafkaInv
<1> QED
  BY <1>4, <1>5

-----------------------------------------------------------------------------
\* The inductive invariant: the links between the nodes, what the sink has
\* written, and the watermarks that cover the messages of every epoch.
THEOREM KafkaInvariant == Spec => [](ChainInv /\ Written /\ KafkaInv)
<1>1. Init => ChainInv /\ Written /\ KafkaInv
  BY InitChain, InitWritten, InitKafka DEF Init
<1>2. ASSUME ChainInv, Written, KafkaInv, [Next]_vars PROVE (ChainInv /\ Written /\ KafkaInv)'
  <2>1. CASE \E n \in 1 .. batch_size : ReceiveBatch(n)
    BY <1>2, <2>1, BatchKeepsKafka
  <2>2. CASE NewEpoch
    BY <1>2, <2>2, NewEpochKeepsKafka
  <2>3. CASE CommitEpoch
    <3>1. UNCHANGED <<queue, node, saving, dirs, file, sink_buffer, failed>>
      BY <2>3 DEF CommitEpoch, nodeVars
    <3>2. /\ UNCHANGED <<partition, position, source>>
          /\ committed' = committed \/ committed' \in 0 .. Len(partition)
      BY <1>2, <2>3 DEF CommitEpoch, KafkaInv, KafkaTypes
    <3>3. ChainInv'
      BY <1>2, <3>1, ChainUnchanged
    <3>4. Written'
      BY <1>2, <3>1, WrittenUnchanged
    <3>5. KafkaInv'
      BY <1>2, <3>1, <3>2 DEF KafkaInv, KafkaTypes
    <3> QED
      BY <3>3, <3>4, <3>5
  <2>4. CASE \E i \in Nodes : NodeStep(i) /\ UNCHANGED kafkaVars
    BY <1>2, <2>4, NodeStepKeepsChain, NodeStepKeepsWritten, NodeStepKeepsKafka
  <2>5. CASE Restart
    <3>1. RestartNodes
      BY <2>5 DEF Restart
    <3> QED
      BY <1>2, <2>5, <3>1, RestartKeepsChain, RestartKeepsWritten, RestartKeepsKafka
  <2>6. CASE UNCHANGED vars
    <3>1. UNCHANGED <<queue, node, saving, dirs, file, sink_buffer, failed,
                      partition, position, committed, source>>
      BY <2>6 DEF vars, nodeVars, kafkaVars
    <3>2. ChainInv'
      BY <1>2, <3>1, ChainUnchanged
    <3>3. Written'
      BY <1>2, <3>1, WrittenUnchanged
    <3>4. KafkaInv'
      BY <1>2, <3>1 DEF KafkaInv, KafkaTypes
    <3> QED
      BY <3>2, <3>3, <3>4
  <2> QED
    BY <1>2, <2>1, <2>2, <2>3, <2>4, <2>5, <2>6 DEF Next
<1> QED
  BY <1>1, <1>2, PTL DEF Spec

\* No node processes a message twice, whichever offset the consumer goes on
\* from after a restart: for every number of nodes, messages and crashes, every
\* batch size, kind of sink and backend.
THEOREM KafkaAtMostOnce == Spec => []MessagesAtMostOnce
<1>1. ChainInv /\ KafkaInv => MessagesAtMostOnce
  <2> SUFFICES ASSUME ChainInv, KafkaInv, NEW i \in Nodes PROVE IsInjective(node[i].seen)
    BY DEF MessagesAtMostOnce
  <2>1. IsInjective(node[1].seen) /\ 1 \in Nodes
    BY NodeFacts DEF KafkaInv, Once
  <2>2. CASE i # 1
    <3>1. Begins(node[i].seen, node[1].seen)
      BY <2>1, <2>2, NodeFacts DEF ChainInv, InOrder, Before
    <3>2. PICK s \in Seq(Nat), t \in Seq(Nat) : s = node[i].seen /\ t = node[1].seen
      BY <2>1 DEF ChainInv, Types, State
    <3>3. \A k \in DOMAIN s : k \in DOMAIN t /\ s[k] = t[k]
      <4>1. Len(s) <= Len(t) /\ \A k \in 1 .. Len(s) : s[k] = t[k]
        BY <3>1, <3>2 DEF Begins
      <4>2. /\ DOMAIN s = 1 .. Len(s) /\ DOMAIN t = 1 .. Len(t)
            /\ Len(s) \in Nat /\ Len(t) \in Nat
        BY <3>2
      <4> QED
        BY <4>1, <4>2
    <3>4. IsInjective(s)
      BY <2>1, <3>2, <3>3 DEF IsInjective
    <3> QED
      BY <3>2, <3>4
  <2> QED
    BY <2>1, <2>2
<1> QED
  BY <1>1, KafkaInvariant, PTL

\* Directories of different lives of the pipeline, whose epochs have the same
\* numbers, never combine into a checkpoint that does not fit.
THEOREM KafkaCheckpointsFit == Spec => []CheckpointsFitTogether
  BY KafkaInvariant, ChainFitsTogether, PTL

\* What is in a checkpoint, the sink has written.
THEOREM KafkaSavedIsWritten == Spec => []SavedEpochsAreWritten
  BY KafkaInvariant, WrittenIsSaved, PTL
=============================================================================
