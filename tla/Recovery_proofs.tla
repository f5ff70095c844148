--------------------------- MODULE Recovery_proofs ---------------------------
(* Proofs about the chain of nodes of Recovery, for every number of nodes,    *)
(* kind of sink and backend, and for every source: ScriptRecovery_proofs and  *)
(* KafkaRecovery_proofs add theirs. The argument: what a node has in its      *)
(* queue leads, event by event and without a drop, from the state it is in to *)
(* the state its predecessor is in, and every epoch on the way is in the      *)
(* checkpoints of all nodes before it.                                        *)
EXTENDS Recovery, SequenceTheorems, FiniteSetTheorems, TLAPS

State == [watermark : Nat, epoch : Nat, seen : Seq(Nat)]
Events ==
    {Element(id, ts) : id, ts \in Nat} \cup {Watermark(ts) : ts \in Nat}
        \cup {Epoch(e) : e \in Nat}

\* A node in state s does not drop the event and is in state t after it.
Takes(s, event, t) ==
    \/ /\ event.kind = "element" /\ event.ts > s.watermark
       /\ t = [s EXCEPT !.seen = Append(@, event.id)]
    \/ /\ event.kind = "watermark" /\ event.ts > s.watermark
       /\ t = [s EXCEPT !.watermark = event.ts]
    \/ /\ event.kind = "epoch" /\ event.epoch > s.epoch
       /\ t = [s EXCEPT !.epoch = event.epoch]

\* One sequence is the beginning of another; one state comes before another.
Begins(s, t) == Len(s) <= Len(t) /\ \A k \in 1 .. Len(s) : s[k] = t[k]
Before(s, t) == s.epoch <= t.epoch /\ Begins(s.seen, t.seen)

\* The states between the events of q.
Path(st, q) ==
    /\ st \in [0 .. Len(q) -> State]
    /\ \A k \in 1 .. Len(q) : Takes(st[k - 1], q[k], st[k])
    /\ \A k, l \in 0 .. Len(q) : k <= l => Before(st[k], st[l])

\* The path of node j's queue starts where node j is, ends at what node j - 1
\* has forwarded, and its epochs are in the checkpoints of the nodes before.
AtStart(j, st) == IF saving[j] THEN st[1] = node[j] ELSE st[0] = node[j]
AtEnd(j, st) ==
    IF saving[j - 1] THEN Takes(st[Len(queue[j])], Event(j - 1), node[j - 1])
    ELSE st[Len(queue[j])] = node[j - 1]
OnDisk(j, st) ==
    \A k \in 1 .. Len(queue[j]) : queue[j][k].kind = "epoch" =>
        \A i \in 1 .. (j - 1) :
            /\ queue[j][k].epoch \in DOMAIN dirs[i]
            /\ dirs[i][queue[j][k].epoch] = st[k]
Linked(j) ==
    \E st : Path(st, queue[j]) /\ AtStart(j, st) /\ AtEnd(j, st) /\ OnDisk(j, st)

Types ==
    /\ queue \in [Nodes -> Seq(Events)]
    /\ node \in [Nodes -> State]
    /\ saving \in [Nodes -> BOOLEAN]
    /\ DOMAIN dirs = Nodes
    /\ \A i \in Nodes : \A e \in DOMAIN dirs[i] :
         e \in Nat /\ (dirs[i][e] # None => dirs[i][e] \in State /\ dirs[i][e].epoch = e)
    /\ file \in Seq(Nat) /\ sink_buffer \in Seq(Nat)
    /\ failed \in BOOLEAN

SavesItsEpoch ==
    \A i \in Nodes : saving[i] =>
        /\ queue[i] # <<>> /\ Event(i).kind = "epoch"
        /\ node[i].epoch = Event(i).epoch

\* A node is behind the ones before it.
InOrder ==
    \A i, j \in Nodes : i < j =>
        /\ Before(node[j], node[i])
        /\ saving[i] => node[j].epoch < node[i].epoch

\* What the last node has saved, all have, and all the same.
LastIsComplete ==
    \A e \in DOMAIN dirs[Sink] :
        /\ e <= node[Sink].epoch
        /\ \A i \in Nodes : e \in DOMAIN dirs[i]
        /\ \A i, j \in Nodes :
             (dirs[i][e] # None /\ dirs[j][e] # None) => dirs[i][e] = dirs[j][e]

Links == ~ failed => \A j \in 2 .. NumNodes : Linked(j)

\* The sink's elements are written, or will be when the buffer is committed.
Kept(x) == Contains(file, x) \/ (~ saving[Sink] /\ Contains(sink_buffer, x))
Written ==
    /\ ~ failed => \A k \in DOMAIN node[Sink].seen : Kept(node[Sink].seen[k])
    /\ \A e \in DOMAIN dirs[Sink] : dirs[Sink][e] # None =>
         \A k \in DOMAIN dirs[Sink][e].seen : Contains(file, dirs[Sink][e].seen[k])

ChainInv == Types /\ SavesItsEpoch /\ InOrder /\ LastIsComplete /\ Links

-----------------------------------------------------------------------------
(* Events, states and paths.                                                 *)

\* The fields of an event.
LEMMA EventFacts ==
    ASSUME NEW event \in Events
    PROVE  /\ event.kind \in {"element", "watermark", "epoch"}
           /\ event.kind = "element" => event.id \in Nat /\ event.ts \in Nat
           /\ event.kind = "watermark" => event.ts \in Nat
           /\ event.kind = "epoch" => event.epoch \in Nat
  BY DEF Events, Element, Watermark, Epoch

\* The nodes of the pipeline, from the first to the sink.
LEMMA NodeFacts ==
    /\ NumNodes \in Nat /\ NumNodes > 0 /\ 1 \in Nodes /\ Sink \in Nodes
    /\ \A i \in Nodes : i \in Nat /\ i > 0 /\ i <= NumNodes
    /\ \A i \in Nodes : i # Sink => i + 1 \in Nodes
    /\ \A j \in 2 .. NumNodes : j \in Nodes /\ j - 1 \in Nodes /\ j - 1 # j
  BY RecoveryAssumption DEF Nodes, Sink

\* A step of a path leads to a state that is not before the last one.
LEMMA TakesFacts ==
    ASSUME NEW s \in State, NEW event \in Events, NEW t, Takes(s, event, t)
    PROVE  /\ t \in State
           /\ Before(s, t)
           /\ event.kind = "epoch" => t.epoch = event.epoch /\ s.epoch < t.epoch
           /\ event.kind # "epoch" => t.epoch = s.epoch
<1>1. CASE event.kind = "element"
  <2>1. t = [s EXCEPT !.seen = Append(s.seen, event.id)] /\ event.id \in Nat
    BY <1>1, EventFacts DEF Takes
  <2>2. Append(s.seen, event.id) \in Seq(Nat) /\ Begins(s.seen, Append(s.seen, event.id))
    BY <2>1 DEF State, Begins
  <2>3. PICK new \in Seq(Nat) : new = Append(s.seen, event.id)
    BY <2>2
  <2>4. t = [s EXCEPT !.seen = new] /\ Begins(s.seen, new)
    BY <2>1, <2>2, <2>3
  <2>5. t \in State /\ t.seen = new /\ t.epoch = s.epoch /\ s.epoch <= t.epoch
    BY <2>4 DEF State
  <2> QED
    BY <1>1, <2>4, <2>5 DEF Before
<1>2. CASE event.kind = "watermark"
  <2>1. t = [s EXCEPT !.watermark = event.ts] /\ event.ts \in Nat
    BY <1>2, EventFacts DEF Takes
  <2> QED
    BY <1>2, <2>1 DEF State, Before, Begins
<1>3. CASE event.kind = "epoch"
  <2>1. t = [s EXCEPT !.epoch = event.epoch] /\ event.epoch \in Nat /\ event.epoch > s.epoch
    BY <1>3, EventFacts DEF Takes
  <2> QED
    BY <1>3, <2>1 DEF State, Before, Begins
<1> QED
  BY <1>1, <1>2, <1>3, EventFacts

\* Before is a partial order on states: it is transitive,
LEMMA BeforeTransitive ==
    ASSUME NEW s \in State, NEW t \in State, NEW u \in State, Before(s, t), Before(t, u)
    PROVE  Before(s, u)
  BY DEF Before, Begins, State

\* and reflexive.
LEMMA BeforeReflexive == \A s \in State : Before(s, s)
  BY DEF Before, Begins, State

\* A path without its first event, and with one more event at its end.
LEMMA PathTail ==
    ASSUME NEW q \in Seq(Events), q # <<>>, NEW st, Path(st, q)
    PROVE  Path([k \in 0 .. Len(Tail(q)) |-> st[k + 1]], Tail(q))
<1> DEFINE tl == [k \in 0 .. Len(Tail(q)) |-> st[k + 1]]
<1>1. /\ Len(q) \in Nat /\ Len(q) > 0 /\ Len(Tail(q)) = Len(q) - 1
      /\ \A k \in 1 .. Len(Tail(q)) : Tail(q)[k] = q[k + 1]
  BY HeadTailProperties, EmptySeq
<1>2. tl \in [0 .. Len(Tail(q)) -> State]
  BY <1>1 DEF Path
<1>3. \A k \in 1 .. Len(Tail(q)) : Takes(tl[k - 1], Tail(q)[k], tl[k])
  <2> TAKE k \in 1 .. Len(Tail(q))
  <2>1. tl[k - 1] = st[k] /\ tl[k] = st[k + 1] /\ Tail(q)[k] = q[k + 1]
    BY <1>1
  <2>2. Takes(st[(k + 1) - 1], q[k + 1], st[k + 1])
    BY <1>1 DEF Path
  <2>3. (k + 1) - 1 = k
    OBVIOUS
  <2> QED
    BY <2>1, <2>2, <2>3
<1>4. \A k, l \in 0 .. Len(Tail(q)) : k <= l => Before(tl[k], tl[l])
  BY <1>1 DEF Path
<1> QED
  BY <1>2, <1>3, <1>4 DEF Path

\* A path that ends with one event more.
LEMMA PathAppend ==
    ASSUME NEW q \in Seq(Events), NEW st, Path(st, q), NEW event \in Events, NEW t,
           Takes(st[Len(q)], event, t)
    PROVE  Path([k \in 0 .. Len(Append(q, event)) |-> IF k <= Len(q) THEN st[k] ELSE t],
                Append(q, event))
<1> DEFINE r == Append(q, event)
           ex == [k \in 0 .. Len(r) |-> IF k <= Len(q) THEN st[k] ELSE t]
<1>1. /\ Len(q) \in Nat /\ Len(r) = Len(q) + 1 /\ r[Len(q) + 1] = event
      /\ \A k \in 1 .. Len(q) : r[k] = q[k]
  OBVIOUS
<1>2. /\ st \in [0 .. Len(q) -> State]
      /\ \A k \in 0 .. Len(q) : st[k] \in State
  BY DEF Path
<1>3. t \in State /\ Before(st[Len(q)], t)
  BY <1>1, <1>2, TakesFacts
<1>4. /\ \A k \in 0 .. Len(q) : ex[k] = st[k]
      /\ ex[Len(q) + 1] = t
      /\ ex \in [0 .. Len(r) -> State]
  BY <1>1, <1>2, <1>3
<1> HIDE DEF r, ex
<1>5. \A k \in 1 .. Len(r) : Takes(ex[k - 1], r[k], ex[k])
  <2> TAKE k \in 1 .. Len(r)
  <2>1. CASE k <= Len(q)
    <3>1. k \in 1 .. Len(q) /\ k - 1 \in 0 .. Len(q)
      BY <1>1, <2>1
    <3> QED
      BY <1>1, <1>4, <3>1 DEF Path
  <2>2. CASE k > Len(q)
    <3>1. k = Len(q) + 1 /\ k - 1 = Len(q)
      BY <1>1, <2>2
    <3> QED
      BY <1>1, <1>4, <3>1
  <2> QED
    BY <1>1, <2>1, <2>2
<1>6. ASSUME NEW k \in 0 .. Len(r), NEW l \in 0 .. Len(r), k <= l
      PROVE  Before(ex[k], ex[l])
  <2>1. CASE l <= Len(q)
    BY <1>1, <1>4, <1>6, <2>1 DEF Path
  <2>2. CASE l > Len(q) /\ k <= Len(q)
    <3>1. Before(st[k], st[Len(q)]) /\ k \in 0 .. Len(q) /\ l = Len(q) + 1
      BY <1>1, <1>6, <2>2 DEF Path
    <3> QED
      BY <1>1, <1>2, <1>3, <1>4, <3>1, BeforeTransitive
  <2>3. CASE k > Len(q)
    <3>1. k = l /\ ex[k] \in State
      BY <1>1, <1>4, <1>6, <2>3
    <3> QED
      BY <3>1, BeforeReflexive
  <2> QED
    BY <1>1, <1>6, <2>1, <2>2, <2>3
<1> QED
  BY <1>4, <1>5, <1>6 DEF Path, r, ex

\* A queue without events: a single state.
LEMMA PathEmpty ==
    ASSUME NEW s \in State
    PROVE  Path([k \in 0 .. Len(<<>>) |-> s], <<>>)
  BY BeforeReflexive DEF Path

-----------------------------------------------------------------------------
(* The steps of the nodes.                                                   *)

\* What the step of a node does to the queues: it takes the first event of its
\* own, and may append one to the next node's.
LEMMA QueueFacts ==
    ASSUME Types, NEW i \in Nodes, queue[i] # <<>>
    PROVE  /\ queue[i] \in Seq(Events) /\ Event(i) \in Events
           /\ Tail(queue[i]) \in Seq(Events)
           /\ Len(queue[i]) \in Nat /\ Len(queue[i]) > 0 /\ queue[i][1] = Event(i)
           /\ Taken(i) \in [Nodes -> Seq(Events)]
           /\ Taken(i)[i] = Tail(queue[i])
           /\ \A j \in Nodes \ {i} : Taken(i)[j] = queue[j]
           /\ Forwarded(i, Event(i)) \in [Nodes -> Seq(Events)]
           /\ Forwarded(i, Event(i))[i] = Tail(queue[i])
           /\ \A j \in Nodes \ {i, i + 1} : Forwarded(i, Event(i))[j] = queue[j]
           /\ i # Sink => Forwarded(i, Event(i))[i + 1] = Append(queue[i + 1], Event(i))
<1>1. /\ queue[i] \in Seq(Events) /\ Event(i) \in Events /\ Tail(queue[i]) \in Seq(Events)
      /\ Len(queue[i]) \in Nat /\ Len(queue[i]) > 0 /\ queue[i][1] = Event(i)
  BY HeadTailProperties, EmptySeq DEF Types, Event
<1>2. /\ Taken(i) \in [Nodes -> Seq(Events)] /\ Taken(i)[i] = Tail(queue[i])
      /\ \A j \in Nodes \ {i} : Taken(i)[j] = queue[j]
  BY <1>1 DEF Types, Taken
<1>3. CASE i = Sink
  <2>1. Forwarded(i, Event(i)) = Taken(i)
    BY <1>3 DEF Forwarded
  <2> QED
    BY <1>1, <1>2, <1>3, <2>1
<1>4. CASE i # Sink
  <2>1. i + 1 \in Nodes /\ i + 1 # i
    BY <1>4, NodeFacts
  <2>2. Append(queue[i + 1], Event(i)) \in Seq(Events)
    BY <1>1, <2>1 DEF Types
  <2>3. Forwarded(i, Event(i)) = [Taken(i) EXCEPT ![i + 1] = Append(queue[i + 1], Event(i))]
    BY <1>2, <1>4, <2>1 DEF Forwarded
  <2> QED
    BY <1>1, <1>2, <2>1, <2>2, <2>3
<1> QED
  BY <1>3, <1>4

\* What a directory that is written, or removed, changes.
LEMMA PutFacts ==
    ASSUME DOMAIN dirs = Nodes, NEW i \in Nodes, NEW e, NEW contents
    PROVE  /\ DOMAIN Put(i, e, contents) = Nodes
           /\ \A j \in Nodes \ {i} : Put(i, e, contents)[j] = dirs[j]
           /\ DOMAIN Put(i, e, contents)[i] = DOMAIN dirs[i] \cup {e}
           /\ Put(i, e, contents)[i][e] = contents
           /\ \A f \in DOMAIN dirs[i] \ {e} : Put(i, e, contents)[i][f] = dirs[i][f]
  BY DEF Put

\* The directories after a stale checkpoint is removed.
LEMMA RemovedFacts ==
    ASSUME DOMAIN dirs = Nodes, NEW i \in Nodes, NEW e
    PROVE  /\ DOMAIN Removed(i, e) = Nodes
           /\ \A j \in Nodes \ {i} : Removed(i, e)[j] = dirs[j]
           /\ DOMAIN Removed(i, e)[i] = DOMAIN dirs[i] \ {e}
           /\ \A f \in DOMAIN dirs[i] \ {e} : Removed(i, e)[i][f] = dirs[i][f]
  BY DEF Removed

\* A link only depends on these.
LEMMA LinkedUnchanged ==
    ASSUME NEW j \in 2 .. NumNodes, Linked(j),
           queue'[j] = queue[j], node'[j] = node[j], node'[j - 1] = node[j - 1],
           saving'[j] = saving[j], saving'[j - 1] = saving[j - 1],
           saving[j - 1] => Event(j - 1)' = Event(j - 1),
           \A k \in 1 .. Len(queue[j]) : queue[j][k].kind = "epoch" =>
               \A i \in 1 .. (j - 1) :
                   queue[j][k].epoch \in DOMAIN dirs[i] =>
                       /\ queue[j][k].epoch \in DOMAIN dirs'[i]
                       /\ dirs'[i][queue[j][k].epoch] = dirs[i][queue[j][k].epoch]
    PROVE  Linked(j)'
<1>1. PICK st : Path(st, queue[j]) /\ AtStart(j, st) /\ AtEnd(j, st) /\ OnDisk(j, st)
  BY DEF Linked
<1>2. Path(st, queue[j])'
  BY <1>1
<1>3. AtStart(j, st)' /\ AtEnd(j, st)'
  BY <1>1 DEF AtStart, AtEnd
<1>4. OnDisk(j, st)'
  BY <1>1 DEF OnDisk
<1> QED
  BY <1>2, <1>3, <1>4 DEF Linked

\* The epochs in the queue of node j are not beyond what its predecessor is at,
\* and before it while that one saves.
LEMMA EpochsInQueue ==
    ASSUME Types, SavesItsEpoch, NEW j \in 2 .. NumNodes, Linked(j),
           NEW k \in 1 .. Len(queue[j]), queue[j][k].kind = "epoch"
    PROVE  /\ queue[j][k].epoch \in Nat
           /\ queue[j][k].epoch <= node[j - 1].epoch
           /\ saving[j - 1] => queue[j][k].epoch < node[j - 1].epoch
<1> DEFINE n == Len(queue[j])
<1>1. PICK st : Path(st, queue[j]) /\ AtStart(j, st) /\ AtEnd(j, st) /\ OnDisk(j, st)
  BY DEF Linked
<1>2. j \in Nodes /\ j - 1 \in Nodes
  BY NodeFacts
<1>3. /\ queue[j] \in Seq(Events) /\ queue[j][k] \in Events /\ n \in Nat
      /\ k \in 0 .. n /\ k - 1 \in 0 .. n /\ n \in 0 .. n
  BY <1>2 DEF Types
<1>4. st[k - 1] \in State /\ st[k] \in State /\ st[n] \in State
  BY <1>1, <1>3 DEF Path
<1>5. Takes(st[k - 1], queue[j][k], st[k]) /\ Before(st[k], st[n])
  BY <1>1, <1>3 DEF Path
<1>6. /\ queue[j][k].epoch = st[k].epoch /\ st[k].epoch \in Nat /\ st[n].epoch \in Nat
      /\ st[k].epoch <= st[n].epoch
  <2>1. st[k].epoch = queue[j][k].epoch
    BY <1>3, <1>4, <1>5, TakesFacts
  <2> QED
    BY <1>4, <1>5, <2>1 DEF Before, State
<1>7. CASE ~ saving[j - 1]
  BY <1>1, <1>6, <1>7 DEF AtEnd
<1>8. CASE saving[j - 1]
  <2>1. Takes(st[n], Event(j - 1), node[j - 1])
    BY <1>1, <1>8 DEF AtEnd
  <2>2. Event(j - 1) \in Events /\ Event(j - 1).kind = "epoch"
    BY <1>2, <1>8, QueueFacts DEF SavesItsEpoch
  <2>3. node[j - 1].epoch \in Nat /\ st[n].epoch < node[j - 1].epoch
    BY <1>2, <1>4, <2>1, <2>2, TakesFacts DEF Types, State
  <2> QED
    BY <1>6, <2>3
<1> QED
  BY <1>7, <1>8

\* An event leads from a state to one state only.
LEMMA TakesUnique ==
    ASSUME NEW s, NEW event, NEW t, NEW u, Takes(s, event, t), Takes(s, event, u)
    PROVE  t = u
  BY DEF Takes

\* An event that a node takes brings it no further than the nodes before it.
LEMMA StepBehind ==
    ASSUME ChainInv, NEW j \in 2 .. NumNodes, Linked(j), ~ saving[j], queue[j] # <<>>,
           NEW t, Takes(node[j], Event(j), t)
    PROVE  \A i \in 1 .. (j - 1) :
               /\ Before(t, node[i])
               /\ saving[i] => t.epoch < node[i].epoch
<1> DEFINE n == Len(queue[j])
<1>1. PICK st : Path(st, queue[j]) /\ AtStart(j, st) /\ AtEnd(j, st) /\ OnDisk(j, st)
  BY DEF Linked
<1>2. j \in Nodes /\ j - 1 \in Nodes
  BY NodeFacts
<1>3. n \in Nat /\ n > 0 /\ queue[j][1] = Event(j) /\ Event(j) \in Events
  BY <1>2, QueueFacts DEF ChainInv
<1>4. /\ st[0] = node[j] /\ st[1] \in State /\ st[n] \in State
      /\ Takes(st[0], queue[j][1], st[1]) /\ Before(st[1], st[n])
  <2>1. 1 \in 1 .. n /\ 1 \in 0 .. n /\ n \in 0 .. n /\ 1 <= n /\ 1 - 1 = 0
    BY <1>3
  <2> QED
    BY <1>1, <2>1 DEF Path, AtStart
<1>5. t = st[1] /\ t \in State
  BY <1>3, <1>4, TakesUnique
<1>6. node[j - 1] \in State
  BY <1>2 DEF ChainInv, Types
<1>7. Before(t, node[j - 1]) /\ (saving[j - 1] => t.epoch < node[j - 1].epoch)
  <2>1. CASE ~ saving[j - 1]
    BY <1>1, <1>4, <1>5, <2>1 DEF AtEnd
  <2>2. CASE saving[j - 1]
    <3>1. Event(j - 1) \in Events /\ Event(j - 1).kind = "epoch"
      BY <1>2, <2>2, QueueFacts DEF ChainInv, SavesItsEpoch
    <3>2. Takes(st[n], Event(j - 1), node[j - 1])
      BY <1>1, <2>2 DEF AtEnd
    <3>3. Before(st[n], node[j - 1]) /\ st[n].epoch < node[j - 1].epoch
      BY <1>4, <3>1, <3>2, TakesFacts
    <3>4. t.epoch <= st[n].epoch /\ t.epoch \in Nat /\ st[n].epoch \in Nat
          /\ node[j - 1].epoch \in Nat
      BY <1>4, <1>5, <1>6 DEF Before, State
    <3> QED
      BY <1>4, <1>5, <1>6, <3>3, <3>4, BeforeTransitive
  <2> QED
    BY <2>1, <2>2
<1> SUFFICES ASSUME NEW i \in 1 .. (j - 1)
             PROVE  Before(t, node[i]) /\ (saving[i] => t.epoch < node[i].epoch)
  OBVIOUS
<1>8. CASE i = j - 1
  BY <1>7, <1>8
<1>9. CASE i # j - 1
  <2>1. i \in Nodes /\ i < j - 1 /\ node[i] \in State
    BY <1>2, <1>9, NodeFacts DEF ChainInv, Types, Nodes
  <2>2. Before(node[j - 1], node[i]) /\ (saving[i] => node[j - 1].epoch < node[i].epoch)
    BY <1>2, <2>1 DEF ChainInv, InOrder
  <2>3. Before(t, node[i])
    BY <1>5, <1>6, <1>7, <2>1, <2>2, BeforeTransitive
  <2>4. t.epoch <= node[j - 1].epoch /\ t.epoch \in Nat /\ node[j - 1].epoch \in Nat
        /\ node[i].epoch \in Nat
    BY <1>5, <1>6, <1>7, <2>1 DEF Before, State
  <2> QED
    BY <2>2, <2>3, <2>4
<1> QED
  BY <1>8, <1>9

\* Node j has handled the first event of its queue.
LEMMA LinkAfterTake ==
    ASSUME Types, NEW j \in 2 .. NumNodes, queue[j] # <<>>,
           NEW st, Path(st, queue[j]), AtEnd(j, st), OnDisk(j, st),
           queue'[j] = Tail(queue[j]), ~ saving'[j], st[1] = node'[j],
           node'[j - 1] = node[j - 1], saving'[j - 1] = saving[j - 1],
           saving[j - 1] => Event(j - 1)' = Event(j - 1),
           \A i \in 1 .. (j - 1) : dirs'[i] = dirs[i]
    PROVE  Linked(j)'
<1> DEFINE q == queue[j]
<1>1. PICK tl : tl = [k \in 0 .. Len(Tail(q)) |-> st[k + 1]]
  OBVIOUS
<1>2. j \in Nodes /\ j - 1 \in Nodes
  BY NodeFacts
<1>3. /\ q \in Seq(Events) /\ Len(q) \in Nat /\ Len(q) > 0 /\ Len(Tail(q)) = Len(q) - 1
      /\ \A k \in 1 .. Len(Tail(q)) : Tail(q)[k] = q[k + 1]
  BY <1>2, QueueFacts, HeadTailProperties
<1>4. Path(tl, queue[j])'
  BY <1>1, <1>3, PathTail
<1>5. AtStart(j, tl)'
  BY <1>1, <1>3 DEF AtStart
<1>6. AtEnd(j, tl)'
  <2>1. tl[Len(Tail(q))] = st[Len(q)]
    BY <1>1, <1>3
  <2> QED
    BY <2>1 DEF AtEnd
<1>7. OnDisk(j, tl)'
  <2> SUFFICES ASSUME NEW k \in 1 .. Len(Tail(q)), Tail(q)[k].kind = "epoch",
                      NEW i \in 1 .. (j - 1)
               PROVE  /\ Tail(q)[k].epoch \in DOMAIN dirs[i]
                      /\ dirs[i][Tail(q)[k].epoch] = tl[k]
    BY DEF OnDisk
  <2>1. k + 1 \in 1 .. Len(q) /\ Tail(q)[k] = q[k + 1] /\ tl[k] = st[k + 1]
    BY <1>1, <1>3
  <2> QED
    BY <2>1 DEF OnDisk
<1> QED
  BY <1>4, <1>5, <1>6, <1>7 DEF Linked

\* Node j - 1 has forwarded an event to node j.
LEMMA LinkAfterForward ==
    ASSUME Types, SavesItsEpoch, NEW j \in 2 .. NumNodes,
           NEW st, Path(st, queue[j]), AtStart(j, st), OnDisk(j, st),
           NEW event \in Events, queue'[j] = Append(queue[j], event),
           node'[j] = node[j], saving'[j] = saving[j],
           ~ saving'[j - 1], Takes(st[Len(queue[j])], event, node'[j - 1]),
           \A k \in 1 .. Len(queue[j]) : queue[j][k].kind = "epoch" =>
               \A i \in 1 .. (j - 1) :
                   queue[j][k].epoch \in DOMAIN dirs[i] =>
                       /\ queue[j][k].epoch \in DOMAIN dirs'[i]
                       /\ dirs'[i][queue[j][k].epoch] = dirs[i][queue[j][k].epoch],
           event.kind = "epoch" => \A i \in 1 .. (j - 1) :
               event.epoch \in DOMAIN dirs'[i] /\ dirs'[i][event.epoch] = node'[j - 1]
    PROVE  Linked(j)'
<1> DEFINE q == queue[j]
           r == Append(q, event)
<1>1. PICK t : t = node'[j - 1]
  OBVIOUS
<1>2. PICK ex : ex = [k \in 0 .. Len(r) |-> IF k <= Len(q) THEN st[k] ELSE t]
  OBVIOUS
<1>3. j \in Nodes /\ j - 1 \in Nodes
  BY NodeFacts
<1>4. /\ q \in Seq(Events) /\ Len(q) \in Nat /\ Len(r) = Len(q) + 1
      /\ r[Len(q) + 1] = event /\ \A k \in 1 .. Len(q) : r[k] = q[k]
  BY <1>3 DEF Types
<1>5. /\ \A k \in 0 .. Len(q) : ex[k] = st[k]
      /\ ex[Len(q) + 1] = t
  BY <1>2, <1>4
<1>6. Path(ex, queue[j])'
  <2>1. Takes(st[Len(q)], event, t)
    BY <1>1
  <2>2. Path(ex, r)
    BY <1>2, <1>4, <2>1, PathAppend
  <2> QED
    BY <2>2
<1>7. AtStart(j, ex)'
  <2>1. saving[j] => 1 \in 0 .. Len(q)
    BY <1>3, <1>4, QueueFacts DEF SavesItsEpoch
  <2> QED
    BY <1>4, <1>5, <2>1 DEF AtStart
<1>8. AtEnd(j, ex)'
  BY <1>1, <1>4, <1>5 DEF AtEnd
<1>9. OnDisk(j, ex)'
  <2> SUFFICES ASSUME NEW k \in 1 .. Len(r), r[k].kind = "epoch", NEW i \in 1 .. (j - 1)
               PROVE  r[k].epoch \in DOMAIN dirs'[i] /\ dirs'[i][r[k].epoch] = ex[k]
    BY DEF OnDisk
  <2>1. CASE k = Len(q) + 1
    BY <1>1, <1>4, <1>5, <2>1
  <2>2. CASE k # Len(q) + 1
    <3>1. k \in 1 .. Len(q) /\ r[k] = q[k] /\ ex[k] = st[k]
      BY <1>4, <1>5, <2>2
    <3> QED
      BY <3>1 DEF OnDisk
  <2> QED
    BY <2>1, <2>2
<1> QED
  BY <1>6, <1>7, <1>8, <1>9 DEF Linked

\* The other queues keep their first event.
LEMMA HeadKept ==
    ASSUME Types, SavesItsEpoch, NEW i \in Nodes, queue[i] # <<>>,
           queue' = Forwarded(i, Event(i)), NEW l \in Nodes \ {i}, saving[l]
    PROVE  Event(l)' = Event(l) /\ queue'[l] # <<>>
<1>1. queue[l] # <<>> /\ queue[l] \in Seq(Events) /\ Event(i) \in Events
  BY QueueFacts DEF SavesItsEpoch, Types
<1>2. CASE l # i + 1
  BY <1>1, <1>2, QueueFacts DEF Event
<1>3. CASE l = i + 1
  <2>1. i # Sink
    BY <1>3, NodeFacts DEF Sink
  <2>2. queue'[l] = Append(queue[l], Event(i))
    BY <1>3, <2>1, QueueFacts
  <2>3. Head(Append(queue[l], Event(i))) = Head(queue[l])
        /\ Append(queue[l], Event(i)) # <<>>
    BY <1>1, EmptySeq
  <2> QED
    BY <2>2, <2>3 DEF Event
<1> QED
  BY <1>2, <1>3

\* An element or a watermark that is not dropped.
LEMMA HandleFacts ==
    ASSUME Types, NEW i \in Nodes, HandleElement(i) \/ HandleWatermark(i)
    PROVE  /\ ~ failed /\ ~ saving[i] /\ queue[i] # <<>> /\ Event(i).kind # "epoch"
           /\ Takes(node[i], Event(i), node'[i])
           /\ node' \in [Nodes -> State] /\ \A j \in Nodes \ {i} : node'[j] = node[j]
           /\ queue' = Forwarded(i, Event(i))
           /\ UNCHANGED <<saving, dirs, crashes, failed>>
<1>1. queue[i] # <<>> /\ ~ failed /\ ~ saving[i]
  BY DEF HandleElement, HandleWatermark, Handles
<1>2. Event(i) \in Events /\ node[i] \in State
  BY <1>1, QueueFacts DEF Types
<1>3. CASE HandleElement(i)
  <2>1. Event(i).kind = "element" /\ Event(i).ts > node[i].watermark
    BY <1>2, <1>3, EventFacts DEF HandleElement, Handles, IsDropped, State
  <2>2. node' = [node EXCEPT ![i] = [node[i] EXCEPT !.seen = Append(@, Event(i).id)]]
    BY <1>3 DEF HandleElement, Types
  <2>3. Takes(node[i], Event(i), node'[i])
    BY <2>1, <2>2 DEF Takes, Types
  <2>4. node'[i] \in State
    BY <1>2, <2>3, TakesFacts
  <2>5. node' \in [Nodes -> State] /\ \A j \in Nodes \ {i} : node'[j] = node[j]
    BY <2>2, <2>4 DEF Types
  <2> QED
    BY <1>1, <1>3, <2>1, <2>3, <2>5 DEF HandleElement
<1>4. CASE HandleWatermark(i)
  <2>1. Event(i).kind = "watermark" /\ Event(i).ts > node[i].watermark
    BY <1>2, <1>4, EventFacts DEF HandleWatermark, Handles, IsDropped, State
  <2>2. node' = [node EXCEPT ![i] = [node[i] EXCEPT !.watermark = Event(i).ts]]
    BY <1>4 DEF HandleWatermark, Types
  <2>3. Takes(node[i], Event(i), node'[i])
    BY <2>1, <2>2 DEF Takes, Types
  <2>4. node'[i] \in State
    BY <1>2, <2>3, TakesFacts
  <2>5. node' \in [Nodes -> State] /\ \A j \in Nodes \ {i} : node'[j] = node[j]
    BY <2>2, <2>4 DEF Types
  <2> QED
    BY <1>1, <1>4, <2>1, <2>3, <2>5 DEF HandleWatermark
<1> QED
  BY <1>3, <1>4

\* A node that takes an event stays between its neighbours.
LEMMA OrderAfterTake ==
    ASSUME ChainInv, ~ failed, NEW i \in Nodes, ~ saving[i], queue[i] # <<>>,
           Takes(node[i], Event(i), node'[i]), node' \in [Nodes -> State],
           \A j \in Nodes \ {i} : node'[j] = node[j] /\ saving'[j] = saving[j],
           saving'[i] => node[i].epoch < node'[i].epoch
    PROVE  InOrder'
<1> SUFFICES ASSUME NEW a \in Nodes, NEW b \in Nodes, a < b
             PROVE  Before(node'[b], node'[a]) /\ (saving'[a] => node'[b].epoch < node'[a].epoch)
  BY DEF InOrder
<1>1. node \in [Nodes -> State] /\ Event(i) \in Events
  BY QueueFacts DEF ChainInv, Types
<1>2. Before(node[i], node'[i])
  BY <1>1, TakesFacts
<1>3. Before(node[b], node[a]) /\ (saving[a] => node[b].epoch < node[a].epoch)
  BY DEF ChainInv, InOrder
<1>4. CASE a = i
  <2>1. b # i /\ node'[b] = node[b] /\ node[a] \in State /\ node[b] \in State
        /\ node'[i] \in State
    BY <1>1, <1>4, NodeFacts
  <2>2. node[b].epoch <= node[i].epoch /\ node[b].epoch \in Nat /\ node[i].epoch \in Nat
        /\ node'[i].epoch \in Nat
    BY <1>3, <1>4, <2>1 DEF Before, State
  <2> QED
    BY <1>2, <1>3, <1>4, <2>1, <2>2, BeforeTransitive
<1>5. CASE b = i
  <2>1. b \in 2 .. NumNodes /\ a \in 1 .. (b - 1) /\ a # i
    BY <1>5, NodeFacts
  <2>2. Linked(b)
    BY <2>1 DEF ChainInv, Links
  <2>3. Before(node'[i], node[a]) /\ (saving[a] => node'[i].epoch < node[a].epoch)
    BY <1>5, <2>1, <2>2, StepBehind
  <2> QED
    BY <1>5, <2>1, <2>3
<1>6. CASE a # i /\ b # i
  BY <1>3, <1>6
<1> QED
  BY <1>4, <1>5, <1>6

\* Node::handle_event on an element or a watermark keeps the chain.
LEMMA HandleKeepsChain ==
    ASSUME ChainInv, NEW i \in Nodes, HandleElement(i) \/ HandleWatermark(i)
    PROVE  ChainInv'
<1>1. /\ ~ failed /\ ~ saving[i] /\ queue[i] # <<>> /\ Event(i).kind # "epoch"
      /\ Takes(node[i], Event(i), node'[i])
      /\ node' \in [Nodes -> State] /\ \A j \in Nodes \ {i} : node'[j] = node[j]
      /\ queue' = Forwarded(i, Event(i))
      /\ saving' = saving /\ dirs' = dirs /\ failed' = failed
  BY HandleFacts DEF ChainInv
<1>2. Types /\ SavesItsEpoch
  BY DEF ChainInv
<1>3. node[i] \in State /\ Event(i) \in Events /\ queue[i] \in Seq(Events)
  BY <1>1, <1>2, QueueFacts DEF Types
<1>4. Types'
  <2>1. queue' \in [Nodes -> Seq(Events)]
    BY <1>1, <1>2, QueueFacts
  <2>2. file' \in Seq(Nat) /\ sink_buffer' \in Seq(Nat)
    <3>1. CASE HandleElement(i)
      <4>1. Event(i).id \in Nat
        BY <1>3, <3>1, EventFacts DEF HandleElement, Handles
      <4>2. /\ file \in Seq(Nat) /\ sink_buffer \in Seq(Nat)
            /\ Append(file, Event(i).id) \in Seq(Nat)
            /\ Append(sink_buffer, Event(i).id) \in Seq(Nat)
        BY <1>2, <4>1 DEF Types
      <4>3. /\ file' \in {file, Append(file, Event(i).id)}
            /\ sink_buffer' \in {sink_buffer, Append(sink_buffer, Event(i).id)}
        BY <3>1, Zenon DEF HandleElement, WriteElement
      <4> QED
        BY <4>2, <4>3
    <3>2. CASE HandleWatermark(i)
      BY <1>2, <3>2 DEF HandleWatermark, Types
    <3> QED
      BY <3>1, <3>2
  <2> QED
    BY <1>1, <1>2, <2>1, <2>2 DEF Types
<1>5. SavesItsEpoch'
  <2> SUFFICES ASSUME NEW l \in Nodes, saving[l]
               PROVE  /\ queue'[l] # <<>> /\ Event(l)'.kind = "epoch"
                      /\ node'[l].epoch = Event(l)'.epoch
    BY <1>1 DEF SavesItsEpoch
  <2>1. l # i /\ Event(l)' = Event(l) /\ queue'[l] # <<>>
    BY <1>1, <1>2, HeadKept
  <2> QED
    BY <1>1, <1>2, <2>1 DEF SavesItsEpoch
<1>6. InOrder'
  BY <1>1, OrderAfterTake
<1>7. LastIsComplete'
  <2>1. node'[Sink].epoch = node[Sink].epoch
    <3>1. node'[i].epoch = node[i].epoch
      BY <1>1, <1>3, TakesFacts
    <3> QED
      BY <1>1, <3>1, NodeFacts
  <2> QED
    BY <1>1, <2>1 DEF ChainInv, LastIsComplete
<1>8. ASSUME NEW j \in 2 .. NumNodes PROVE Linked(j)'
  <2>1. PICK st : Path(st, queue[j]) /\ AtStart(j, st) /\ AtEnd(j, st) /\ OnDisk(j, st)
    BY <1>1 DEF ChainInv, Links, Linked
  <2>2. j \in Nodes /\ j - 1 \in Nodes /\ j # j - 1
    BY NodeFacts
  <2>3. \A l \in Nodes \ {i} : saving[l] => Event(l)' = Event(l)
    BY <1>1, <1>2, HeadKept
  <2>4. CASE j = i
    <3>1. queue'[j] = Tail(queue[j]) /\ Len(queue[j]) \in Nat /\ Len(queue[j]) > 0
          /\ queue[j][1] = Event(j)
      BY <1>1, <1>2, <2>4, QueueFacts
    <3>2. Takes(node[j], Event(j), st[1])
      <4>1. 1 \in 1 .. Len(queue[j]) /\ 1 - 1 = 0
        BY <3>1
      <4> QED
        BY <1>1, <2>1, <2>4, <3>1, <4>1 DEF Path, AtStart
    <3>3. st[1] = node'[j]
      BY <1>1, <2>4, <3>2, TakesUnique
    <3>4. node'[j - 1] = node[j - 1] /\ (saving[j - 1] => Event(j - 1)' = Event(j - 1))
      BY <1>1, <2>2, <2>3, <2>4
    <3> QED
      BY <1>1, <1>2, <2>1, <2>4, <3>1, <3>3, <3>4, LinkAfterTake
  <2>5. CASE j - 1 = i
    <3>1. i # Sink /\ j = i + 1
      BY <2>2, <2>5, NodeFacts DEF Sink
    <3>2. queue'[j] = Append(queue[j], Event(i)) /\ node'[j] = node[j]
      BY <1>1, <1>2, <2>2, <2>5, <3>1, QueueFacts
    <3>3. Takes(st[Len(queue[j])], Event(i), node'[j - 1])
      BY <1>1, <2>1, <2>5 DEF AtEnd
    <3> QED
      BY <1>1, <1>2, <1>3, <2>1, <2>5, <3>2, <3>3, LinkAfterForward
  <2>6. CASE j # i /\ j - 1 # i
    <3>1. j # i + 1
      BY <2>2, <2>6, NodeFacts
    <3>2. queue'[j] = queue[j]
      BY <1>1, <1>2, <2>2, <2>6, <3>1, QueueFacts
    <3>3. node'[j] = node[j] /\ node'[j - 1] = node[j - 1]
          /\ (saving[j - 1] => Event(j - 1)' = Event(j - 1))
      BY <1>1, <2>2, <2>3, <2>6
    <3>4. Linked(j)
      BY <2>1 DEF Linked
    <3> QED
      BY <1>1, <3>2, <3>3, <3>4, LinkedUnchanged
  <2> QED
    BY <2>4, <2>5, <2>6
<1> QED
  BY <1>4, <1>5, <1>6, <1>7, <1>8 DEF ChainInv, Links

\* A dropped event: only the first node drops any.
LEMMA DropKeepsChain ==
    ASSUME ChainInv, NEW i \in Nodes, DropEvent(i)
    PROVE  ChainInv'
<1>1. /\ ~ failed /\ ~ saving[i] /\ queue[i] # <<>> /\ IsDropped(i)
      /\ queue' = Taken(i)
      /\ UNCHANGED <<node, saving, dirs, file, sink_buffer, failed>>
  BY DEF DropEvent, Handles
<1>2. Types /\ SavesItsEpoch
  BY DEF ChainInv
<1>3. i = 1
  <2> SUFFICES ASSUME i # 1 PROVE FALSE
    OBVIOUS
  <2>1. i \in 2 .. NumNodes
    BY NodeFacts
  <2>2. PICK st : Path(st, queue[i]) /\ AtStart(i, st)
    BY <1>1, <2>1 DEF ChainInv, Links, Linked
  <2>3. /\ Len(queue[i]) \in Nat /\ Len(queue[i]) > 0 /\ queue[i][1] = Event(i)
        /\ Event(i) \in Events /\ node[i] \in State
    BY <1>1, <1>2, QueueFacts DEF Types
  <2>4. Takes(node[i], Event(i), st[1])
    <3>1. 1 \in 1 .. Len(queue[i]) /\ 1 - 1 = 0
      BY <2>3
    <3> QED
      BY <1>1, <2>2, <2>3, <3>1 DEF Path, AtStart
  <2>5. CASE Event(i).kind = "epoch"
    BY <1>1, <2>3, <2>4, <2>5, EventFacts DEF Takes, IsDropped, State
  <2>6. CASE Event(i).kind # "epoch"
    BY <1>1, <2>3, <2>4, <2>6, EventFacts DEF Takes, IsDropped, State
  <2> QED
    BY <2>5, <2>6
<1>4. queue' \in [Nodes -> Seq(Events)] /\ \A j \in Nodes \ {1} : queue'[j] = queue[j]
  BY <1>1, <1>2, <1>3, QueueFacts
<1>5. Types'
  BY <1>1, <1>2, <1>4 DEF Types
<1>6. \A l \in Nodes : saving[l] => l # 1 /\ Event(l)' = Event(l) /\ queue'[l] = queue[l]
  BY <1>1, <1>3, <1>4 DEF Event
<1>7. SavesItsEpoch'
  BY <1>1, <1>2, <1>6 DEF SavesItsEpoch
<1>8. InOrder' /\ LastIsComplete'
  BY <1>1 DEF ChainInv, InOrder, LastIsComplete
<1>9. ASSUME NEW j \in 2 .. NumNodes PROVE Linked(j)'
  <2>1. j \in Nodes /\ j # 1 /\ j - 1 \in Nodes
    BY NodeFacts
  <2>2. Linked(j)
    BY <1>1 DEF ChainInv, Links
  <2> QED
    BY <1>1, <1>4, <1>6, <2>1, <2>2, LinkedUnchanged
<1> QED
  BY <1>1, <1>5, <1>7, <1>8, <1>9 DEF ChainInv, Links

\* Events that arrive at the first node.
LEMMA SourceKeepsChain ==
    ASSUME ChainInv, NEW events \in Seq(Events),
           queue' = [queue EXCEPT ![1] = @ \o events],
           UNCHANGED <<node, saving, dirs, file, sink_buffer, failed>>
    PROVE  ChainInv'
<1>1. 1 \in Nodes /\ Types /\ SavesItsEpoch
  BY NodeFacts DEF ChainInv
<1>2. queue[1] \o events \in Seq(Events)
  BY <1>1, ConcatProperties DEF Types
<1>3. queue' \in [Nodes -> Seq(Events)] /\ \A j \in Nodes \ {1} : queue'[j] = queue[j]
  BY <1>1, <1>2 DEF Types
<1>4. Types'
  BY <1>1, <1>3 DEF Types
<1>5. \A l \in Nodes : saving[l] => Event(l)' = Event(l) /\ queue'[l] # <<>>
  <2> SUFFICES ASSUME NEW l \in Nodes, saving[l]
               PROVE  Event(l)' = Event(l) /\ queue'[l] # <<>>
    OBVIOUS
  <2>1. queue[l] # <<>> /\ queue[l] \in Seq(Events)
    BY <1>1 DEF SavesItsEpoch, Types
  <2>2. Head(queue[l] \o events) = Head(queue[l]) /\ queue[l] \o events # <<>>
    BY <2>1, ConcatProperties, EmptySeq, HeadTailProperties
  <2> QED
    BY <1>1, <1>3, <2>1, <2>2 DEF Event, Types
<1>6. SavesItsEpoch'
  BY <1>1, <1>5 DEF SavesItsEpoch
<1>7. InOrder' /\ LastIsComplete'
  BY DEF ChainInv, InOrder, LastIsComplete
<1>8. ASSUME ~ failed, NEW j \in 2 .. NumNodes PROVE Linked(j)'
  <2>1. j \in Nodes /\ j # 1 /\ j - 1 \in Nodes
    BY NodeFacts
  <2>2. Linked(j)
    BY <1>8 DEF ChainInv, Links
  <2> QED
    BY <1>3, <1>5, <2>1, <2>2, LinkedUnchanged
<1> QED
  BY <1>4, <1>6, <1>7, <1>8 DEF ChainInv, Links

\* A step of something else.
LEMMA ChainUnchanged ==
    ASSUME ChainInv, UNCHANGED <<queue, node, saving, dirs, file, sink_buffer, failed>>
    PROVE  ChainInv'
<1>1. queue[1] \o <<>> = queue[1] /\ queue \in [Nodes -> Seq(Events)] /\ 1 \in Nodes
  BY NodeFacts DEF ChainInv, Types
<1>2. queue' = [queue EXCEPT ![1] = @ \o <<>>]
  BY <1>1
<1> QED
  BY <1>2, EmptySeq, SourceKeepsChain

\* An epoch: the directory of node i changes for that epoch only, which is
\* beyond everything that is further down the chain.
LEMMA BeginFacts ==
    ASSUME Types, NEW i \in Nodes, BeginEpoch(i)
    PROVE  /\ ~ failed /\ ~ saving[i] /\ queue[i] # <<>>
           /\ Event(i) \in Events /\ Event(i).kind = "epoch" /\ Event(i).epoch \in Nat
           /\ Takes(node[i], Event(i), node'[i])
           /\ node' \in [Nodes -> State] /\ \A j \in Nodes \ {i} : node'[j] = node[j]
           /\ node[i].epoch < Event(i).epoch /\ node'[i].epoch = Event(i).epoch
           /\ saving' \in [Nodes -> BOOLEAN] /\ saving'[i]
           /\ \A j \in Nodes \ {i} : saving'[j] = saving[j]
           /\ dirs' \in {Removed(i, Event(i).epoch), Put(i, Event(i).epoch, None)}
           /\ UNCHANGED <<queue, crashes, failed>>
<1>1. queue[i] # <<>> /\ ~ failed /\ ~ saving[i] /\ Event(i).kind = "epoch" /\ ~ IsDropped(i)
  BY DEF BeginEpoch, Handles
<1>2. Event(i) \in Events /\ node[i] \in State /\ Event(i).epoch \in Nat
  BY <1>1, QueueFacts, EventFacts DEF Types
<1>3. Event(i).epoch > node[i].epoch
  BY <1>1, <1>2 DEF IsDropped, State
<1>4. node' = [node EXCEPT ![i] = [node[i] EXCEPT !.epoch = Event(i).epoch]]
  BY DEF BeginEpoch, Types
<1>5. node'[i] = [node[i] EXCEPT !.epoch = Event(i).epoch]
  BY <1>4 DEF Types
<1>6. Takes(node[i], Event(i), node'[i])
  BY <1>1, <1>3, <1>5 DEF Takes
<1>7. node'[i] \in State /\ node'[i].epoch = Event(i).epoch /\ node[i].epoch < Event(i).epoch
  BY <1>1, <1>2, <1>6, TakesFacts
<1>8. node' \in [Nodes -> State] /\ \A j \in Nodes \ {i} : node'[j] = node[j]
  BY <1>4, <1>7 DEF Types
<1>9. saving' \in [Nodes -> BOOLEAN] /\ saving'[i] /\ \A j \in Nodes \ {i} : saving'[j] = saving[j]
  BY DEF BeginEpoch, Types
<1>10. dirs' \in {Removed(i, Event(i).epoch), Put(i, Event(i).epoch, None)}
  BY DEF BeginEpoch
<1> QED
  BY <1>1, <1>2, <1>6, <1>7, <1>8, <1>9, <1>10 DEF BeginEpoch

\* An epoch in the queue of node j is in the directories of the nodes before it,
\* and none of them is writing it now.
LEMMA EpochsNotWritten ==
    ASSUME ChainInv, ~ failed, NEW j \in 2 .. NumNodes, NEW k \in 1 .. Len(queue[j]),
           queue[j][k].kind = "epoch", NEW i \in 1 .. (j - 1)
    PROVE  /\ queue[j][k].epoch \in Nat
           /\ queue[j][k].epoch <= node[i].epoch
           /\ saving[i] => queue[j][k].epoch < node[i].epoch
<1>1. j \in Nodes /\ j - 1 \in Nodes /\ i \in Nodes
  BY NodeFacts DEF Nodes
<1>2. /\ queue[j][k].epoch \in Nat /\ queue[j][k].epoch <= node[j - 1].epoch
      /\ saving[j - 1] => queue[j][k].epoch < node[j - 1].epoch
  BY EpochsInQueue DEF ChainInv, Links
<1>3. node[i].epoch \in Nat /\ node[j - 1].epoch \in Nat
  BY <1>1 DEF ChainInv, Types, State
<1>4. CASE i = j - 1
  BY <1>2, <1>4
<1>5. CASE i # j - 1
  <2>1. i < j - 1
    BY <1>5
  <2>2. node[j - 1].epoch <= node[i].epoch /\ (saving[i] => node[j - 1].epoch < node[i].epoch)
    BY <1>1, <2>1 DEF ChainInv, InOrder, Before
  <2> QED
    BY <1>2, <1>3, <2>2
<1> QED
  BY <1>4, <1>5

\* The epochs the last node has saved are behind a node that begins or
\* finishes one, unless it is the last.
LEMMA SavedBehind ==
    ASSUME ChainInv, NEW i \in Nodes, i # Sink, NEW e \in DOMAIN dirs[Sink]
    PROVE  /\ e \in Nat /\ e <= node[i].epoch
           /\ saving[i] => e < node[i].epoch
<1>1. Sink \in Nodes /\ i < Sink
  BY NodeFacts DEF Sink
<1>2. node[Sink].epoch \in Nat /\ node[i].epoch \in Nat /\ e \in Nat /\ e <= node[Sink].epoch
  BY <1>1 DEF ChainInv, Types, State, LastIsComplete
<1>3. node[Sink].epoch <= node[i].epoch /\ (saving[i] => node[Sink].epoch < node[i].epoch)
  BY <1>1 DEF ChainInv, InOrder, Before
<1> QED
  BY <1>2, <1>3

\* An epoch marker that starts complete_epoch keeps the chain.
LEMMA BeginKeepsChain ==
    ASSUME ChainInv, NEW i \in Nodes, BeginEpoch(i)
    PROVE  ChainInv'
<1> DEFINE e == Event(i).epoch
<1>1. /\ ~ failed /\ ~ saving[i] /\ queue[i] # <<>>
      /\ Event(i) \in Events /\ Event(i).kind = "epoch" /\ e \in Nat
      /\ Takes(node[i], Event(i), node'[i])
      /\ node' \in [Nodes -> State] /\ \A j \in Nodes \ {i} : node'[j] = node[j]
      /\ node[i].epoch < e /\ node'[i].epoch = e
      /\ saving' \in [Nodes -> BOOLEAN] /\ saving'[i]
      /\ \A j \in Nodes \ {i} : saving'[j] = saving[j]
      /\ dirs' \in {Removed(i, e), Put(i, e, None)}
      /\ queue' = queue /\ failed' = failed
  BY BeginFacts DEF ChainInv
<1>2. Types /\ SavesItsEpoch /\ node[i].epoch \in Nat
  BY DEF ChainInv, Types, State
<1>3. /\ DOMAIN dirs' = Nodes /\ \A j \in Nodes \ {i} : dirs'[j] = dirs[j]
      /\ DOMAIN dirs'[i] \subseteq DOMAIN dirs[i] \cup {e}
      /\ \A f \in DOMAIN dirs[i] \ {e} : f \in DOMAIN dirs'[i] /\ dirs'[i][f] = dirs[i][f]
      /\ e \in DOMAIN dirs'[i] => dirs'[i][e] = None
  <2>1. DOMAIN dirs = Nodes
    BY <1>2 DEF Types
  <2> HIDE DEF e
  <2>2. CASE dirs' = Removed(i, e)
    BY <2>1, <2>2, RemovedFacts
  <2>3. CASE dirs' = Put(i, e, None)
    BY <2>1, <2>3, PutFacts
  <2> QED
    BY <1>1, <2>2, <2>3
<1> HIDE DEF e
<1>4. Types'
  <2>1. file' \in Seq(Nat) /\ sink_buffer' \in Seq(Nat)
    <3>1. file \in Seq(Nat) /\ sink_buffer \in Seq(Nat) /\ file \o sink_buffer \in Seq(Nat)
          /\ <<>> \in Seq(Nat)
      BY <1>2, ConcatProperties DEF Types
    <3>2. /\ file' \in {file, file \o sink_buffer}
          /\ sink_buffer' \in {sink_buffer, <<>>}
      BY Zenon DEF BeginEpoch, CommitBuffer
    <3> QED
      BY <3>1, <3>2
  <2>2. \A j \in Nodes : \A f \in DOMAIN dirs'[j] :
          f \in Nat /\ (dirs'[j][f] # None => dirs'[j][f] \in State /\ dirs'[j][f].epoch = f)
    <3> TAKE j \in Nodes
    <3> TAKE f \in DOMAIN dirs'[j]
    <3>1. CASE j = i /\ f = e
      BY <1>1, <1>3, <3>1
    <3>2. CASE ~ (j = i /\ f = e)
      <4>1. f \in DOMAIN dirs[j] /\ dirs'[j][f] = dirs[j][f]
        BY <1>3, <3>2
      <4> QED
        BY <1>2, <4>1 DEF Types
    <3> QED
      BY <3>1, <3>2
  <2> QED
    BY <1>1, <1>2, <1>3, <2>1, <2>2 DEF Types
<1>5. SavesItsEpoch'
  BY <1>1, <1>2 DEF SavesItsEpoch, Event, e
<1>6. InOrder'
  BY <1>1, OrderAfterTake
<1>7. LastIsComplete'
  <2>1. CASE i # Sink
    <3>1. \A f \in DOMAIN dirs[Sink] : f # e
      BY <1>1, <1>2, <2>1, SavedBehind
    <3>2. dirs'[Sink] = dirs[Sink] /\ node'[Sink] = node[Sink]
      BY <1>1, <1>3, <2>1, NodeFacts
    <3>3. \A f \in DOMAIN dirs[Sink], j \in Nodes :
             f \in DOMAIN dirs'[j] /\ dirs'[j][f] = dirs[j][f]
      BY <1>3, <3>1 DEF ChainInv, LastIsComplete
    <3> QED
      BY <3>2, <3>3 DEF ChainInv, LastIsComplete
  <2>2. CASE i = Sink
    <3>1. \A j \in Nodes \ {i} : dirs'[j] = dirs[j]
      BY <1>3
    <3>2. ASSUME NEW j \in Nodes \ {i}
          PROVE  e \in DOMAIN dirs[j]
                 /\ \A l \in Nodes \ {i} : dirs[l][e] = dirs[j][e]
      <4>1. i \in 2 .. NumNodes /\ \A l \in Nodes \ {i} : l \in 1 .. (i - 1)
        BY <2>2, <3>2, NodeFacts DEF Sink
      <4>2. PICK st : OnDisk(i, st)
        BY <1>1, <4>1 DEF ChainInv, Links, Linked
      <4>3. 1 \in 1 .. Len(queue[i]) /\ queue[i][1] = Event(i)
        BY <1>1, <1>2, QueueFacts
      <4>4. \A l \in Nodes \ {i} : e \in DOMAIN dirs[l] /\ dirs[l][e] = st[1]
        BY <1>1, <4>1, <4>2, <4>3 DEF OnDisk, e
      <4> QED
        BY <4>4
    <3>3. node'[Sink].epoch = e /\ node[Sink].epoch < e /\ node[Sink].epoch \in Nat
      BY <1>1, <1>2, <2>2
    <3>4. ASSUME NEW f \in DOMAIN dirs'[Sink]
          PROVE  /\ f <= node'[Sink].epoch
                 /\ \A j \in Nodes : f \in DOMAIN dirs'[j]
                 /\ \A j, l \in Nodes :
                      (dirs'[j][f] # None /\ dirs'[l][f] # None) => dirs'[j][f] = dirs'[l][f]
      <4>1. CASE f = e
        BY <1>1, <1>3, <2>2, <3>1, <3>2, <3>3, <3>4, <4>1
      <4>2. CASE f # e
        <5>1. f \in DOMAIN dirs[Sink]
          BY <1>3, <2>2, <3>4, <4>2
        <5>2. \A j \in Nodes : f \in DOMAIN dirs'[j] /\ dirs'[j][f] = dirs[j][f]
          BY <1>3, <4>2, <5>1 DEF ChainInv, LastIsComplete
        <5>3. f <= node[Sink].epoch /\ f \in Nat
          BY <1>2, <5>1, NodeFacts DEF ChainInv, LastIsComplete, Types
        <5> QED
          BY <1>1, <3>3, <5>1, <5>2, <5>3 DEF ChainInv, LastIsComplete
      <4> QED
        BY <4>1, <4>2
    <3> QED
      BY <3>4 DEF LastIsComplete
  <2> QED
    BY <2>1, <2>2
<1>8. ASSUME NEW j \in 2 .. NumNodes PROVE Linked(j)'
  <2>1. PICK st : Path(st, queue[j]) /\ AtStart(j, st) /\ AtEnd(j, st) /\ OnDisk(j, st)
    BY <1>1 DEF ChainInv, Links, Linked
  <2>2. j \in Nodes /\ j - 1 \in Nodes /\ j # j - 1
    BY NodeFacts
  <2>3. OnDisk(j, st)'
    <3> SUFFICES ASSUME NEW k \in 1 .. Len(queue[j]), queue[j][k].kind = "epoch",
                        NEW l \in 1 .. (j - 1)
                 PROVE  /\ queue[j][k].epoch \in DOMAIN dirs'[l]
                        /\ dirs'[l][queue[j][k].epoch] = st[k]
      BY <1>1 DEF OnDisk
    <3>1. queue[j][k].epoch \in DOMAIN dirs[l] /\ dirs[l][queue[j][k].epoch] = st[k]
      BY <2>1 DEF OnDisk
    <3>2. l \in Nodes
      BY NodeFacts DEF Nodes
    <3>3. l = i => queue[j][k].epoch # e
      BY <1>1, <1>2, EpochsNotWritten
    <3> QED
      BY <1>3, <3>1, <3>2, <3>3
  <2>4. AtStart(j, st)'
    <3>1. CASE j = i
      <4>1. Len(queue[j]) \in Nat /\ Len(queue[j]) > 0 /\ queue[j][1] = Event(j)
        BY <1>1, <1>2, <3>1, QueueFacts
      <4>2. 1 \in 1 .. Len(queue[j]) /\ 1 - 1 = 0
        BY <4>1
      <4>3. Takes(node[j], Event(j), st[1])
        BY <1>1, <2>1, <3>1, <4>1, <4>2 DEF Path, AtStart
      <4>4. st[1] = node'[j]
        BY <1>1, <3>1, <4>3, TakesUnique
      <4> QED
        BY <1>1, <3>1, <4>4 DEF AtStart
    <3>2. CASE j # i
      BY <1>1, <2>1, <2>2, <3>2 DEF AtStart
    <3> QED
      BY <3>1, <3>2
  <2>5. AtEnd(j, st)'
    <3>1. CASE j - 1 = i
      <4>1. st[Len(queue[j])] = node[i]
        BY <1>1, <2>1, <3>1 DEF AtEnd
      <4> QED
        BY <1>1, <3>1, <4>1 DEF AtEnd, Event
    <3>2. CASE j - 1 # i
      BY <1>1, <2>1, <2>2, <3>2 DEF AtEnd, Event
    <3> QED
      BY <3>1, <3>2
  <2> QED
    BY <1>1, <2>1, <2>3, <2>4, <2>5 DEF Linked
<1> QED
  BY <1>1, <1>4, <1>5, <1>6, <1>7, <1>8 DEF ChainInv, Links

\* What the end of complete_epoch changes.
LEMMA FinishFacts ==
    ASSUME Types, SavesItsEpoch, NEW i \in Nodes, FinishEpoch(i)
    PROVE  /\ ~ failed /\ saving[i] /\ queue[i] # <<>>
           /\ Event(i) \in Events /\ Event(i).kind = "epoch" /\ Event(i).epoch \in Nat
           /\ node[i].epoch = Event(i).epoch
           /\ saving' \in [Nodes -> BOOLEAN] /\ ~ saving'[i]
           /\ \A j \in Nodes \ {i} : saving'[j] = saving[j]
           /\ dirs' = Put(i, Event(i).epoch, node[i])
           /\ queue' = Forwarded(i, Event(i))
           /\ UNCHANGED <<node, file, sink_buffer, crashes, failed>>
<1>1. ~ failed /\ saving[i] /\ queue[i] # <<>> /\ Event(i).kind = "epoch"
      /\ node[i].epoch = Event(i).epoch
  BY DEF FinishEpoch, SavesItsEpoch
<1>2. Event(i) \in Events /\ Event(i).epoch \in Nat
  BY <1>1, QueueFacts, EventFacts
<1>3. saving' \in [Nodes -> BOOLEAN] /\ ~ saving'[i] /\ \A j \in Nodes \ {i} : saving'[j] = saving[j]
  BY DEF FinishEpoch, Types
<1> QED
  BY <1>1, <1>2, <1>3 DEF FinishEpoch

\* The end of complete_epoch (the checkpoint is on disk and the marker goes on)
\* keeps the chain.
LEMMA FinishKeepsChain ==
    ASSUME ChainInv, NEW i \in Nodes, FinishEpoch(i)
    PROVE  ChainInv'
<1> DEFINE e == Event(i).epoch
<1>1. /\ ~ failed /\ saving[i] /\ queue[i] # <<>>
      /\ Event(i) \in Events /\ Event(i).kind = "epoch" /\ e \in Nat
      /\ node[i].epoch = e
      /\ saving' \in [Nodes -> BOOLEAN] /\ ~ saving'[i]
      /\ \A j \in Nodes \ {i} : saving'[j] = saving[j]
      /\ dirs' = Put(i, e, node[i])
      /\ queue' = Forwarded(i, Event(i))
      /\ node' = node /\ file' = file /\ sink_buffer' = sink_buffer /\ failed' = failed
  BY FinishFacts DEF ChainInv
<1>2. Types /\ SavesItsEpoch /\ node[i] \in State
  BY DEF ChainInv, Types
<1> HIDE DEF e
<1>3. /\ DOMAIN dirs' = Nodes /\ \A j \in Nodes \ {i} : dirs'[j] = dirs[j]
      /\ DOMAIN dirs'[i] = DOMAIN dirs[i] \cup {e}
      /\ \A f \in DOMAIN dirs[i] \ {e} : dirs'[i][f] = dirs[i][f]
      /\ dirs'[i][e] = node[i]
  <2>1. DOMAIN dirs = Nodes
    BY <1>2 DEF Types
  <2> QED
    BY <1>1, <2>1, PutFacts
<1>4. Types'
  <2>1. queue' \in [Nodes -> Seq(Events)]
    BY <1>1, <1>2, QueueFacts
  <2>2. \A j \in Nodes : \A f \in DOMAIN dirs'[j] :
          f \in Nat /\ (dirs'[j][f] # None => dirs'[j][f] \in State /\ dirs'[j][f].epoch = f)
    <3> TAKE j \in Nodes
    <3> TAKE f \in DOMAIN dirs'[j]
    <3>1. CASE j = i /\ f = e
      BY <1>1, <1>2, <1>3, <3>1
    <3>2. CASE ~ (j = i /\ f = e)
      <4>1. f \in DOMAIN dirs[j] /\ dirs'[j][f] = dirs[j][f]
        BY <1>3, <3>2
      <4> QED
        BY <1>2, <4>1 DEF Types
    <3> QED
      BY <3>1, <3>2
  <2> QED
    BY <1>1, <1>2, <1>3, <2>1, <2>2 DEF Types
<1>5. \A l \in Nodes \ {i} : saving[l] => Event(l)' = Event(l) /\ queue'[l] # <<>>
  BY <1>1, <1>2, HeadKept
<1>6. SavesItsEpoch'
  BY <1>1, <1>2, <1>5 DEF SavesItsEpoch
<1>7. InOrder'
  BY <1>1 DEF ChainInv, InOrder
\* The nodes before have saved the same under this epoch.
<1>8. \A l \in 1 .. (i - 1) : e \in DOMAIN dirs[l] /\ dirs[l][e] = node[i]
  <2>1. CASE i = 1
    BY <2>1
  <2>2. CASE i # 1
    <3>1. i \in 2 .. NumNodes
      BY <2>2, NodeFacts
    <3>2. PICK st : AtStart(i, st) /\ OnDisk(i, st)
      BY <1>1, <3>1 DEF ChainInv, Links, Linked
    <3>3. 1 \in 1 .. Len(queue[i]) /\ queue[i][1] = Event(i)
      BY <1>1, <1>2, QueueFacts
    <3>4. st[1] = node[i]
      BY <1>1, <3>2 DEF AtStart
    <3> QED
      BY <1>1, <3>2, <3>3, <3>4 DEF OnDisk, e
  <2> QED
    BY <2>1, <2>2
<1>9. LastIsComplete'
  <2>1. CASE i # Sink
    <3>1. \A f \in DOMAIN dirs[Sink] : f # e
      BY <1>1, <2>1, SavedBehind
    <3>2. dirs'[Sink] = dirs[Sink]
      BY <1>3, <2>1, NodeFacts
    <3>3. \A f \in DOMAIN dirs[Sink], j \in Nodes :
             f \in DOMAIN dirs'[j] /\ dirs'[j][f] = dirs[j][f]
      BY <1>3, <3>1 DEF ChainInv, LastIsComplete
    <3> QED
      BY <1>1, <3>2, <3>3 DEF ChainInv, LastIsComplete
  <2>2. CASE i = Sink
    <3>1. \A j \in Nodes : e \in DOMAIN dirs'[j] /\ dirs'[j][e] = node[i]
      <4>1. \A j \in Nodes \ {i} : j \in 1 .. (i - 1)
        BY <2>2, NodeFacts DEF Sink
      <4> QED
        BY <1>3, <1>8, <4>1
    <3>2. ASSUME NEW f \in DOMAIN dirs'[Sink], f # e
          PROVE  /\ f <= node[Sink].epoch
                 /\ \A j \in Nodes : f \in DOMAIN dirs'[j] /\ dirs'[j][f] = dirs[j][f]
                 /\ \A j, l \in Nodes :
                      (dirs[j][f] # None /\ dirs[l][f] # None) => dirs[j][f] = dirs[l][f]
      <4>1. f \in DOMAIN dirs[Sink]
        BY <1>3, <2>2, <3>2
      <4>2. \A j \in Nodes : f \in DOMAIN dirs[j]
        BY <4>1 DEF ChainInv, LastIsComplete
      <4>3. \A j \in Nodes : f \in DOMAIN dirs'[j] /\ dirs'[j][f] = dirs[j][f]
        BY <1>3, <3>2, <4>2
      <4> QED
        BY <4>1, <4>3 DEF ChainInv, LastIsComplete
    <3>3. e <= node[Sink].epoch
      BY <1>1, <2>2
    <3> QED
      BY <1>1, <3>1, <3>2, <3>3 DEF LastIsComplete
  <2> QED
    BY <2>1, <2>2
<1>10. ASSUME NEW j \in 2 .. NumNodes, NEW k \in 1 .. Len(queue[j]),
              queue[j][k].kind = "epoch", NEW l \in 1 .. (j - 1),
              queue[j][k].epoch \in DOMAIN dirs[l]
       PROVE  /\ queue[j][k].epoch \in DOMAIN dirs'[l]
              /\ dirs'[l][queue[j][k].epoch] = dirs[l][queue[j][k].epoch]
  <2>1. l \in Nodes
    BY NodeFacts DEF Nodes
  <2>2. l = i => queue[j][k].epoch # e
    BY <1>1, <1>10, EpochsNotWritten
  <2> QED
    BY <1>3, <1>10, <2>1, <2>2
<1>11. ASSUME NEW j \in 2 .. NumNodes PROVE Linked(j)'
  <2>1. PICK st : Path(st, queue[j]) /\ AtStart(j, st) /\ AtEnd(j, st) /\ OnDisk(j, st)
    BY <1>1 DEF ChainInv, Links, Linked
  <2>2. j \in Nodes /\ j - 1 \in Nodes /\ j # j - 1
    BY NodeFacts
  <2>3. CASE j = i
    <3>1. queue'[j] = Tail(queue[j])
      BY <1>1, <1>2, <2>3, QueueFacts
    <3>2. st[1] = node'[j]
      BY <1>1, <2>1, <2>3 DEF AtStart
    <3>3. /\ saving'[j - 1] = saving[j - 1]
          /\ saving[j - 1] => Event(j - 1)' = Event(j - 1)
          /\ \A l \in 1 .. (j - 1) : dirs'[l] = dirs[l]
      BY <1>1, <1>3, <1>5, <2>2, <2>3, NodeFacts DEF Nodes
    <3> QED
      BY <1>1, <1>2, <2>1, <2>3, <3>1, <3>2, <3>3, LinkAfterTake
  <2>4. CASE j - 1 = i
    <3>1. i # Sink /\ j = i + 1
      BY <2>2, <2>4, NodeFacts DEF Sink
    <3>2. queue'[j] = Append(queue[j], Event(i)) /\ saving'[j] = saving[j]
      BY <1>1, <1>2, <2>2, <2>4, <3>1, QueueFacts
    <3>3. Takes(st[Len(queue[j])], Event(i), node'[j - 1])
      BY <1>1, <2>1, <2>4 DEF AtEnd
    <3>4. \A l \in 1 .. (j - 1) : e \in DOMAIN dirs'[l] /\ dirs'[l][e] = node'[j - 1]
      <4> TAKE l \in 1 .. (j - 1)
      <4>1. CASE l = i
        BY <1>1, <1>3, <2>4, <4>1
      <4>2. CASE l # i
        <5>1. l \in 1 .. (i - 1) /\ l \in Nodes
          BY <2>4, <4>2, NodeFacts DEF Nodes
        <5> QED
          BY <1>1, <1>3, <1>8, <2>4, <4>2, <5>1
      <4> QED
        BY <4>1, <4>2
    <3> QED
      BY <1>1, <1>2, <1>10, <2>1, <2>4, <3>2, <3>3, <3>4, LinkAfterForward DEF e
  <2>5. CASE j # i /\ j - 1 # i
    <3>1. j # i + 1
      BY <2>2, <2>5, NodeFacts
    <3>2. queue'[j] = queue[j]
      BY <1>1, <1>2, <2>2, <2>5, <3>1, QueueFacts
    <3>3. /\ saving'[j] = saving[j] /\ saving'[j - 1] = saving[j - 1]
          /\ saving[j - 1] => Event(j - 1)' = Event(j - 1)
      BY <1>1, <1>5, <2>2, <2>5
    <3>4. Linked(j)
      BY <2>1 DEF Linked
    <3> QED
      BY <1>1, <1>10, <3>2, <3>3, <3>4, LinkedUnchanged
  <2> QED
    BY <2>3, <2>4, <2>5
<1> QED
  BY <1>1, <1>4, <1>6, <1>7, <1>9, <1>11 DEF ChainInv, Links

\* Every step of a node keeps the chain.
LEMMA NodeStepKeepsChain ==
    ASSUME ChainInv, NEW i \in Nodes, NodeStep(i)
    PROVE  ChainInv'
  BY DropKeepsChain, HandleKeepsChain, BeginKeepsChain, FinishKeepsChain DEF NodeStep

-----------------------------------------------------------------------------
(* A restart.                                                                *)

\* A set of numbers has a least element.
LEMMA LeastNumber ==
    ASSUME NEW D \in SUBSET Nat, D # {}
    PROVE  \E m \in D : \A d \in D : m <= d
<1> DEFINE T == {0 .. n : n \in D}
<1>1. T \subseteq FiniteSubsetsOf(Nat)
  <2>1. \A n \in D : IsFiniteSet(0 .. n) /\ 0 .. n \in SUBSET Nat
    BY FS_Interval
  <2> QED
    BY <2>1, Zenon DEF FiniteSubsetsOf
<1>2. T # {}
  OBVIOUS
<1>3. PICK X \in T : \A Y \in T : ~ (<<Y, X>> \in StrictSubsetOrdering(Nat))
  BY <1>1, <1>2, FS_StrictSubsetOrderingWellFounded, WFMin
<1>4. PICK m \in D : X = 0 .. m
  OBVIOUS
<1>5. ASSUME NEW x \in D, x < m PROVE FALSE
  <2>1. /\ 0 .. x \subseteq 0 .. m /\ m \in 0 .. m /\ m \notin 0 .. x
        /\ 0 .. x \in SUBSET Nat /\ 0 .. m \in SUBSET Nat
    BY <1>5
  <2>2. <<0 .. x, 0 .. m>> \in StrictSubsetOrdering(Nat)
    BY <2>1 DEF StrictSubsetOrdering
  <2>3. 0 .. x \in T
    OBVIOUS
  <2> QED
    BY <1>3, <1>4, <2>2, <2>3
<1>6. \A d \in D : m <= d
  BY <1>5
<1> QED
  BY <1>6

\* The greatest of a set of numbers with a bound.
LEMMA MaxOfBounded ==
    ASSUME NEW S \in SUBSET Nat, S # {}, NEW bound \in Nat, \A x \in S : x <= bound
    PROVE  Max(S) \in S /\ \A x \in S : x <= Max(S)
<1> DEFINE D == {bound - x : x \in S}
<1>1. D \in SUBSET Nat
  <2>1. \A x \in S : bound - x \in Nat
    OBVIOUS
  <2> QED
    BY <2>1
<1>2. D # {}
  <2>1. PICK x \in S : TRUE
    OBVIOUS
  <2> QED
    BY <2>1
<1>3. PICK m \in D : \A d \in D : m <= d
  <2> HIDE DEF D
  <2> QED
    BY <1>1, <1>2, LeastNumber
<1>4. PICK x \in S : m = bound - x
  OBVIOUS
<1>5. ASSUME NEW y \in S PROVE x >= y
  <2>1. bound - y \in D
    OBVIOUS
  <2>2. m <= bound - y /\ x \in Nat /\ y \in Nat
    BY <1>3, <2>1
  <2> QED
    BY <1>4, <2>2
<1>6. Max(S) \in S /\ \A y \in S : Max(S) >= y
  BY <1>5 DEF Max
<1>7. \A y \in S : y <= Max(S)
  BY <1>6
<1> QED
  BY <1>6, <1>7

\* All nodes start from the same state, and no directory of the last node is
\* beyond it.
LEMMA RestoredFacts ==
    ASSUME ChainInv, \A i \in Nodes : Restored(i) # None
    PROVE  \E s \in State :
             /\ \A i \in Nodes : Restored(i) = s
             /\ \A e \in DOMAIN dirs[Sink] : e <= s.epoch
             /\ \/ s = NewNode
                \/ \E e \in DOMAIN dirs[Sink] : dirs[Sink][e] # None
                     /\ \A i \in Nodes : e \in DOMAIN dirs[i] /\ dirs[i][e] = s
<1>1. Complete = DOMAIN dirs[Sink]
  BY DEF ChainInv, LastIsComplete, Complete
<1>2. CASE Complete = {}
  <2>1. NewNode \in State
    BY EmptySeq DEF NewNode, State
  <2> QED
    BY <1>1, <1>2, <2>1 DEF Restored
<1>3. CASE Complete # {}
  <2> DEFINE e == Max(Complete)
  <2>1. /\ Sink \in Nodes /\ node[Sink].epoch \in Nat
        /\ Complete \in SUBSET Nat /\ \A f \in Complete : f <= node[Sink].epoch
    BY <1>1, NodeFacts DEF ChainInv, Types, State, LastIsComplete
  <2>2. e \in Complete /\ \A f \in Complete : f <= e
    BY <1>3, <2>1, MaxOfBounded
  <2> HIDE DEF e
  <2>3. \A i \in Nodes : Restored(i) = dirs[i][e] /\ e \in DOMAIN dirs[i]
    BY <1>3, <2>2 DEF Restored, LastComplete, Complete, e
  <2>4. \A i \in Nodes : dirs[i][e] = dirs[Sink][e]
    BY <1>1, <2>1, <2>2, <2>3 DEF ChainInv, LastIsComplete
  <2>5. dirs[Sink][e] # None /\ dirs[Sink][e] \in State /\ dirs[Sink][e].epoch = e
    BY <2>1, <2>3 DEF ChainInv, Types
  <2> QED
    BY <1>1, <2>2, <2>3, <2>4, <2>5
<1> QED
  BY <1>2, <1>3

\* A crash and the restore that follows keep the chain: the nodes go back to
\* checkpoints of one epoch, and the queues between them are empty.
LEMMA RestartKeepsChain ==
    ASSUME ChainInv, RestartNodes
    PROVE  ChainInv'
<1>1. /\ queue' = [i \in Nodes |-> <<>>] /\ saving' = [i \in Nodes |-> FALSE]
      /\ sink_buffer' = <<>> /\ dirs' = dirs /\ file' = file /\ ~ failed
  BY DEF RestartNodes
<1>2. Types
  BY DEF ChainInv
<1>3. queue' \in [Nodes -> Seq(Events)] /\ saving' \in [Nodes -> BOOLEAN] /\ sink_buffer' \in Seq(Nat)
  BY <1>1, EmptySeq
<1>4. SavesItsEpoch'
  BY <1>1 DEF SavesItsEpoch
<1>5. CASE \E i \in Nodes : Restored(i) = None
  <2>1. failed' = TRUE /\ node' = node
    BY <1>5 DEF RestartNodes
  <2>2. Types'
    BY <1>1, <1>2, <1>3, <2>1 DEF Types
  <2>3. InOrder' /\ LastIsComplete'
    BY <1>1, <2>1 DEF ChainInv, InOrder, LastIsComplete
  <2> QED
    BY <1>4, <2>1, <2>2, <2>3 DEF ChainInv, Links
<1>6. CASE \A i \in Nodes : Restored(i) # None
  <2>1. node' = [i \in Nodes |-> Restored(i)] /\ failed' = failed
    BY <1>6 DEF RestartNodes
  <2>2. PICK s \in State : /\ \A i \in Nodes : Restored(i) = s
                           /\ \A e \in DOMAIN dirs[Sink] : e <= s.epoch
    BY <1>6, RestoredFacts
  <2>3. node' \in [Nodes -> State] /\ \A i \in Nodes : node'[i] = s
    BY <2>1, <2>2
  <2>4. Types'
    BY <1>1, <1>2, <1>3, <2>1, <2>3 DEF Types
  <2>5. InOrder'
    BY <1>1, <2>3, BeforeReflexive DEF InOrder
  <2>6. LastIsComplete'
    BY <1>1, <2>2, <2>3, NodeFacts DEF ChainInv, LastIsComplete
  <2>7. ASSUME NEW j \in 2 .. NumNodes PROVE Linked(j)'
    <3>1. j \in Nodes /\ j - 1 \in Nodes
      BY NodeFacts
    <3>2. PICK st : st = [k \in 0 .. Len(<<>>) |-> s]
      OBVIOUS
    <3>3. queue'[j] = <<>> /\ ~ saving'[j] /\ ~ saving'[j - 1] /\ Len(<<>>) = 0
      BY <1>1, <3>1
    <3>4. Path(st, queue[j])'
      BY <3>2, <3>3, PathEmpty
    <3>5. st[0] = s
      BY <3>2, <3>3
    <3>6. AtStart(j, st)' /\ AtEnd(j, st)' /\ OnDisk(j, st)'
      BY <2>3, <3>1, <3>3, <3>5 DEF AtStart, AtEnd, OnDisk
    <3> QED
      BY <3>4, <3>6 DEF Linked
  <2> QED
    BY <1>4, <2>4, <2>5, <2>6, <2>7 DEF ChainInv, Links
<1> QED
  BY <1>5, <1>6

\* The chain before the first event.
LEMMA InitChain == NodesInit => ChainInv
<1> SUFFICES ASSUME NodesInit PROVE ChainInv
  OBVIOUS
<1>1. NewNode \in State
  BY EmptySeq DEF NewNode, State
<1>2. \A i \in Nodes : node[i] = NewNode /\ queue[i] = <<>> /\ ~ saving[i] /\ dirs[i] = <<>>
  BY DEF NodesInit
<1>3. Types
  <2>1. queue \in [Nodes -> Seq(Events)] /\ file \in Seq(Nat) /\ sink_buffer \in Seq(Nat)
    BY EmptySeq DEF NodesInit
  <2>2. node \in [Nodes -> State] /\ saving \in [Nodes -> BOOLEAN]
    BY <1>1 DEF NodesInit
  <2>3. DOMAIN dirs = Nodes /\ \A i \in Nodes : DOMAIN dirs[i] = {}
    BY DEF NodesInit
  <2>4. failed \in BOOLEAN
    BY DEF NodesInit
  <2> QED
    BY <2>1, <2>2, <2>3, <2>4 DEF Types
<1>4. SavesItsEpoch /\ InOrder
  BY <1>1, <1>2, BeforeReflexive DEF SavesItsEpoch, InOrder
<1>5. LastIsComplete
  BY <1>2, NodeFacts DEF LastIsComplete
<1>6. ASSUME NEW j \in 2 .. NumNodes PROVE Linked(j)
  <2>1. j \in Nodes /\ j - 1 \in Nodes
    BY NodeFacts
  <2>2. PICK st : st = [k \in 0 .. Len(<<>>) |-> NewNode]
    OBVIOUS
  <2>3. Path(st, queue[j])
    BY <1>1, <1>2, <2>1, <2>2, PathEmpty
  <2>4. st[0] = NewNode
    BY <2>2
  <2>5. AtStart(j, st) /\ AtEnd(j, st) /\ OnDisk(j, st)
    BY <1>2, <2>1, <2>4 DEF AtStart, AtEnd, OnDisk
  <2> QED
    BY <2>3, <2>5 DEF Linked
<1> QED
  BY <1>3, <1>4, <1>5, <1>6 DEF ChainInv, Links

-----------------------------------------------------------------------------
(* What the sink has written.                                                *)

\* What a sequence holds after one more entry,
LEMMA ContainsAppend ==
    ASSUME NEW s \in Seq(Nat), NEW y \in Nat
    PROVE  /\ Contains(Append(s, y), y)
           /\ \A x : Contains(s, x) => Contains(Append(s, y), x)
<1>1. /\ Append(s, y) \in Seq(Nat) /\ Len(Append(s, y)) = Len(s) + 1
      /\ Append(s, y)[Len(s) + 1] = y /\ \A k \in 1 .. Len(s) : Append(s, y)[k] = s[k]
  OBVIOUS
<1> QED
  BY <1>1 DEF Contains

\* and after several.
LEMMA ContainsConcat ==
    ASSUME NEW s \in Seq(Nat), NEW t \in Seq(Nat)
    PROVE  \A x : (Contains(s, x) \/ Contains(t, x)) => Contains(s \o t, x)
<1>1. /\ Len(s \o t) = Len(s) + Len(t) /\ Len(s) \in Nat /\ Len(t) \in Nat
      /\ \A k \in 1 .. Len(s) : (s \o t)[k] = s[k]
      /\ \A k \in 1 .. Len(t) : (s \o t)[Len(s) + k] = t[k]
  OBVIOUS
<1>2. ASSUME NEW x, Contains(s, x) PROVE Contains(s \o t, x)
  BY <1>1, <1>2 DEF Contains
<1>3. ASSUME NEW x, Contains(t, x) PROVE Contains(s \o t, x)
  <2>1. PICK k \in 1 .. Len(t) : t[k] = x
    BY <1>3 DEF Contains
  <2>2. Len(s) + k \in 1 .. Len(s \o t) /\ (s \o t)[Len(s) + k] = x
    BY <1>1, <2>1
  <2> QED
    BY <2>2 DEF Contains
<1> QED
  BY <1>2, <1>3

\* Nothing that matters to the sink's file changes.
LEMMA WrittenUnchanged ==
    ASSUME Written, node'[Sink].seen = node[Sink].seen, dirs'[Sink] = dirs[Sink],
           saving'[Sink] = saving[Sink], UNCHANGED <<file, sink_buffer, failed>>
    PROVE  Written'
<1>1. \A x : Kept(x) => Kept(x)'
  BY DEF Kept
<1> QED
  BY <1>1 DEF Written

\* The steps of the nodes before the last.
LEMMA OtherStepKeepsWritten ==
    ASSUME ChainInv, Written, NEW i \in Nodes, i # Sink, NodeStep(i)
    PROVE  Written'
<1>1. Types /\ SavesItsEpoch /\ Sink \in Nodes \ {i}
  BY NodeFacts DEF ChainInv
<1>2. UNCHANGED <<file, sink_buffer, failed>>
  BY DEF NodeStep, DropEvent, HandleElement, HandleWatermark, BeginEpoch, FinishEpoch
<1>3. node'[Sink] = node[Sink] /\ dirs'[Sink] = dirs[Sink] /\ saving'[Sink] = saving[Sink]
  <2>1. CASE DropEvent(i)
    BY <2>1 DEF DropEvent
  <2>2. CASE HandleElement(i) \/ HandleWatermark(i)
    BY <1>1, <2>2, HandleFacts
  <2>3. CASE BeginEpoch(i)
    <3>1. /\ node'[Sink] = node[Sink] /\ saving'[Sink] = saving[Sink]
          /\ dirs' \in {Removed(i, Event(i).epoch), Put(i, Event(i).epoch, None)}
      BY <1>1, <2>3, BeginFacts
    <3>2. dirs'[Sink] = dirs[Sink]
      BY <1>1, <3>1, PutFacts, RemovedFacts DEF Types
    <3> QED
      BY <3>1, <3>2
  <2>4. CASE FinishEpoch(i)
    <3>1. node' = node /\ saving'[Sink] = saving[Sink] /\ dirs' = Put(i, Event(i).epoch, node[i])
      BY <1>1, <2>4, FinishFacts
    <3> QED
      BY <1>1, <3>1, PutFacts DEF Types
  <2> QED
    BY <2>1, <2>2, <2>3, <2>4 DEF NodeStep
<1> QED
  BY <1>2, <1>3, WrittenUnchanged

\* The sink writes or buffers the element it has seen.
LEMMA SinkElementKeepsWritten ==
    ASSUME ChainInv, Written, HandleElement(Sink)
    PROVE  Written'
<1>1. Types /\ Sink \in Nodes /\ node[Sink].seen \in Seq(Nat)
  BY NodeFacts DEF ChainInv, Types, State
<1>2. PICK id : id = Event(Sink).id
  OBVIOUS
<1>3. /\ ~ failed /\ ~ saving[Sink] /\ UNCHANGED <<saving, dirs, failed>>
      /\ WriteElement(id) /\ queue[Sink] # <<>> /\ Event(Sink).kind = "element"
  BY <1>2 DEF HandleElement, Handles
<1>4. id \in Nat
  BY <1>1, <1>2, <1>3, QueueFacts, EventFacts
<1>5. PICK new \in Seq(Nat) : new = Append(node[Sink].seen, id)
  <2>1. Append(node[Sink].seen, id) \in Seq(Nat)
    BY <1>1, <1>4
  <2> QED
    BY <2>1
<1>6. node'[Sink].seen = new
  <2>1. node' = [node EXCEPT ![Sink].seen = new]
    BY <1>2, <1>5 DEF HandleElement
  <2> QED
    BY <1>1, <2>1 DEF Types, State
<1>7. file \in Seq(Nat) /\ sink_buffer \in Seq(Nat) /\ ~ saving'[Sink]
  BY <1>1, <1>3 DEF Types
<1>8. /\ \A x : Contains(file, x) => Contains(file', x)
      /\ \A x : Contains(sink_buffer, x) => Contains(sink_buffer', x)
      /\ Contains(file', id) \/ Contains(sink_buffer', id)
  <2>1. CASE SinkKind = "file"
    <3>1. file' = Append(file, id) /\ sink_buffer' = sink_buffer
      BY <1>3, <2>1 DEF WriteElement
    <3> QED
      BY <1>4, <1>7, <3>1, ContainsAppend
  <2>2. CASE SinkKind # "file"
    <3>1. sink_buffer' = Append(sink_buffer, id) /\ file' = file
      BY <1>3, <2>2 DEF WriteElement
    <3> QED
      BY <1>4, <1>7, <3>1, ContainsAppend
  <2> QED
    BY <2>1, <2>2
<1>9. Kept(id)' /\ \A x : Kept(x) => Kept(x)'
  BY <1>3, <1>7, <1>8 DEF Kept
<1>10. ASSUME NEW k \in DOMAIN new PROVE Kept(new[k])'
  <2>1. k \in 1 .. Len(node[Sink].seen) \/ new[k] = id
    BY <1>1, <1>4, <1>5
  <2>2. CASE new[k] = id
    BY <1>9, <2>2
  <2>3. CASE k \in 1 .. Len(node[Sink].seen)
    <3>1. new[k] = node[Sink].seen[k] /\ k \in DOMAIN node[Sink].seen
      BY <1>1, <1>4, <1>5, <2>3
    <3>2. Kept(new[k])
      BY <1>3, <3>1 DEF Written
    <3> QED
      BY <1>9, <3>2
  <2> QED
    BY <2>1, <2>2, <2>3
<1> QED
  BY <1>3, <1>6, <1>8, <1>10 DEF Written

\* handle_epoch of the sink comes before save_state of its node.
LEMMA SinkBeginKeepsWritten ==
    ASSUME ChainInv, Written, BeginEpoch(Sink)
    PROVE  Written'
<1>1. Types /\ Sink \in Nodes
  BY NodeFacts DEF ChainInv
<1>2. /\ ~ failed /\ ~ saving[Sink] /\ failed' = failed /\ Event(Sink).kind = "epoch"
      /\ Takes(node[Sink], Event(Sink), node'[Sink]) /\ node[Sink] \in State
      /\ dirs' \in {Removed(Sink, Event(Sink).epoch), Put(Sink, Event(Sink).epoch, None)}
  BY <1>1, BeginFacts DEF Types
<1>3. node'[Sink].seen = node[Sink].seen
  BY <1>2 DEF Takes, State
<1>4. file' = file \o sink_buffer /\ file \in Seq(Nat) /\ sink_buffer \in Seq(Nat)
  BY <1>1 DEF BeginEpoch, CommitBuffer, Types
<1>5. \A x : Contains(file, x) \/ Contains(sink_buffer, x) => Contains(file', x)
  BY <1>4, ContainsConcat
<1>6. \A x : Kept(x) => Kept(x)'
  BY <1>5 DEF Kept
<1>7. ASSUME NEW f \in DOMAIN dirs'[Sink], dirs'[Sink][f] # None
      PROVE  f \in DOMAIN dirs[Sink] /\ dirs'[Sink][f] = dirs[Sink][f]
  BY <1>1, <1>2, <1>7, PutFacts, RemovedFacts DEF Types
<1>8. ASSUME NEW f \in DOMAIN dirs'[Sink], dirs'[Sink][f] # None,
             NEW k \in DOMAIN dirs'[Sink][f].seen
      PROVE  Contains(file', dirs'[Sink][f].seen[k])
  BY <1>5, <1>7, <1>8 DEF Written
<1>9. PICK seen : seen = node[Sink].seen
  OBVIOUS
<1>10. \A k \in DOMAIN seen : Kept(seen[k])'
  BY <1>2, <1>6, <1>9 DEF Written
<1> QED
  BY <1>3, <1>8, <1>9, <1>10 DEF Written

\* The sink writes an epoch before it saves it.
LEMMA SinkFinishKeepsWritten ==
    ASSUME ChainInv, Written, FinishEpoch(Sink)
    PROVE  Written'
<1>1. Types /\ SavesItsEpoch /\ Sink \in Nodes
  BY NodeFacts DEF ChainInv
<1>2. /\ ~ failed /\ saving[Sink] /\ UNCHANGED <<node, file, sink_buffer, failed>>
      /\ dirs' = Put(Sink, Event(Sink).epoch, node[Sink])
  BY <1>1, FinishFacts
<1>3. \A k \in DOMAIN node[Sink].seen : Contains(file, node[Sink].seen[k])
  BY <1>2 DEF Written, Kept
<1>4. ASSUME NEW f \in DOMAIN dirs'[Sink]
      PROVE  \/ dirs'[Sink][f] = node[Sink]
             \/ f \in DOMAIN dirs[Sink] /\ dirs'[Sink][f] = dirs[Sink][f]
  BY <1>1, <1>2, PutFacts DEF Types
<1>5. ASSUME NEW f \in DOMAIN dirs'[Sink], dirs'[Sink][f] # None,
             NEW k \in DOMAIN dirs'[Sink][f].seen
      PROVE  Contains(file', dirs'[Sink][f].seen[k])
  BY <1>2, <1>3, <1>4, <1>5 DEF Written
<1>6. PICK seen : seen = node[Sink].seen
  OBVIOUS
<1>7. \A k \in DOMAIN seen : Kept(seen[k])'
  BY <1>2, <1>3, <1>6 DEF Kept
<1> QED
  BY <1>2, <1>5, <1>6, <1>7 DEF Written

\* Every step of a node keeps what the sink has written.
LEMMA NodeStepKeepsWritten ==
    ASSUME ChainInv, Written, NEW i \in Nodes, NodeStep(i)
    PROVE  Written'
<1>1. CASE i # Sink
  BY <1>1, OtherStepKeepsWritten
<1>2. CASE i = Sink
  <2>1. CASE DropEvent(Sink)
    BY <2>1, WrittenUnchanged DEF DropEvent
  <2>2. CASE HandleWatermark(Sink)
    <3>1. /\ UNCHANGED <<saving, dirs, file, sink_buffer, failed>>
          /\ node' = [node EXCEPT ![Sink].watermark = Event(Sink).ts]
      BY <2>2 DEF HandleWatermark
    <3>2. node'[Sink].seen = node[Sink].seen
      BY <3>1, NodeFacts DEF ChainInv, Types, State
    <3> QED
      BY <3>1, <3>2, WrittenUnchanged
  <2> QED
    BY <1>2, <2>1, <2>2, SinkElementKeepsWritten, SinkBeginKeepsWritten, SinkFinishKeepsWritten
       DEF NodeStep
<1> QED
  BY <1>1, <1>2

\* A checkpoint that is restored has only elements that are written; nothing
\* else is left of the nodes' states.
LEMMA RestartKeepsWritten ==
    ASSUME ChainInv, Written, RestartNodes
    PROVE  Written'
<1>1. dirs' = dirs /\ file' = file /\ Sink \in Nodes
  BY NodeFacts DEF RestartNodes
<1>2. CASE \E i \in Nodes : Restored(i) = None
  <2>1. failed' = TRUE
    BY <1>2 DEF RestartNodes
  <2> QED
    BY <1>1, <2>1 DEF Written
<1>3. CASE \A i \in Nodes : Restored(i) # None
  <2>1. PICK s \in State : /\ \A i \in Nodes : Restored(i) = s
                           /\ \/ s = NewNode
                              \/ \E e \in DOMAIN dirs[Sink] : dirs[Sink][e] # None
                                   /\ dirs[Sink][e] = s
    BY <1>1, <1>3, RestoredFacts
  <2>2. node'[Sink] = s
    BY <1>1, <1>3, <2>1 DEF RestartNodes
  <2>3. \A k \in DOMAIN s.seen : Contains(file, s.seen[k])
    <3>1. CASE s = NewNode
      BY <3>1 DEF NewNode
    <3> QED
      BY <2>1, <3>1 DEF Written
  <2> QED
    BY <1>1, <2>2, <2>3 DEF Written, Kept
<1> QED
  BY <1>2, <1>3

\* Nothing is saved and nothing is written at the start.
LEMMA InitWritten == NodesInit => Written
  BY NodeFacts DEF NodesInit, NewNode, Written

-----------------------------------------------------------------------------
(* What the properties say.                                                  *)

\* The chain invariant says that the checkpoints fit together.
LEMMA ChainFitsTogether == ChainInv => CheckpointsFitTogether
  BY DEF ChainInv, LastIsComplete, Complete, CheckpointsFitTogether

\* Written says that a saved epoch is written.
LEMMA WrittenIsSaved == Written => SavedEpochsAreWritten
  BY DEF Written, Complete, SavedEpochsAreWritten

-----------------------------------------------------------------------------
(* What a step of a node means for the first one, which the source feeds.    *)

Dropped(s, event) ==
    IF event.kind = "epoch" THEN event.epoch <= s.epoch ELSE event.ts <= s.watermark

FirstIdle == queue'[1] = queue[1] /\ node'[1] = node[1] /\ saving'[1] = saving[1]
FirstDrops ==
    /\ ~ failed /\ ~ saving[1] /\ queue[1] # <<>> /\ Dropped(node[1], Event(1))
    /\ queue'[1] = Tail(queue[1]) /\ node'[1] = node[1] /\ ~ saving'[1]
FirstHandles ==
    /\ ~ failed /\ ~ saving[1] /\ queue[1] # <<>> /\ Event(1).kind # "epoch"
    /\ Takes(node[1], Event(1), node'[1])
    /\ queue'[1] = Tail(queue[1]) /\ ~ saving'[1]
FirstBegins ==
    /\ ~ failed /\ ~ saving[1] /\ queue[1] # <<>> /\ Event(1).kind = "epoch"
    /\ Takes(node[1], Event(1), node'[1])
    /\ queue'[1] = queue[1] /\ saving'[1]
FirstFinishes ==
    /\ ~ failed /\ saving[1] /\ queue[1] # <<>>
    /\ queue'[1] = Tail(queue[1]) /\ node'[1] = node[1] /\ ~ saving'[1]
    /\ Event(1).epoch \in DOMAIN dirs'[1] /\ dirs'[1][Event(1).epoch] = node[1]

\* Directories stay as they are, lose their contents, or get the state of the node.
FirstDirs ==
    \A e \in DOMAIN dirs'[1] :
        \/ dirs'[1][e] = None
        \/ e \in DOMAIN dirs[1] /\ dirs'[1][e] = dirs[1][e]
        \/ FirstFinishes /\ e = Event(1).epoch /\ dirs'[1][e] = node[1]

\* A step of any node is one of these for the first node.
LEMMA FirstNodeStep ==
    ASSUME ChainInv, NEW i \in Nodes, NodeStep(i)
    PROVE  /\ FirstIdle \/ FirstDrops \/ FirstHandles \/ FirstBegins \/ FirstFinishes
           /\ FirstDirs
           /\ failed' = failed
<1>1. Types /\ SavesItsEpoch /\ 1 \in Nodes /\ i + 1 # 1 /\ DOMAIN dirs = Nodes
  BY NodeFacts DEF ChainInv, Types
<1>2. CASE DropEvent(i)
  <2>1. /\ queue[i] # <<>> /\ queue' = Taken(i) /\ ~ failed /\ ~ saving[i]
        /\ Dropped(node[i], Event(i))
        /\ UNCHANGED <<node, saving, dirs, failed>>
    BY <1>2 DEF DropEvent, Handles, IsDropped, Dropped
  <2>2. CASE i # 1
    <3>1. queue'[1] = queue[1]
      BY <1>1, <2>1, <2>2, QueueFacts
    <3> QED
      BY <2>1, <3>1 DEF FirstIdle, FirstDirs
  <2>3. CASE i = 1
    <3>1. queue'[1] = Tail(queue[1])
      BY <1>1, <2>1, <2>3, QueueFacts
    <3> QED
      BY <2>1, <2>3, <3>1 DEF FirstDrops, FirstDirs
  <2> QED
    BY <2>2, <2>3
<1>3. CASE HandleElement(i) \/ HandleWatermark(i)
  <2>1. /\ ~ failed /\ ~ saving[i] /\ queue[i] # <<>> /\ Event(i).kind # "epoch"
        /\ Takes(node[i], Event(i), node'[i])
        /\ \A j \in Nodes \ {i} : node'[j] = node[j]
        /\ queue' = Forwarded(i, Event(i))
        /\ UNCHANGED <<saving, dirs, failed>>
    BY <1>1, <1>3, HandleFacts
  <2>2. CASE i # 1
    <3>1. queue'[1] = queue[1] /\ node'[1] = node[1]
      BY <1>1, <2>1, <2>2, QueueFacts
    <3> QED
      BY <2>1, <3>1 DEF FirstIdle, FirstDirs
  <2>3. CASE i = 1
    <3>1. queue'[1] = Tail(queue[1])
      BY <1>1, <2>1, <2>3, QueueFacts
    <3> QED
      BY <2>1, <2>3, <3>1 DEF FirstHandles, FirstDirs
  <2> QED
    BY <2>2, <2>3
<1>4. CASE BeginEpoch(i)
  <2>1. /\ ~ failed /\ ~ saving[i] /\ queue[i] # <<>> /\ Event(i).kind = "epoch"
        /\ Takes(node[i], Event(i), node'[i])
        /\ \A j \in Nodes \ {i} : node'[j] = node[j] /\ saving'[j] = saving[j]
        /\ saving'[i]
        /\ dirs' \in {Removed(i, Event(i).epoch), Put(i, Event(i).epoch, None)}
        /\ UNCHANGED <<queue, failed>>
    BY <1>1, <1>4, BeginFacts
  <2>2. CASE i # 1
    <3>1. dirs'[1] = dirs[1]
      BY <1>1, <2>1, <2>2, PutFacts, RemovedFacts
    <3> QED
      BY <1>1, <2>1, <2>2, <3>1 DEF FirstIdle, FirstDirs
  <2>3. CASE i = 1
    <3>1. FirstDirs
      BY <1>1, <2>1, <2>3, PutFacts, RemovedFacts DEF FirstDirs
    <3> QED
      BY <2>1, <2>3, <3>1 DEF FirstBegins
  <2> QED
    BY <2>2, <2>3
<1>5. CASE FinishEpoch(i)
  <2>1. /\ ~ failed /\ saving[i] /\ queue[i] # <<>> /\ ~ saving'[i]
        /\ \A j \in Nodes \ {i} : saving'[j] = saving[j]
        /\ dirs' = Put(i, Event(i).epoch, node[i])
        /\ queue' = Forwarded(i, Event(i)) /\ UNCHANGED <<node, failed>>
    BY <1>1, <1>5, FinishFacts
  <2>2. CASE i # 1
    <3>1. dirs'[1] = dirs[1] /\ queue'[1] = queue[1]
      BY <1>1, <2>1, <2>2, PutFacts, QueueFacts
    <3> QED
      BY <1>1, <2>1, <2>2, <3>1 DEF FirstIdle, FirstDirs
  <2>3. CASE i = 1
    <3>1. queue'[1] = Tail(queue[1])
      BY <1>1, <2>1, <2>3, QueueFacts
    <3>2. FirstFinishes
      BY <1>1, <2>1, <2>3, <3>1, PutFacts DEF FirstFinishes
    <3>3. FirstDirs
      BY <1>1, <2>1, <2>3, <3>2, PutFacts DEF FirstDirs
    <3> QED
      BY <2>1, <3>2, <3>3
  <2> QED
    BY <2>2, <2>3
<1> QED
  BY <1>2, <1>3, <1>4, <1>5 DEF NodeStep
=============================================================================
