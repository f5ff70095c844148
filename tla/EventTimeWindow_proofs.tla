----------------------- MODULE EventTimeWindow_proofs -----------------------
(* Proofs about EventTimer and EventTimeWindow, for all windows, timestamps   *)
(* and bounds, and every way the wheel may skip.                              *)
EXTENDS EventTimeWindow, FiniteSetTheorems, SequenceTheorems, TLAPS

(****************************************************************************)
(* The inductive invariant.                                                 *)
(****************************************************************************)

Keys == ElementKeys \cup {0}
WindowEvents == [key : Keys, index : Nat, timestamp : Nat]
TimerEvents == [time_when_scheduled : Nat, timeout_millis : Nat, payload : WindowEvents]
WindowOf(event) == <<event.key, event.index>>

\* The timeouts of the backend, and the wheel that agrees with them.
Kept(entries) ==
    DOMAIN entries \subseteq Ids /\ \A id \in DOMAIN entries : entries[id] \in TimerEvents
Wheel(wheel, entries, now) ==
    /\ wheel \in [DOMAIN entries -> Nat]
    /\ \A id \in DOMAIN wheel : wheel[id] > 0 /\ now + wheel[id] = Due(entries[id])

\* A call of advance_to has returned all that was due until now, in order, and
\* the rest of what it is to return is still pending.
Advances ==
    [time_left : Nat, ahead : Nat, res : Seq(TimerEvents), ts : Nat, due : SUBSET Ids]
DueBy(entries, ts) == {id \in DOMAIN entries : Due(entries[id]) <= ts}
InDueOrder(res) == \A i, j \in DOMAIN res : i < j => Due(res[i]) <= Due(res[j])
Collected(call, entries, now) ==
    /\ call \in Advances
    /\ call.ts = now + call.time_left + call.ahead
    /\ \A i \in DOMAIN call.res : Due(call.res[i]) <= now
    /\ InDueOrder(call.res)
    /\ Len(call.res) + Cardinality(DueBy(entries, call.ts)) = Cardinality(call.due)

\* Each open window has one trigger: in the backend, or among the events that
\* the timer has handed over and that are not handled yet.
Matched(windows, entries, events) ==
    /\ \A id, jd \in DOMAIN entries :
         WindowOf(entries[id].payload) = WindowOf(entries[jd].payload) => id = jd
    /\ \A i, j \in DOMAIN events : WindowOf(events[i]) = WindowOf(events[j]) => i = j
    /\ \A id \in DOMAIN entries, i \in DOMAIN events :
         WindowOf(entries[id].payload) # WindowOf(events[i])
    /\ windows = {WindowOf(entries[id].payload) : id \in DOMAIN entries}
                    \cup {WindowOf(events[i]) : i \in DOMAIN events}
Held ==
    IF pc = "advance" THEN Payloads(advance.res)
    ELSE IF pc = "timeouts" THEN todo ELSE <<>>

\* Without late_arrival_time a window ends when its trigger is due, and all that
\* is still to be closed ends after the watermark that was forwarded last.
Timely(entries, events, mark) ==
    /\ \A id \in DOMAIN entries :
         /\ entries[id].payload.timestamp = Due(entries[id])
         /\ entries[id].payload.timestamp > mark
    /\ \A i \in DOMAIN events : events[i].timestamp > mark
OnTime(outs) ==
    /\ \E S : outs \in Seq(S)
    /\ \A i \in DOMAIN outs : outs[i].timestamp > outs[i].after

Starts(start) ==
    DOMAIN start \subseteq Keys /\ \A k \in DOMAIN start : start[k] \in 1 .. MaxTimestamp

\* The element being put into its windows.
AtElement(element) ==
    /\ element \in [key : Keys, ts : 1 .. MaxTimestamp, ceil : Nat, index : Nat]
    /\ element.key \in DOMAIN window_start
    /\ element.ceil = Ceil(window_start[element.key], element.ts)
    /\ Floor(element.ceil) <= element.index /\ element.index <= element.ceil
    /\ ~ IsLate(element.ts)

\* What a checkpoint holds.
Stored(time, entries, start, windows, mark, outs, forward) ==
    /\ time \in Nat /\ mark = time /\ forward \in Nat /\ forward <= time
    /\ Kept(entries) /\ \A id \in DOMAIN entries : Due(entries[id]) > time
    /\ Starts(start) /\ Matched(windows, entries, <<>>)
    /\ late_arrival_time = 0 => Timely(entries, <<>>, forward) /\ OnTime(outs)
SavedOk ==
    saved = None \/ Stored(saved[1], saved[2], saved[3][1], saved[3][2], saved[4],
                           saved[5][2], saved[5][3])

TimerInv ==
    current_time \in Nat /\ Kept(timeouts) /\ Wheel(timer, timeouts, current_time)
PhaseInv ==
    /\ pc \in {"idle", "element", "advance", "timeouts"}
    /\ current_watermark \in Nat /\ forwarded \in Nat /\ forwarded <= current_time
    /\ pc # "advance" => advance = None /\ current_time = current_watermark
    /\ pc = "advance" =>
         Collected(advance, timeouts, current_time) /\ advance.ts = current_watermark
    /\ pc = "element" => AtElement(todo)
    /\ pc = "timeouts" => todo \in Seq(WindowEvents)
TriggerInv ==
    /\ Starts(window_start)
    /\ Matched(active_windows, timeouts, Held)
    /\ late_arrival_time = 0 => Timely(timeouts, Held, forwarded) /\ OnTime(outputs)
WindowInv == assigner \in Assigners /\ TimerInv /\ PhaseInv /\ TriggerInv /\ SavedOk

(****************************************************************************)
(* Where the windows of an element end.                                     *)
(****************************************************************************)

\* A product grows with its factor.
LEMMA ProductGrows ==
    ASSUME NEW a \in Nat, NEW b \in Nat, NEW s \in Nat, a <= b
    PROVE  a * s \in Nat /\ b * s \in Nat /\ a * s <= b * s
<1>1. PICK e \in Nat : b = a + e
  BY a <= b, b - a \in Nat
<1>2. b * s = a * s + e * s
  BY <1>1
<1>3. a * s \in Nat /\ e * s \in Nat
  OBVIOUS
<1> QED
  BY <1>2, <1>3

\* A quotient is the number of whole parts.
LEMMA WholeParts ==
    ASSUME NEW d \in Nat, NEW s \in Nat \ {0}
    PROVE  d \div s \in Nat /\ (d \div s) * s <= d /\ d < (d \div s + 1) * s
<1>1. PICK q \in Int, r \in 0 .. (s - 1) : d = s * q + r /\ q = d \div s
  <2>1. d = s * (d \div s) + (d % s) /\ d % s \in 0 .. (s - 1) /\ d \div s \in Int
    OBVIOUS
  <2> QED
    BY <2>1
<1>2. q \in Nat
  <2>1. ASSUME q < 0 PROVE FALSE
    <3>1. PICK e \in Nat : q = 0 - (e + 1)
      BY <2>1, (0 - q) - 1 \in Nat
    <3>2. s * q = 0 - (s * e + s) /\ s * e \in Nat
      BY <3>1
    <3> QED
      BY <1>1, <3>2
  <2> QED
    BY <2>1
<1>3. q * s = s * q /\ (q + 1) * s = s * q + s /\ s * q \in Nat
  BY <1>2
<1> QED
  BY <1>1, <1>2, <1>3

\* u64 arithmetic: one subtraction brings a sum back.
LEMMA WrapsOnce ==
    ASSUME NEW m \in Nat, NEW x \in Nat, m > 0
    PROVE  /\ x % m \in Nat
           /\ x < m => x % m = x
           /\ (m <= x /\ x < m + m) => x % m = x - m
    OBVIOUS

\* Every element is in a whole number of windows, one at least.
LEMMA PerWindowType ==
    ASSUME assigner \in Assigners
    PROVE  PerWindow \in Nat /\ PerWindow > 0
<1>1. PICK s \in Nat \ {0} : s = window_slide
  BY WindowAssumption DEF window_slide
<1>2. PICK len \in Nat : len = window_length /\ len >= s
  BY <1>1, WindowAssumption DEF window_length, window_slide
<1>3. len \div s \in Nat /\ len < (len \div s + 1) * s
  BY WholeParts
<1>4. len \div s # 0
  BY <1>2, <1>3
<1> QED
  BY <1>1, <1>2, <1>3, <1>4 DEF PerWindow

\* For every window between floor and ceil: an element d after the first one
\* comes before its end, by window_length at most.
LEMMA EndsAfterElement ==
    ASSUME assigner \in Assigners, NEW d \in Nat, NEW index \in Nat,
           Floor(d \div window_slide) <= index, index <= d \div window_slide
    PROVE  /\ index * window_slide \in Nat /\ window_length \in Nat
           /\ d < index * window_slide + window_length
           /\ index * window_slide <= d
<1>1. PICK s \in Nat \ {0} : s = window_slide
  BY WindowAssumption DEF window_slide
<1>2. PICK len \in Nat : len = window_length /\ len >= s /\ len % s = 0
  BY <1>1, WindowAssumption DEF window_length, window_slide
<1>3. PICK c \in Nat : c = d \div s /\ c * s <= d /\ d < (c + 1) * s
  BY <1>1, WholeParts
<1>4. PICK n \in Nat : n = len \div s /\ n * s = len
  <2>1. len = s * (len \div s) + (len % s)
    BY <1>1
  <2>2. PICK n \in Nat : n = len \div s
    BY <1>1, WholeParts
  <2>3. n * s = s * n /\ s * n \in Nat
    OBVIOUS
  <2> QED
    BY <1>2, <2>1, <2>2, <2>3
<1>5. (IF c >= n THEN c - n + 1 ELSE 0) <= index /\ index <= c
  BY <1>1, <1>2, <1>3, <1>4 DEF Floor, PerWindow
<1>6. c + 1 <= index + n
  BY <1>5
<1>7. (c + 1) * s <= (index + n) * s
  BY <1>1, <1>6, ProductGrows
<1>8. (index + n) * s = index * s + n * s
  OBVIOUS
<1>9. index * s \in Nat /\ index * s <= c * s /\ c * s \in Nat
  BY <1>1, <1>5, ProductGrows
<1>10. (c + 1) * s \in Nat
  OBVIOUS
<1>11. d < index * s + len
  BY <1>3, <1>4, <1>7, <1>8, <1>9, <1>10
<1>12. index * s <= d
  BY <1>3, <1>9
<1> QED
  BY <1>1, <1>2, <1>9, <1>11, <1>12

\* The trigger of every window an element goes into is in the future; without
\* late_arrival_time it is due when the window ends.
LEMMA TriggerInFuture ==
    ASSUME assigner \in Assigners, Starts(window_start), current_time \in Nat,
           NEW e, AtElement(e)
    PROVE  /\ End(e.key, e.index) \in Nat /\ Trigger(e.key, e.index) \in Nat
           /\ current_time < Trigger(e.key, e.index)
           /\ late_arrival_time = 0 => Trigger(e.key, e.index) = End(e.key, e.index)
<1>1. PICK start \in 1 .. MaxTimestamp : start = window_start[e.key]
  BY DEF AtElement, Starts
<1>2. PICK ts \in 1 .. MaxTimestamp : ts = e.ts
  BY DEF AtElement
<1>3. PICK late \in Nat : late = late_arrival_time
  BY WindowAssumption DEF late_arrival_time
<1>4. PICK len \in Nat : len = window_length
  BY WindowAssumption DEF window_length
<1>5. MaxTimestamp + len + late < U64 /\ MaxTimestamp \in Nat /\ U64 \in Nat /\ U64 > 0
  BY <1>3, <1>4, WindowAssumption, BoundsAssumption DEF window_length, late_arrival_time
<1>6. start \in Nat /\ ts \in Nat /\ start < U64 /\ ts < U64
  BY <1>5
<1>7. PICK d \in Nat : d = (ts + U64 - start) % U64
  <2>1. ts + U64 - start \in Nat
    BY <1>5, <1>6
  <2> QED
    BY <1>5, <2>1, WrapsOnce
<1>8. d = IF start <= ts THEN ts - start ELSE ts + U64 - start
  <2>1. PICK x \in Nat : x = ts + U64 - start
    BY <1>5, <1>6
  <2>2. CASE start <= ts
    <3>1. U64 <= x /\ x < U64 + U64 /\ x - U64 = ts - start
      BY <1>5, <1>6, <2>1, <2>2
    <3>2. d = x - U64
      BY <1>5, <1>7, <2>1, <3>1, WrapsOnce
    <3> QED
      BY <2>2, <3>1, <3>2
  <2>3. CASE ~ (start <= ts)
    <3>1. x < U64
      BY <1>5, <1>6, <2>1, <2>3
    <3>2. d = x
      BY <1>5, <1>7, <2>1, <3>1, WrapsOnce
    <3> QED
      BY <2>1, <2>3, <3>2
  <2> QED
    BY <2>2, <2>3
<1>9. e.index \in Nat /\ e.ceil = d \div window_slide
      /\ Floor(e.ceil) <= e.index /\ e.index <= e.ceil
  BY <1>1, <1>2, <1>7 DEF AtElement, Ceil
<1>10. PICK off \in Nat : off = e.index * window_slide /\ d < off + len /\ off <= d
  BY <1>4, <1>9, EndsAfterElement
<1>11. PICK end \in Nat : end = End(e.key, e.index) /\ ts < end /\ end <= ts + len
  <2>1. PICK x \in Nat : x = start + off + len
    BY <1>6
  <2>2. x % U64 = End(e.key, e.index)
    BY <1>1, <1>4, <1>10, <2>1 DEF End
  <2>3. CASE start <= ts
    <3>1. ts < x /\ x <= ts + len /\ x < U64
      BY <1>5, <1>6, <1>8, <1>10, <2>1, <2>3
    <3> QED
      BY <1>5, <2>2, <3>1, WrapsOnce
  <2>4. CASE ~ (start <= ts)
    <3>1. U64 + ts < x /\ x <= U64 + ts + len /\ U64 <= x /\ x < U64 + U64
      BY <1>5, <1>6, <1>8, <1>10, <2>1, <2>4
    <3>2. PICK y \in Nat : y = x - U64 /\ ts < y /\ y <= ts + len
      BY <1>5, <1>6, <3>1
    <3>3. x % U64 = y
      BY <1>5, <3>1, <3>2, WrapsOnce
    <3> QED
      BY <2>2, <3>2, <3>3
  <2> QED
    BY <2>3, <2>4
<1>12. Trigger(e.key, e.index) = end + late
  <2>1. end + late \in Nat /\ end + late < U64
    BY <1>5, <1>6, <1>11
  <2> QED
    BY <1>3, <1>5, <1>11, <2>1, WrapsOnce DEF Trigger
<1>13. ~ (ts < IF current_time > late THEN current_time - late ELSE 0)
  BY <1>2, <1>3 DEF AtElement, IsLate
<1>14. current_time < end + late
  BY <1>6, <1>11, <1>13
<1>15. late = 0 => end + late = end
  BY <1>11
<1>16. end + late \in Nat
  OBVIOUS
<1> QED
  BY <1>3, <1>11, <1>12, <1>14, <1>15, <1>16

(****************************************************************************)
(* The timer.                                                               *)
(****************************************************************************)

\* A timer event is due at a natural number.
LEMMA DueType ==
    ASSUME NEW e \in TimerEvents
    PROVE  Due(e) \in Nat /\ e.payload \in WindowEvents
    BY DEF Due, TimerEvents

\* Every non-empty set of numbers has a least element.
LEMMA LeastNumber ==
    ASSUME NEW D \in SUBSET Nat, D # {}
    PROVE  \E m \in D : \A d \in D : m <= d
<1> DEFINE T == {0 .. n : n \in D}
<1>1. T \subseteq FiniteSubsetsOf(Nat)
  <2>1. \A n \in D : IsFiniteSet(0 .. n) /\ 0 .. n \in SUBSET Nat
    BY FS_Interval
  <2> QED
    BY <2>1, Zenon DEF FiniteSubsetsOf
<1>2. T # {}
  OBVIOUS
<1>3. PICK X \in T : \A Y \in T : ~ (<<Y, X>> \in StrictSubsetOrdering(Nat))
  BY <1>1, <1>2, FS_StrictSubsetOrderingWellFounded, WFMin
<1>4. PICK m \in D : X = 0 .. m
  OBVIOUS
<1>5. ASSUME NEW x \in D, x < m PROVE FALSE
  <2>1. /\ 0 .. x \subseteq 0 .. m /\ m \in 0 .. m /\ m \notin 0 .. x
        /\ 0 .. x \in SUBSET Nat /\ 0 .. m \in SUBSET Nat
    BY <1>5
  <2>2. <<0 .. x, 0 .. m>> \in StrictSubsetOrdering(Nat)
    BY <2>1 DEF StrictSubsetOrdering
  <2>3. 0 .. x \in T
    OBVIOUS
  <2> QED
    BY <1>3, <1>4, <2>2, <2>3
<1>6. \A d \in D : m <= d
  BY <1>5
<1> QED
  BY <1>6

\* No timeout of the wheel is before the next one.
LEMMA NextDueIsLeast ==
    ASSUME TimerInv, DOMAIN timer # {}
    PROVE  NextDue \in Nat /\ \A id \in DOMAIN timer : NextDue <= timer[id]
<1>1. PICK D : D = {timer[i] : i \in DOMAIN timer}
  OBVIOUS
<1>2. D \in SUBSET Nat /\ D # {}
  BY <1>1 DEF TimerInv, Wheel
<1>3. \E m \in D : \A i \in DOMAIN timer : m <= timer[i]
  BY <1>1, <1>2, LeastNumber
<1> QED
  BY <1>1, <1>2, <1>3 DEF NextDue

\* A new timeout: the wheel and the backend both have it, and all the others.
LEMMA Scheduled ==
    ASSUME TimerInv, NEW time \in Nat, NEW entry \in WindowEvents,
           ScheduleAt(time, entry), current_time' = current_time
    PROVE  /\ TimerInv'
           /\ \E id \in Ids \ DOMAIN timeouts :
                /\ DOMAIN timeouts' = DOMAIN timeouts \cup {id}
                /\ \A i \in DOMAIN timeouts : timeouts'[i] = timeouts[i]
                /\ timeouts'[id].payload = entry /\ Due(timeouts'[id]) = time
<1>1. /\ current_time \in Nat /\ Kept(timeouts) /\ Wheel(timer, timeouts, current_time)
      /\ time > current_time
  BY DEF TimerInv, ScheduleAt, Expired
<1>2. PICK delay \in Nat : delay = time - current_time /\ delay > 0
  BY <1>1
<1>3. PICK e : e = [time_when_scheduled |-> current_time, timeout_millis |-> delay,
                    payload |-> entry]
  OBVIOUS
<1>4. e \in TimerEvents /\ e.payload = entry /\ Due(e) = current_time + delay
  BY <1>1, <1>2, <1>3 DEF TimerEvents, Due
<1>5. PICK id : id = CHOOSE i \in Ids : i \notin DOMAIN timeouts
  OBVIOUS
<1>6. id \in Ids /\ id \notin DOMAIN timeouts
  BY <1>1, <1>2, <1>5 DEF ScheduleAt, ScheduleAfter, Kept
<1>7. /\ timer' = [i \in DOMAIN timer \cup {id} |-> IF i = id THEN delay ELSE timer[i]]
      /\ timeouts' = [i \in DOMAIN timeouts \cup {id} |-> IF i = id THEN e ELSE timeouts[i]]
  BY <1>2, <1>3, <1>5 DEF ScheduleAt, ScheduleAfter, InsertWithDelay
<1>8. /\ DOMAIN timeouts' = DOMAIN timeouts \cup {id} /\ timeouts'[id] = e
      /\ \A i \in DOMAIN timeouts : timeouts'[i] = timeouts[i]
  BY <1>6, <1>7
<1>9. /\ DOMAIN timer' = DOMAIN timer \cup {id} /\ timer'[id] = delay
      /\ \A i \in DOMAIN timer : timer'[i] = timer[i]
  BY <1>1, <1>6, <1>7 DEF Wheel
<1>10. Kept(timeouts')
  BY <1>1, <1>4, <1>6, <1>8 DEF Kept
<1>11. Wheel(timer', timeouts', current_time)
  <2>1. \A i \in DOMAIN timer' : timer'[i] \in Nat /\ timer'[i] > 0
    BY <1>1, <1>2, <1>9 DEF Wheel
  <2>2. timer' \in [DOMAIN timeouts' -> Nat]
    BY <1>1, <1>7, <1>8, <1>9, <2>1 DEF Wheel
  <2>3. \A i \in DOMAIN timer' : current_time + timer'[i] = Due(timeouts'[i])
    BY <1>1, <1>4, <1>8, <1>9 DEF Wheel
  <2> QED
    BY <2>1, <2>2, <2>3 DEF Wheel
<1>12. Due(e) = time
  BY <1>1, <1>2, <1>4
<1> QED
  BY <1>1, <1>4, <1>6, <1>8, <1>10, <1>11, <1>12 DEF TimerInv

\* A chunk is a part, and not an empty one.
LEMMA ChunkFacts ==
    ASSUME NEW n \in Nat
    PROVE  Chunk(n) \in Nat /\ n - Chunk(n) \in Nat /\ Chunk(n) + (n - Chunk(n)) = n
    BY TimerAssumption DEF Chunk

\* The timeouts of the backend are finitely many.
LEMMA FewTimeouts ==
    ASSUME NEW entries, Kept(entries), NEW S \in SUBSET DOMAIN entries
    PROVE  IsFiniteSet(S) /\ Cardinality(S) \in Nat
<1>1. IsFiniteSet(Ids)
  BY TimerAssumption, FS_Interval DEF Ids
<1>2. S \in SUBSET Ids
  BY DEF Kept
<1> QED
  BY <1>1, <1>2, FS_Subset, FS_CardinalityType

\* A call of advance_to starts with nothing collected.
LEMMA AdvanceStarts ==
    ASSUME TimerInv, NEW ts \in Nat, AdvanceTo(ts)
    PROVE  Collected(advance', timeouts, current_time) /\ advance'.ts = ts
           /\ advance'.res = <<>>
<1>1. current_time \in Nat /\ ts >= current_time /\ Kept(timeouts)
  BY DEF TimerInv, AdvanceTo
<1>2. PICK n \in Nat : n = ts - current_time
  BY <1>1
<1>3. PICK call : call = advance'
  OBVIOUS
<1>4. call = [time_left |-> Chunk(n), ahead |-> n - Chunk(n), res |-> <<>>, ts |-> ts,
              due |-> DueBy(timeouts, ts)]
  BY <1>2, <1>3 DEF AdvanceTo, DueBy
<1>5. Chunk(n) \in Nat /\ n - Chunk(n) \in Nat /\ Chunk(n) + (n - Chunk(n)) = n
  BY ChunkFacts
<1>6. DueBy(timeouts, ts) \subseteq DOMAIN timeouts /\ DueBy(timeouts, ts) \subseteq Ids
  BY <1>1 DEF DueBy, Kept
<1>7. call \in Advances
  BY <1>4, <1>5, <1>6 DEF Advances
<1>8. /\ call.ts = ts /\ call.time_left = Chunk(n) /\ call.ahead = n - Chunk(n)
      /\ call.res = <<>> /\ call.due = DueBy(timeouts, ts)
  BY <1>4
<1>9. call.ts = current_time + call.time_left + call.ahead
  BY <1>1, <1>2, <1>5, <1>8
<1>10. Len(call.res) + Cardinality(DueBy(timeouts, call.ts)) = Cardinality(call.due)
  BY <1>1, <1>6, <1>8, FewTimeouts
<1>11. InDueOrder(call.res) /\ \A i \in DOMAIN call.res : Due(call.res[i]) <= current_time
  BY <1>8 DEF InDueOrder
<1> QED
  BY <1>3, <1>7, <1>8, <1>9, <1>10, <1>11 DEF Collected

\* The next chunk.
LEMMA ChunkCollects ==
    ASSUME TimerInv, Collected(advance, timeouts, current_time), NextChunk
    PROVE  /\ Collected(advance', timeouts, current_time)
           /\ advance'.ts = advance.ts /\ advance'.res = advance.res
<1>1. PICK call \in Advances : call = advance
  BY DEF Collected
<1>2. /\ call.time_left = 0 /\ call.ahead \in Nat
      /\ call.ts = current_time + call.time_left + call.ahead /\ current_time \in Nat
  BY <1>1 DEF NextChunk, Advances, Collected, TimerInv
<1>3. PICK c \in Nat, r \in Nat :
        c = Chunk(call.ahead) /\ r = call.ahead - Chunk(call.ahead) /\ c + r = call.ahead
  BY <1>2, ChunkFacts
<1>4. PICK next : next = advance'
  OBVIOUS
<1>5. next = [call EXCEPT !.time_left = c, !.ahead = r]
  BY <1>1, <1>3, <1>4 DEF NextChunk
<1>6. /\ next \in Advances /\ next.time_left = c /\ next.ahead = r /\ next.ts = call.ts
      /\ next.res = call.res /\ next.due = call.due
  BY <1>5 DEF Advances
<1>7. next.ts = current_time + next.time_left + next.ahead
  BY <1>2, <1>3, <1>6
<1> QED
  BY <1>1, <1>4, <1>6, <1>7 DEF Collected

\* The time that is skipped is stored, and no timeout becomes due in it.
LEMMA SkipCollects ==
    ASSUME TimerInv, Collected(advance, timeouts, current_time), timer # NoTimeouts,
           NEW n \in Skips, SkipMillis(n)
    PROVE  /\ TimerInv'
           /\ Collected(advance', timeouts, current_time') /\ current_time <= current_time'
           /\ advance'.ts = advance.ts /\ advance'.res = advance.res
<1>1. PICK call \in Advances : call = advance
  BY DEF Collected
<1>2. /\ call.time_left \in Nat /\ call.time_left > 0 /\ call.ahead \in Nat
      /\ call.ts = current_time + call.time_left + call.ahead /\ current_time \in Nat
      /\ Kept(timeouts) /\ Wheel(timer, timeouts, current_time)
  BY <1>1 DEF SkipMillis, Working, Advances, Collected, TimerInv
<1>3. PICK ms : ms = IF n >= call.time_left THEN call.time_left ELSE n
  OBVIOUS
<1>4. /\ timer' = [i \in DOMAIN timer |-> timer[i] - ms]
      /\ current_time' = current_time + ms /\ timeouts' = timeouts
  BY <1>1, <1>3 DEF SkipMillis, Passed
<1>5. DOMAIN timer # {}
  <2>1. timer = [i \in DOMAIN timer |-> timer[i]]
    BY <1>2 DEF Wheel
  <2> QED
    BY <2>1 DEF NoTimeouts
<1>6. NextDue \in Nat /\ \A id \in DOMAIN timer : NextDue <= timer[id]
  BY <1>5, NextDueIsLeast
<1>7. n \in Nat /\ n > 0 /\ n < NextDue
  BY <1>6 DEF Skips
<1>8. ms \in Nat /\ ms > 0 /\ ms <= call.time_left /\ ms < NextDue
  BY <1>2, <1>3, <1>6, <1>7
<1>9. DOMAIN timer' = DOMAIN timeouts /\ DOMAIN timer = DOMAIN timeouts
  BY <1>2, <1>4 DEF Wheel
<1>10. ASSUME NEW id \in DOMAIN timeouts
       PROVE  timer'[id] \in Nat /\ timer'[id] > 0 /\ (current_time + ms) + timer'[id] = Due(timeouts[id])
  <2>1. /\ timer[id] \in Nat /\ NextDue <= timer[id] /\ timer'[id] = timer[id] - ms
        /\ current_time + timer[id] = Due(timeouts[id])
    BY <1>2, <1>4, <1>6, <1>9 DEF Wheel
  <2> QED
    BY <1>2, <1>6, <1>8, <2>1
<1>11. Wheel(timer', timeouts, current_time + ms)
  <2>1. timer' \in [DOMAIN timeouts -> Nat]
    BY <1>4, <1>9, <1>10
  <2> QED
    BY <1>9, <1>10, <2>1 DEF Wheel
<1>12. TimerInv'
  BY <1>2, <1>4, <1>8, <1>11 DEF TimerInv
<1>13. PICK next : next = advance'
  OBVIOUS
<1>14. next = [call EXCEPT !.time_left = call.time_left - ms] /\ call.time_left - ms \in Nat
  BY <1>1, <1>2, <1>3, <1>8, <1>13 DEF SkipMillis
<1>15. /\ next \in Advances /\ next.time_left = call.time_left - ms /\ next.ts = call.ts
       /\ next.res = call.res /\ next.due = call.due /\ next.ahead = call.ahead
  BY <1>14 DEF Advances
<1>16. next.ts = (current_time + ms) + next.time_left + next.ahead
  BY <1>2, <1>8, <1>15
<1>17. ASSUME NEW i \in DOMAIN next.res PROVE Due(next.res[i]) <= current_time + ms
  <2>1. Due(call.res[i]) <= current_time /\ call.res[i] \in TimerEvents
    BY <1>1, <1>15, <1>17 DEF Collected, Advances
  <2>2. Due(call.res[i]) \in Nat
    BY <2>1, DueType
  <2> QED
    BY <1>2, <1>8, <1>15, <2>1, <2>2
<1>18. Collected(next, timeouts, current_time + ms)
  BY <1>1, <1>15, <1>16, <1>17 DEF Collected
<1> QED
  BY <1>1, <1>2, <1>4, <1>8, <1>12, <1>13, <1>15, <1>18

\* An empty wheel: the rest of the chunk passes at once.
LEMMA EmptyCollects ==
    ASSUME TimerInv, Collected(advance, timeouts, current_time), SkipEmpty
    PROVE  /\ TimerInv'
           /\ Collected(advance', timeouts, current_time') /\ current_time <= current_time'
           /\ advance'.ts = advance.ts /\ advance'.res = advance.res
<1>1. PICK call \in Advances : call = advance
  BY DEF Collected
<1>2. /\ call.time_left \in Nat /\ call.ahead \in Nat
      /\ call.ts = current_time + call.time_left + call.ahead /\ current_time \in Nat
      /\ Kept(timeouts) /\ Wheel(timer, timeouts, current_time)
  BY <1>1 DEF Advances, Collected, TimerInv
<1>3. PICK ms \in Nat : ms = call.time_left
  BY <1>2
<1>4. timer' = timer /\ current_time' = current_time + ms /\ timeouts' = timeouts
  BY <1>1, <1>3 DEF SkipEmpty
<1>5. DOMAIN timer = {}
  BY DEF SkipEmpty, NoTimeouts
<1>6. Wheel(timer, timeouts, current_time + ms)
  BY <1>2, <1>5 DEF Wheel
<1>7. TimerInv'
  BY <1>2, <1>4, <1>6 DEF TimerInv
<1>8. PICK next : next = advance'
  OBVIOUS
<1>9. next = [call EXCEPT !.time_left = 0]
  BY <1>1, <1>8 DEF SkipEmpty
<1>10. /\ next \in Advances /\ next.time_left = 0 /\ next.ts = call.ts
       /\ next.res = call.res /\ next.due = call.due /\ next.ahead = call.ahead
  BY <1>9 DEF Advances
<1>11. next.ts = (current_time + ms) + next.time_left + next.ahead
  BY <1>2, <1>3, <1>10
<1>12. ASSUME NEW i \in DOMAIN next.res PROVE Due(next.res[i]) <= current_time + ms
  <2>1. Due(call.res[i]) <= current_time /\ call.res[i] \in TimerEvents
    BY <1>1, <1>10, <1>12 DEF Collected, Advances
  <2>2. Due(call.res[i]) \in Nat
    BY <2>1, DueType
  <2> QED
    BY <1>2, <1>10, <2>1, <2>2
<1>13. Collected(next, timeouts, current_time + ms)
  BY <1>1, <1>10, <1>11, <1>12 DEF Collected
<1> QED
  BY <1>1, <1>2, <1>4, <1>7, <1>8, <1>10, <1>13

\* The order in which a tick yields its timeouts has each of them once.
LEMMA OrderFacts ==
    ASSUME NEW T, IsFiniteSet(T), NEW order \in SetToSeqs(T)
    PROVE  /\ Cardinality(T) \in Nat
           /\ order \in [1 .. Cardinality(T) -> T]
           /\ \A i, j \in 1 .. Cardinality(T) : order[i] = order[j] => i = j
           /\ \A id \in T : \E i \in 1 .. Cardinality(T) : order[i] = id
<1>1. PICK n \in Nat : n = Cardinality(T)
  BY FS_CardinalityType
<1>2. order \in [1 .. n -> T] /\ \A i, j \in 1 .. n : i # j => order[i] # order[j]
  BY <1>1 DEF SetToSeqs
<1>3. order \in Injection(1 .. n, T)
  BY <1>2 DEF Injection, IsInjective
<1>4. Cardinality(1 .. n) = n
  BY FS_Interval
<1>5. order \in Surjection(1 .. n, T)
  BY <1>1, <1>3, <1>4, FS_Injection
<1>6. \A id \in T : \E i \in 1 .. n : order[i] = id
  BY <1>5 DEF Surjection
<1> QED
  BY <1>1, <1>2, <1>6

\* What a tick does to the timeouts and the result: the timeouts of one
\* millisecond move from one to the other.
Moves(entries, res, entries2, res2, T, order) ==
    /\ T \subseteq DOMAIN entries /\ Cardinality(T) \in Nat
    /\ order \in [1 .. Cardinality(T) -> T]
    /\ \A i, j \in 1 .. Cardinality(T) : order[i] = order[j] => i = j
    /\ \A id \in T : \E i \in 1 .. Cardinality(T) : order[i] = id
    /\ DOMAIN entries2 = DOMAIN entries \ T
    /\ \A id \in DOMAIN entries2 : entries2[id] = entries[id]
    /\ Len(res) \in Nat /\ DOMAIN res = 1 .. Len(res)
    /\ Len(res2) = Len(res) + Cardinality(T) /\ DOMAIN res2 = 1 .. Len(res2)
    /\ \A i \in 1 .. Len(res) : res2[i] = res[i]
    /\ \A i \in 1 .. Cardinality(T) : res2[Len(res) + i] = entries[order[i]]

\* A tick does that.
LEMMA TickMoves ==
    ASSUME TimerInv, Collected(advance, timeouts, current_time),
           NEW order \in SetToSeqs(Ticked), Tick(order)
    PROVE  /\ Moves(timeouts, advance.res, timeouts', advance'.res, Ticked, order)
           /\ advance' \in Advances /\ advance'.ts = advance.ts /\ advance'.due = advance.due
           /\ advance'.ahead = advance.ahead /\ advance'.time_left = advance.time_left - 1
           /\ advance.time_left > 0
<1>1. PICK call \in Advances : call = advance
  BY DEF Collected
<1>2. /\ Kept(timeouts) /\ Wheel(timer, timeouts, current_time) /\ current_time \in Nat
      /\ call.time_left \in Nat /\ call.time_left > 0
  BY <1>1 DEF TimerInv, Advances, Tick, Working
<1>3. Ticked \subseteq DOMAIN timeouts
  BY <1>2 DEF Ticked, Wheel
<1>4. IsFiniteSet(Ticked)
  BY <1>2, <1>3, FewTimeouts
<1>5. PICK n \in Nat : n = Cardinality(Ticked)
  BY <1>4, FS_CardinalityType
<1>6. /\ order \in [1 .. n -> Ticked]
      /\ \A i, j \in 1 .. n : order[i] = order[j] => i = j
      /\ \A id \in Ticked : \E i \in 1 .. n : order[i] = id
  BY <1>4, <1>5, OrderFacts
<1>7. PICK new : new = [i \in 1 .. n |-> timeouts[order[i]]]
  OBVIOUS
<1>8. \A i \in 1 .. n : timeouts[order[i]] \in TimerEvents
  BY <1>2, <1>3, <1>6 DEF Kept
<1>9. new \in Seq(TimerEvents) /\ Len(new) = n /\ \A i \in 1 .. n : new[i] = timeouts[order[i]]
  BY <1>7, <1>8
<1>10. PICK old \in Seq(TimerEvents) : old = call.res
  BY DEF Advances
<1>11. PICK res \in Seq(TimerEvents) :
         /\ res = old \o new /\ Len(res) = Len(old) + Len(new)
         /\ \A i \in 1 .. Len(old) : res[i] = old[i]
         /\ \A i \in 1 .. Len(new) : res[Len(old) + i] = new[i]
  <2>1. old \o new \in Seq(TimerEvents) /\ Len(old \o new) = Len(old) + Len(new)
    BY <1>9, ConcatProperties
  <2>2. ASSUME NEW i \in 1 .. (Len(old) + Len(new))
        PROVE  (old \o new)[i] = IF i <= Len(old) THEN old[i] ELSE new[i - Len(old)]
    BY <1>9, ConcatProperties
  <2>3. ASSUME NEW i \in 1 .. Len(old) PROVE (old \o new)[i] = old[i]
    <3>1. i \in 1 .. (Len(old) + Len(new)) /\ i <= Len(old)
      BY <1>9
    <3> QED
      BY <2>2, <3>1
  <2>4. ASSUME NEW i \in 1 .. Len(new) PROVE (old \o new)[Len(old) + i] = new[i]
    <3>1. PICK k \in Nat : k = Len(old)
      OBVIOUS
    <3>2. k + i \in 1 .. (k + n) /\ ~ (k + i <= k) /\ (k + i) - k = i
      BY <1>9
    <3> QED
      BY <1>9, <2>2, <3>1, <3>2
  <2> QED
    BY <2>1, <2>3, <2>4
<1>12. PICK next : next = advance'
  OBVIOUS
<1>13. next = [call EXCEPT !.time_left = call.time_left - 1, !.res = res]
       /\ call.time_left - 1 \in Nat
  <2>1. DOMAIN order = 1 .. n
    BY <1>6
  <2> QED
    BY <1>1, <1>2, <1>7, <1>10, <1>11, <1>12, <2>1 DEF Tick
<1>14. /\ next \in Advances /\ next.res = res /\ next.ts = call.ts /\ next.due = call.due
       /\ next.ahead = call.ahead /\ next.time_left = call.time_left - 1
  BY <1>13 DEF Advances
<1>15. /\ DOMAIN timeouts' = DOMAIN timeouts \ Ticked
       /\ \A id \in DOMAIN timeouts' : timeouts'[id] = timeouts[id]
  BY DEF Tick
<1>16. /\ Len(old) \in Nat /\ DOMAIN old = 1 .. Len(old) /\ DOMAIN res = 1 .. Len(res)
  OBVIOUS
<1>17. Moves(timeouts, old, timeouts', res, Ticked, order)
  BY <1>3, <1>5, <1>6, <1>9, <1>11, <1>15, <1>16 DEF Moves
<1> QED
  BY <1>1, <1>2, <1>10, <1>12, <1>14, <1>17

\* One millisecond: what was due in it is collected, behind what was due before.
LEMMA TickCollects ==
    ASSUME TimerInv, Collected(advance, timeouts, current_time),
           NEW order \in SetToSeqs(Ticked), Tick(order)
    PROVE  /\ TimerInv'
           /\ Collected(advance', timeouts', current_time') /\ current_time <= current_time'
<1>1. PICK call \in Advances : call = advance
  BY DEF Collected
<1>2. PICK now \in Nat : now = current_time
  BY DEF TimerInv
<1>3. /\ call.time_left \in Nat /\ call.ahead \in Nat /\ call.ts \in Nat
      /\ call.ts = now + call.time_left + call.ahead /\ current_time' = now + 1
      /\ Kept(timeouts) /\ Wheel(timer, timeouts, now)
  BY <1>1, <1>2 DEF Advances, Collected, TimerInv, Tick
<1>4. PICK next \in Advances : next = advance'
  BY TickMoves
<1>5. /\ Moves(timeouts, call.res, timeouts', next.res, Ticked, order)
      /\ next.ts = call.ts /\ next.due = call.due
      /\ next.ahead = call.ahead /\ next.time_left = call.time_left - 1 /\ call.time_left > 0
  BY <1>1, <1>4, TickMoves
<1>6. ASSUME NEW id \in DOMAIN timeouts
      PROVE  /\ Due(timeouts[id]) \in Nat
             /\ id \in Ticked <=> Due(timeouts[id]) = now + 1
             /\ timer[id] \in Nat /\ timer[id] > 0 /\ now + timer[id] = Due(timeouts[id])
             /\ id \in DOMAIN timer
  <2>1. timer[id] \in Nat /\ timer[id] > 0 /\ now + timer[id] = Due(timeouts[id]) /\ id \in DOMAIN timer
    BY <1>3 DEF Wheel
  <2>2. Due(timeouts[id]) \in Nat
    BY <1>3, DueType DEF Kept
  <2>3. id \in Ticked <=> timer[id] = 1
    BY <2>1 DEF Ticked
  <2>4. timer[id] = 1 <=> Due(timeouts[id]) = now + 1
    BY <2>1
  <2> QED
    BY <2>1, <2>2, <2>3, <2>4
<1>7. TimerInv'
  <2>1. /\ timer' = [i \in DOMAIN timer \ Ticked |-> timer[i] - 1]
        /\ DOMAIN timeouts' = DOMAIN timeouts \ Ticked /\ DOMAIN timer = DOMAIN timeouts
        /\ \A id \in DOMAIN timeouts' : timeouts'[id] = timeouts[id]
    BY <1>3 DEF Tick, Wheel
  <2>2. ASSUME NEW id \in DOMAIN timeouts'
        PROVE  timer'[id] \in Nat /\ timer'[id] > 0 /\ (now + 1) + timer'[id] = Due(timeouts'[id])
    <3>1. id \in DOMAIN timeouts /\ id \notin Ticked /\ timer'[id] = timer[id] - 1
      BY <2>1
    <3>2. timer[id] # 1
      BY <1>6, <3>1 DEF Ticked
    <3> QED
      BY <1>6, <2>1, <3>1, <3>2
  <2>3. timer' \in [DOMAIN timeouts' -> Nat]
    BY <2>1, <2>2
  <2>4. Wheel(timer', timeouts', now + 1)
    BY <2>2, <2>3 DEF Wheel
  <2>5. Kept(timeouts')
    BY <1>3, <2>1 DEF Kept
  <2> QED
    BY <1>3, <2>4, <2>5 DEF TimerInv
<1>8. PICK n \in Nat : n = Cardinality(Ticked)
  BY <1>5 DEF Moves
<1>9. PICK m \in Nat : m = Len(call.res)
  BY <1>5 DEF Moves
<1>10. ASSUME NEW i \in 1 .. m
       PROVE  next.res[i] = call.res[i] /\ Due(next.res[i]) \in Nat /\ Due(next.res[i]) <= now
  <2>1. next.res[i] = call.res[i] /\ i \in DOMAIN call.res
    BY <1>5, <1>9 DEF Moves
  <2>2. call.res[i] \in TimerEvents /\ Due(call.res[i]) <= now
    BY <1>1, <1>2, <2>1 DEF Collected, Advances
  <2> QED
    BY <2>1, <2>2, DueType
<1>11. ASSUME NEW i \in 1 .. n PROVE Due(next.res[m + i]) = now + 1
  BY <1>5, <1>6, <1>8, <1>9 DEF Moves
<1>12. ASSUME NEW i \in DOMAIN next.res
       PROVE  i \in 1 .. m \/ (i \in Nat /\ i > m /\ Due(next.res[i]) = now + 1)
  <2>1. i \in 1 .. (m + n)
    BY <1>5, <1>8, <1>9 DEF Moves
  <2>2. CASE i > m
    <3>1. i - m \in 1 .. n /\ m + (i - m) = i
      BY <2>1, <2>2
    <3> QED
      BY <1>11, <2>1, <2>2, <3>1
  <2> QED
    BY <2>1, <2>2
<1>13. \A i \in DOMAIN next.res : Due(next.res[i]) <= now + 1
  BY <1>10, <1>12
<1>14. InDueOrder(next.res)
  <2> SUFFICES ASSUME NEW i \in DOMAIN next.res, NEW j \in DOMAIN next.res, i < j
               PROVE  Due(next.res[i]) <= Due(next.res[j])
    BY DEF InDueOrder
  <2>1. CASE j \in 1 .. m
    <3>1. i \in 1 .. m
      BY <1>12, <2>1
    <3>2. i \in DOMAIN call.res /\ j \in DOMAIN call.res
      BY <1>5, <1>9, <2>1, <3>1 DEF Moves
    <3> QED
      BY <1>1, <1>10, <2>1, <3>1, <3>2 DEF Collected, InDueOrder
  <2>2. CASE j \notin 1 .. m
    <3>1. Due(next.res[j]) = now + 1
      BY <1>12, <2>2
    <3> QED
      BY <1>13, <3>1
  <2> QED
    BY <2>1, <2>2
<1>15. Len(next.res) + Cardinality(DueBy(timeouts', next.ts)) = Cardinality(next.due)
  <2>1. PICK D : D = DueBy(timeouts, call.ts)
    OBVIOUS
  <2>2. D \subseteq DOMAIN timeouts /\ IsFiniteSet(D) /\ Cardinality(D) \in Nat
    BY <1>3, <2>1, FewTimeouts DEF DueBy
  <2>3. now + 1 <= call.ts
    BY <1>3, <1>5
  <2>4. Ticked \subseteq D
    BY <1>5, <1>6, <2>1, <2>3 DEF DueBy, Moves
  <2>5. DueBy(timeouts', next.ts) = D \ Ticked
    BY <1>5, <2>1 DEF DueBy, Moves
  <2>6. D \cap Ticked = Ticked
    BY <2>4
  <2>7. Cardinality(D \ Ticked) = Cardinality(D) - n
    BY <1>8, <2>2, <2>6, FS_Difference
  <2>8. Len(next.res) = m + n
    BY <1>5, <1>8, <1>9 DEF Moves
  <2>9. m + Cardinality(D) = Cardinality(call.due)
    BY <1>1, <1>9, <2>1 DEF Collected
  <2>10. (m + n) + (Cardinality(D) - n) = m + Cardinality(D)
    BY <2>2
  <2> QED
    BY <1>5, <2>5, <2>7, <2>8, <2>9, <2>10
<1>16. next.ts = (now + 1) + next.time_left + next.ahead
  BY <1>3, <1>5
<1>17. Collected(next, timeouts', now + 1)
  BY <1>13, <1>14, <1>15, <1>16 DEF Collected
<1> QED
  BY <1>2, <1>3, <1>4, <1>7, <1>17

(****************************************************************************)
(* Windows and their triggers.                                              *)
(****************************************************************************)

\* The triggers of one tick move from the backend to the events to be handled.
LEMMA MatchedTick ==
    ASSUME NEW windows, NEW entries, NEW res, NEW entries2, NEW res2, NEW T, NEW order,
           Matched(windows, entries, Payloads(res)),
           Moves(entries, res, entries2, res2, T, order)
    PROVE  Matched(windows, entries2, Payloads(res2))
<1>1. PICK m \in Nat, n \in Nat : m = Len(res) /\ n = Cardinality(T)
  BY DEF Moves
<1>2. PICK ev : ev = Payloads(res)
  OBVIOUS
<1>3. PICK ev2 : ev2 = Payloads(res2)
  OBVIOUS
<1>4. DOMAIN ev = 1 .. m /\ DOMAIN ev2 = 1 .. (m + n)
  BY <1>1, <1>2, <1>3 DEF Moves, Payloads
<1>5. \A i \in 1 .. m : ev2[i] = ev[i]
  <2> SUFFICES ASSUME NEW i \in 1 .. m PROVE ev2[i] = ev[i]
    OBVIOUS
  <2>1. i \in 1 .. (m + n) /\ res2[i] = res[i]
    BY <1>1 DEF Moves
  <2> QED
    BY <1>1, <1>2, <1>3, <2>1 DEF Moves, Payloads
<1>6. \A i \in 1 .. n : m + i \in 1 .. (m + n) /\ ev2[m + i] = entries[order[i]].payload
  <2> SUFFICES ASSUME NEW i \in 1 .. n
               PROVE  m + i \in 1 .. (m + n) /\ ev2[m + i] = entries[order[i]].payload
    OBVIOUS
  <2>1. m + i \in 1 .. (m + n) /\ res2[m + i] = entries[order[i]]
    BY <1>1 DEF Moves
  <2> QED
    BY <1>1, <1>3, <2>1 DEF Moves, Payloads
<1>7. ASSUME NEW i \in 1 .. (m + n), i \notin 1 .. m
      PROVE  \E k \in 1 .. n : i = m + k /\ order[k] \in T /\ ev2[i] = entries[order[k]].payload
  <2>1. i - m \in 1 .. n /\ i = m + (i - m)
    BY <1>7
  <2> QED
    BY <1>1, <1>6, <2>1 DEF Moves
<1>8. /\ T \subseteq DOMAIN entries /\ DOMAIN entries2 = DOMAIN entries \ T
      /\ \A id \in DOMAIN entries2 : entries2[id] = entries[id]
  BY DEF Moves
<1>9. \A id, jd \in DOMAIN entries2 :
        WindowOf(entries2[id].payload) = WindowOf(entries2[jd].payload) => id = jd
  BY <1>8 DEF Matched
<1>10. \A i, j \in DOMAIN ev2 : WindowOf(ev2[i]) = WindowOf(ev2[j]) => i = j
  <2> SUFFICES ASSUME NEW i \in 1 .. (m + n), NEW j \in 1 .. (m + n),
                      WindowOf(ev2[i]) = WindowOf(ev2[j])
               PROVE  i = j
    BY <1>4
  <2>1. CASE i \in 1 .. m /\ j \in 1 .. m
    BY <1>2, <1>4, <1>5, <2>1 DEF Matched
  <2>2. CASE i \in 1 .. m /\ j \notin 1 .. m
    BY <1>2, <1>4, <1>5, <1>7, <1>8, <2>2 DEF Matched
  <2>3. CASE i \notin 1 .. m /\ j \in 1 .. m
    BY <1>2, <1>4, <1>5, <1>7, <1>8, <2>3 DEF Matched
  <2>4. CASE i \notin 1 .. m /\ j \notin 1 .. m
    <3>1. PICK k \in 1 .. n : i = m + k /\ order[k] \in T /\ ev2[i] = entries[order[k]].payload
      BY <1>7, <2>4
    <3>2. PICK l \in 1 .. n : j = m + l /\ order[l] \in T /\ ev2[j] = entries[order[l]].payload
      BY <1>7, <2>4
    <3>3. order[k] = order[l]
      BY <1>8, <3>1, <3>2 DEF Matched
    <3>4. k = l
      BY <1>1, <3>3 DEF Moves
    <3> QED
      BY <3>1, <3>2, <3>4
  <2> QED
    BY <2>1, <2>2, <2>3, <2>4
<1>11. ASSUME NEW id \in DOMAIN entries2, NEW i \in DOMAIN ev2
       PROVE  WindowOf(entries2[id].payload) # WindowOf(ev2[i])
  <2>1. CASE i \in 1 .. m
    BY <1>2, <1>4, <1>5, <1>8, <2>1 DEF Matched
  <2>2. CASE i \notin 1 .. m
    <3>1. PICK k \in 1 .. n : order[k] \in T /\ ev2[i] = entries[order[k]].payload
      BY <1>4, <1>7, <2>2
    <3>2. id \in DOMAIN entries /\ id # order[k] /\ entries2[id] = entries[id]
      BY <1>8, <3>1
    <3> QED
      BY <1>8, <3>1, <3>2 DEF Matched
  <2> QED
    BY <2>1, <2>2
<1>12. ASSUME NEW w
       PROVE  w \in windows <=>
                \/ \E id \in DOMAIN entries2 : w = WindowOf(entries2[id].payload)
                \/ \E i \in DOMAIN ev2 : w = WindowOf(ev2[i])
  <2>1. w \in windows <=>
          \/ \E id \in DOMAIN entries : w = WindowOf(entries[id].payload)
          \/ \E i \in DOMAIN ev : w = WindowOf(ev[i])
    BY <1>2 DEF Matched
  <2>2. ASSUME NEW id \in DOMAIN entries, w = WindowOf(entries[id].payload)
        PROVE  \/ \E jd \in DOMAIN entries2 : w = WindowOf(entries2[jd].payload)
               \/ \E i \in DOMAIN ev2 : w = WindowOf(ev2[i])
    <3>1. CASE id \in T
      <4>1. PICK k \in 1 .. n : order[k] = id
        BY <1>1, <3>1 DEF Moves
      <4> QED
        BY <1>4, <1>6, <2>2, <4>1
    <3>2. CASE id \notin T
      BY <1>8, <2>2, <3>2
    <3> QED
      BY <3>1, <3>2
  <2>3. ASSUME NEW i \in DOMAIN ev, w = WindowOf(ev[i])
        PROVE  \E j \in DOMAIN ev2 : w = WindowOf(ev2[j])
    <3>1. i \in 1 .. (m + n) /\ i \in 1 .. m
      BY <1>4
    <3> QED
      BY <1>4, <1>5, <2>3, <3>1
  <2>4. ASSUME NEW id \in DOMAIN entries2, w = WindowOf(entries2[id].payload)
        PROVE  \E jd \in DOMAIN entries : w = WindowOf(entries[jd].payload)
    BY <1>8, <2>4
  <2>5. ASSUME NEW i \in DOMAIN ev2, w = WindowOf(ev2[i])
        PROVE  \/ \E id \in DOMAIN entries : w = WindowOf(entries[id].payload)
               \/ \E j \in DOMAIN ev : w = WindowOf(ev[j])
    <3>1. CASE i \in 1 .. m
      BY <1>4, <1>5, <2>5, <3>1
    <3>2. CASE i \notin 1 .. m
      BY <1>4, <1>7, <1>8, <2>5, <3>2
    <3> QED
      BY <3>1, <3>2
  <2> QED
    BY <2>1, <2>2, <2>3, <2>4, <2>5
<1>13. windows = {WindowOf(entries2[id].payload) : id \in DOMAIN entries2}
                    \cup {WindowOf(ev2[i]) : i \in DOMAIN ev2}
  BY <1>12
<1> QED
  BY <1>3, <1>9, <1>10, <1>11, <1>13 DEF Matched

\* The same for the times at which the windows end.
LEMMA TimelyTick ==
    ASSUME NEW mark, NEW entries, NEW res, NEW entries2, NEW res2, NEW T, NEW order,
           Timely(entries, Payloads(res), mark),
           Moves(entries, res, entries2, res2, T, order)
    PROVE  Timely(entries2, Payloads(res2), mark)
<1>1. PICK m \in Nat, n \in Nat : m = Len(res) /\ n = Cardinality(T)
  BY DEF Moves
<1>2. ASSUME NEW i \in DOMAIN res2 PROVE res2[i].payload.timestamp > mark
  <2>1. i \in 1 .. (m + n)
    BY <1>1 DEF Moves
  <2>2. CASE i \in 1 .. m
    <3>1. res2[i] = res[i] /\ i \in DOMAIN res
      BY <1>1, <2>2 DEF Moves
    <3> QED
      BY <3>1 DEF Timely, Payloads
  <2>3. CASE i \notin 1 .. m
    <3>1. i - m \in 1 .. n /\ i = m + (i - m)
      BY <2>1, <2>3
    <3>2. PICK k \in 1 .. n : i = m + k
      BY <3>1
    <3>3. res2[m + k] = entries[order[k]] /\ order[k] \in T /\ T \subseteq DOMAIN entries
      BY <1>1 DEF Moves
    <3> QED
      BY <3>2, <3>3 DEF Timely
  <2> QED
    BY <2>2, <2>3
<1>3. \A id \in DOMAIN entries2 : id \in DOMAIN entries /\ entries2[id] = entries[id]
  BY DEF Moves
<1> QED
  BY <1>2, <1>3 DEF Timely, Payloads

\* A new window with a new trigger.
LEMMA MatchedNew ==
    ASSUME NEW windows, NEW entries, NEW entries2, NEW id, id \notin DOMAIN entries,
           Matched(windows, entries, <<>>),
           DOMAIN entries2 = DOMAIN entries \cup {id},
           \A i \in DOMAIN entries : entries2[i] = entries[i],
           WindowOf(entries2[id].payload) \notin windows
    PROVE  Matched(windows \cup {WindowOf(entries2[id].payload)}, entries2, <<>>)
<1>1. PICK w : w = WindowOf(entries2[id].payload)
  OBVIOUS
<1>2. \A i \in DOMAIN entries : WindowOf(entries[i].payload) \in windows
  BY DEF Matched
<1>3. \A i, j \in DOMAIN entries2 :
        WindowOf(entries2[i].payload) = WindowOf(entries2[j].payload) => i = j
  BY <1>2 DEF Matched
<1>4. windows = {WindowOf(entries[i].payload) : i \in DOMAIN entries}
  BY DEF Matched
<1>5. windows \cup {w} = {WindowOf(entries2[i].payload) : i \in DOMAIN entries2}
  BY <1>1, <1>4
<1> QED
  BY <1>1, <1>3, <1>5 DEF Matched

\* The first of the events is handled and its window closed.
LEMMA MatchedClose ==
    ASSUME NEW windows, NEW entries, NEW events \in Seq(WindowEvents), events # <<>>,
           Matched(windows, entries, events)
    PROVE  Matched(windows \ {WindowOf(Head(events))}, entries, Tail(events))
<1>1. PICK rest \in Seq(WindowEvents) : rest = Tail(events)
  BY HeadTailProperties
<1>2. PICK n \in Nat : n = Len(rest) /\ Len(events) = n + 1
  BY <1>1
<1>3. /\ DOMAIN rest = 1 .. n /\ DOMAIN events = 1 .. (n + 1)
      /\ \A i \in 1 .. n : rest[i] = events[i + 1]
  BY <1>1, <1>2
<1>4. PICK w : w = WindowOf(events[1]) /\ w = WindowOf(Head(events))
  OBVIOUS
<1>5. \A i \in 1 .. n : i + 1 \in 1 .. (n + 1) /\ i + 1 # 1
  OBVIOUS
<1>6. 1 \in 1 .. (n + 1) /\ \A i \in 1 .. (n + 1) : i # 1 => i - 1 \in 1 .. n /\ (i - 1) + 1 = i
  OBVIOUS
<1>7. ASSUME NEW i \in 1 .. n, NEW j \in 1 .. n, WindowOf(rest[i]) = WindowOf(rest[j])
      PROVE  i = j
  <2>1. PICK k \in 1 .. (n + 1), l \in 1 .. (n + 1) : k = i + 1 /\ l = j + 1
    BY <1>5
  <2>2. WindowOf(events[k]) = WindowOf(events[l])
    BY <1>3, <1>7, <2>1
  <2>3. k = l
    BY <1>3, <2>2 DEF Matched
  <2> QED
    BY <2>1, <2>3
<1>8. \A id \in DOMAIN entries, i \in 1 .. n :
        WindowOf(entries[id].payload) # WindowOf(rest[i])
  BY <1>3, <1>5 DEF Matched
<1>9. ASSUME NEW v
      PROVE  v \in windows \ {w} <=>
               \/ \E id \in DOMAIN entries : v = WindowOf(entries[id].payload)
               \/ \E i \in 1 .. n : v = WindowOf(rest[i])
  <2>1. v \in windows <=>
          \/ \E id \in DOMAIN entries : v = WindowOf(entries[id].payload)
          \/ \E i \in 1 .. (n + 1) : v = WindowOf(events[i])
    BY <1>3 DEF Matched
  <2>2. ASSUME NEW id \in DOMAIN entries PROVE WindowOf(entries[id].payload) # w
    BY <1>3, <1>4, <1>6 DEF Matched
  <2>3. ASSUME NEW i \in 1 .. n PROVE WindowOf(rest[i]) # w
    BY <1>3, <1>4, <1>5, <1>6 DEF Matched
  <2>4. ASSUME NEW i \in 1 .. (n + 1), v = WindowOf(events[i]), v # w
        PROVE  \E j \in 1 .. n : v = WindowOf(rest[j])
    <3>1. i # 1
      BY <1>4, <2>4
    <3> QED
      BY <1>3, <1>6, <2>4, <3>1
  <2>5. ASSUME NEW i \in 1 .. n, v = WindowOf(rest[i])
        PROVE  \E j \in 1 .. (n + 1) : v = WindowOf(events[j])
    BY <1>3, <1>5, <2>5
  <2> QED
    BY <2>1, <2>2, <2>3, <2>4, <2>5
<1>10. windows \ {w} = {WindowOf(entries[id].payload) : id \in DOMAIN entries}
                          \cup {WindowOf(rest[i]) : i \in DOMAIN rest}
  BY <1>3, <1>9
<1> QED
  BY <1>1, <1>3, <1>4, <1>7, <1>8, <1>10 DEF Matched

\* An output that is on time.
LEMMA OnTimeOutput ==
    ASSUME NEW outs, OnTime(outs), NEW out, out.timestamp > out.after
    PROVE  OnTime(Append(outs, out))
<1>1. PICK S : outs \in Seq(S)
  BY DEF OnTime
<1>2. PICK T : T = S \cup {out}
  OBVIOUS
<1>3. outs \in Seq(T) /\ out \in T
  BY <1>1, <1>2, SeqMonotonic
<1>4. PICK new : new = Append(outs, out)
  OBVIOUS
<1>5. new \in Seq(T) /\ Len(outs) \in Nat /\ DOMAIN new = 1 .. (Len(outs) + 1)
  BY <1>3, <1>4
<1>6. \A i \in 1 .. (Len(outs) + 1) :
        IF i \in DOMAIN outs THEN new[i] = outs[i] ELSE new[i] = out
  BY <1>3, <1>4
<1>7. \A i \in DOMAIN new : new[i].timestamp > new[i].after
  BY <1>5, <1>6 DEF OnTime
<1> QED
  BY <1>4, <1>5, <1>7 DEF OnTime

(****************************************************************************)
(* One lemma per action.                                                    *)
(****************************************************************************)

\* The assigner never changes, nor what is computed from it.
LEMMA SameAssigner ==
    ASSUME assigner' = assigner
    PROVE  /\ late_arrival_time' = late_arrival_time /\ window_slide' = window_slide
           /\ window_length' = window_length
           /\ \A start, ts : Ceil(start, ts)' = Ceil(start, ts)
           /\ \A ceil : Floor(ceil)' = Floor(ceil)
    BY DEF late_arrival_time, window_slide, window_length, Ceil, Floor, PerWindow

\* A checkpoint stays what it was.
LEMMA SavedStays ==
    ASSUME assigner' = assigner, saved' = saved, SavedOk
    PROVE  SavedOk'
<1>1. late_arrival_time' = late_arrival_time
  BY SameAssigner
<1> QED
  BY <1>1 DEF SavedOk, Stored

\* The first state.
LEMMA InitWindowInv == Init => WindowInv
<1> SUFFICES ASSUME Init PROVE WindowInv
  OBVIOUS
<1>1. DOMAIN NoTimeouts = {} /\ DOMAIN Nothing = {}
  BY DEF NoTimeouts, Nothing
<1>2. timeouts = NoTimeouts /\ timer = NoTimeouts /\ current_time = 0
  BY DEF Init
<1>3. Kept(timeouts)
  BY <1>1, <1>2 DEF Kept
<1>4. Wheel(timer, timeouts, current_time)
  <2>1. timer \in [{} -> Nat]
    BY <1>2 DEF NoTimeouts
  <2> QED
    BY <1>1, <1>2, <2>1 DEF Wheel
<1>5. TimerInv
  BY <1>2, <1>3, <1>4 DEF TimerInv
<1>6. PhaseInv
  BY DEF Init, PhaseInv
<1>7. Held = <<>> /\ DOMAIN Held = {}
  BY DEF Init, Held
<1>8. Matched(active_windows, timeouts, Held)
  BY <1>1, <1>2, <1>7 DEF Init, Matched
<1>9. Timely(timeouts, Held, forwarded) /\ OnTime(outputs)
  <2>1. outputs = <<>> /\ outputs \in Seq({})
    BY DEF Init
  <2> QED
    BY <1>1, <1>2, <1>7, <2>1 DEF Timely, OnTime
<1>10. Starts(window_start)
  BY <1>1 DEF Init, Starts
<1>11. SavedOk
  BY DEF Init, SavedOk
<1> QED
  BY <1>5, <1>6, <1>8, <1>9, <1>10, <1>11 DEF WindowInv, TriggerInv, Init

\* An element without timestamp has 1.
LEMMA TimestampType ==
    ASSUME NEW t \in 1 .. MaxTimestamp \cup {None}
    PROVE  Timestamp(t) \in 1 .. MaxTimestamp
<1>1. 1 \in 1 .. MaxTimestamp
  BY BoundsAssumption
<1> QED
  BY <1>1 DEF Timestamp

\* An element before its loop: its windows are those from floor to ceil.
LEMMA HandleElementStep ==
    ASSUME WindowInv, NEW k \in ElementKeys, NEW t \in 1 .. MaxTimestamp \cup {None},
           HandleElement(k, t), assigner' = assigner
    PROVE  WindowInv'
<1>1. PICK ts \in 1 .. MaxTimestamp : ts = Timestamp(t)
  BY TimestampType
<1>2. PICK key \in Keys : key = GetKey(k)
  BY DEF GetKey, Keys
<1> DEFINE started == key \in DOMAIN window_start
<1>4. PICK ceil : ceil = IF started THEN Ceil(window_start[key], ts) ELSE 0
  OBVIOUS
<1>5. /\ pc = "idle" /\ ~ IsLate(ts)
      /\ UNCHANGED <<current_time, timeouts, timer, advance, active_windows, buffer,
                     current_watermark, outputs, forwarded, saved>>
  BY <1>1 DEF HandleElement, IsDropped, faults
<1>6. TimerInv'
  BY <1>5 DEF WindowInv, TimerInv, Kept, Wheel
<1>7. SavedOk'
  BY <1>5, SavedStays DEF WindowInv
<1>8. late_arrival_time' = late_arrival_time
  BY SameAssigner
<1>9. CASE pc' = "idle" /\ UNCHANGED <<window_start, todo>>
  <2>1. Held = <<>> /\ Held' = <<>>
    BY <1>5, <1>9 DEF Held
  <2>2. PhaseInv'
    BY <1>5, <1>9 DEF WindowInv, PhaseInv
  <2>3. TriggerInv'
    BY <1>5, <1>8, <1>9, <2>1 DEF WindowInv, TriggerInv
  <2> QED
    BY <1>6, <1>7, <2>2, <2>3 DEF WindowInv
<1>10. CASE /\ window_start' = IF started THEN window_start
                 ELSE [i \in DOMAIN window_start \cup {key} |->
                         IF i = key THEN ts ELSE window_start[i]]
            /\ pc' = "element"
            /\ todo' = [key |-> key, ts |-> ts, ceil |-> ceil, index |-> Floor(ceil)]
  <2>1. Starts(window_start) /\ assigner \in Assigners
    BY DEF WindowInv, TriggerInv
  <2>2. /\ Starts(window_start') /\ key \in DOMAIN window_start'
        /\ window_start'[key] = IF started THEN window_start[key] ELSE ts
    BY <1>10, <2>1 DEF Starts
  <2>3. PICK start \in 1 .. MaxTimestamp : start = window_start'[key]
    BY <2>2 DEF Starts
  <2>4. PICK s \in Nat \ {0} : s = window_slide
    BY <2>1, WindowAssumption DEF window_slide
  <2>5. U64 \in Nat /\ MaxTimestamp \in Nat /\ MaxTimestamp < U64 /\ U64 > 0
    BY <2>1, WindowAssumption, BoundsAssumption
  <2>6. PICK d \in Nat : d = (ts + U64 - start) % U64
    <3>1. ts + U64 - start \in Nat
      BY <2>5
    <3> QED
      BY <2>5, <3>1, WrapsOnce
  <2>7. ceil = d \div s
    <3>1. CASE started
      BY <1>4, <2>2, <2>3, <2>4, <2>6, <3>1 DEF Ceil
    <3>2. CASE ~ started
      <4>1. start = ts
        BY <2>2, <2>3, <3>2
      <4>2. ts + U64 - start = U64
        BY <2>5, <4>1
      <4>3. U64 % U64 = 0
        BY <2>5, WrapsOnce
      <4>4. d = 0
        BY <2>6, <4>2, <4>3
      <4>5. d \div s = 0
        BY <4>4
      <4> QED
        BY <1>4, <3>2, <4>5
    <3> QED
      BY <3>1, <3>2
  <2>8. ceil \in Nat
    BY <2>4, <2>6, <2>7, WholeParts
  <2>9. PICK n \in Nat : n = PerWindow /\ n > 0
    BY <2>1, PerWindowType
  <2>10. Floor(ceil) \in Nat /\ Floor(ceil) <= ceil
    BY <2>8, <2>9 DEF Floor
  <2>11. PICK e : e = todo'
    OBVIOUS
  <2>12. /\ e \in [key : Keys, ts : 1 .. MaxTimestamp, ceil : Nat, index : Nat]
         /\ e.key = key /\ e.ts = ts /\ e.ceil = ceil /\ e.index = Floor(ceil)
    BY <1>10, <2>8, <2>10, <2>11
  <2>13. ceil = Ceil(start, ts)
    BY <2>4, <2>6, <2>7 DEF Ceil
  <2>14. /\ Ceil(start, e.ts)' = Ceil(start, e.ts)
         /\ Floor(e.ceil)' = Floor(e.ceil) /\ IsLate(e.ts)' = IsLate(e.ts)
    BY <1>5, <1>8, SameAssigner DEF IsLate
  <2>15. AtElement(e)'
    <3>1. window_start'[e.key] = start /\ e.key \in DOMAIN window_start'
      BY <2>2, <2>3, <2>12
    <3>2. e.ceil = Ceil(start, e.ts)'
      BY <2>12, <2>13, <2>14
    <3>3. e.ceil = Ceil(window_start[e.key], e.ts)'
      BY <3>1, <3>2 DEF Ceil
    <3>4. Floor(e.ceil)' <= e.index /\ e.index <= e.ceil
      BY <2>10, <2>12, <2>14
    <3>5. ~ IsLate(e.ts)'
      BY <1>5, <2>12, <2>14
    <3> QED
      BY <2>12, <3>1, <3>3, <3>4, <3>5 DEF AtElement
  <2>16. AtElement(todo)'
    BY <2>11, <2>15 DEF AtElement, Ceil, Floor, PerWindow, IsLate, window_slide,
                        window_length, late_arrival_time
  <2>17. PhaseInv'
    BY <1>5, <1>10, <2>16 DEF WindowInv, PhaseInv
  <2>18. Held = <<>> /\ Held' = <<>>
    BY <1>5, <1>10 DEF Held
  <2>19. TriggerInv'
    BY <1>5, <1>8, <2>2, <2>18 DEF WindowInv, TriggerInv
  <2> QED
    BY <1>6, <1>7, <2>1, <2>17, <2>19 DEF WindowInv
<1> QED
  BY <1>1, <1>2, <1>4, <1>5, <1>9, <1>10 DEF HandleElement

\* One iteration of the loop: the element goes on to its next window, or is done.
LEMMA NextWindow ==
    ASSUME WindowInv, pc = "element", UNCHANGED <<assigner, window_start, current_time>>,
           todo.index # todo.ceil, todo' = [todo EXCEPT !.index = @ + 1]
    PROVE  AtElement(todo)'
<1>1. AtElement(todo)
  BY DEF WindowInv, PhaseInv
<1>2. PICK e : e = todo'
  OBVIOUS
<1>3. /\ e \in [key : Keys, ts : 1 .. MaxTimestamp, ceil : Nat, index : Nat]
      /\ e.key = todo.key /\ e.ts = todo.ts /\ e.ceil = todo.ceil /\ e.index = todo.index + 1
      /\ todo.index \in Nat /\ todo.ceil \in Nat /\ todo.index <= todo.ceil
  BY <1>1, <1>2 DEF AtElement
<1>4. PICK f : f = Floor(e.ceil)
  OBVIOUS
<1>5. f \in Int
  BY <1>3, <1>4, PerWindowType DEF WindowInv, Floor
<1>6. f <= e.index /\ e.index <= e.ceil
  BY <1>1, <1>3, <1>4, <1>5 DEF AtElement
<1>7. e.ceil = Ceil(window_start[e.key], e.ts) /\ ~ IsLate(e.ts) /\ e.key \in DOMAIN window_start
  BY <1>1, <1>3 DEF AtElement
<1>8. AtElement(e)
  BY <1>3, <1>4, <1>6, <1>7 DEF AtElement
<1>9. AtElement(e)'
  BY <1>8 DEF AtElement, Ceil, Floor, PerWindow, IsLate, window_slide, window_length,
              late_arrival_time
<1> QED
  BY <1>2, <1>9 DEF AtElement, Ceil, Floor, PerWindow, IsLate, window_slide,
                    window_length, late_arrival_time

\* The element in one of its windows, which gets a trigger if it is new.
LEMMA InsertStep ==
    ASSUME WindowInv, InsertIntoWindow, assigner' = assigner
    PROVE  WindowInv'
<1>1. /\ pc = "element" /\ AtElement(todo) /\ assigner \in Assigners
      /\ TimerInv /\ Starts(window_start) /\ current_time \in Nat
      /\ advance = None /\ current_time = current_watermark
      /\ forwarded \in Nat /\ forwarded <= current_time
  BY DEF WindowInv, PhaseInv, TimerInv, TriggerInv, InsertIntoWindow
<1>2. /\ UNCHANGED <<current_time, advance, window_start, current_watermark, forwarded,
                     outputs, saved>>
  BY DEF InsertIntoWindow, history, faults
<1>3. Held = <<>> /\ Held' = <<>>
  BY <1>1 DEF InsertIntoWindow, Held
<1>4. PICK w : w = <<todo.key, todo.index>>
  OBVIOUS
<1>5. active_windows' = active_windows \cup {w}
  BY <1>4 DEF InsertIntoWindow
<1>6. PICK time \in Nat : time = Trigger(todo.key, todo.index)
  BY <1>1, TriggerInFuture
<1>7. PICK end \in Nat : end = End(todo.key, todo.index)
  BY <1>1, TriggerInFuture
<1>8. current_time < time /\ (late_arrival_time = 0 => time = end)
  BY <1>1, <1>6, <1>7, TriggerInFuture
<1>9. ~ Expired(time)
  BY <1>1, <1>8 DEF Expired
<1>10. late_arrival_time' = late_arrival_time /\ SavedOk'
  BY <1>2, SameAssigner, SavedStays DEF WindowInv
<1>11. /\ pc' \in {"idle", "element"}
       /\ pc' = "element" => AtElement(todo)'
  <2>1. CASE todo.index = todo.ceil
    BY <2>1 DEF InsertIntoWindow
  <2>2. CASE todo.index # todo.ceil
    <3>1. todo' = [todo EXCEPT !.index = @ + 1] /\ pc' = "element"
      BY <1>1, <2>2 DEF InsertIntoWindow
    <3> QED
      BY <1>1, <1>2, <2>2, <3>1, NextWindow
  <2> QED
    BY <2>1, <2>2
<1>12. PhaseInv'
  BY <1>1, <1>2, <1>11 DEF PhaseInv
<1>13. Matched(active_windows, timeouts, <<>>)
  BY <1>3 DEF WindowInv, TriggerInv
<1>14. late_arrival_time = 0 => Timely(timeouts, <<>>, forwarded) /\ OnTime(outputs)
  BY <1>3 DEF WindowInv, TriggerInv
<1>15. CASE ~ NeedsTrigger(w)
  <2>1. UNCHANGED <<timeouts, timer>> /\ active_windows' = active_windows
    BY <1>4, <1>5, <1>15 DEF InsertIntoWindow, NeedsTrigger
  <2>2. TimerInv'
    BY <1>1, <1>2, <2>1 DEF TimerInv, Kept, Wheel
  <2>3. TriggerInv'
    BY <1>1, <1>2, <1>3, <1>10, <1>13, <1>14, <2>1 DEF TriggerInv
  <2> QED
    BY <1>1, <1>10, <1>12, <2>2, <2>3 DEF WindowInv
<1>16. CASE NeedsTrigger(w)
  <2>1. PICK event : event = WindowEvent(todo.key, todo.index)
    OBVIOUS
  <2>2. event \in WindowEvents /\ WindowOf(event) = w /\ event.timestamp = end
    BY <1>1, <1>4, <1>7, <2>1 DEF WindowEvent, WindowEvents, WindowOf, AtElement
  <2>3. ScheduleAt(time, event)
    BY <1>4, <1>6, <1>9, <1>16, <2>1 DEF InsertIntoWindow
  <2>4. TimerInv'
    BY <1>1, <1>2, <2>2, <2>3, Scheduled
  <2>5. PICK id \in Ids \ DOMAIN timeouts :
          /\ DOMAIN timeouts' = DOMAIN timeouts \cup {id}
          /\ \A i \in DOMAIN timeouts : timeouts'[i] = timeouts[i]
          /\ timeouts'[id].payload = event /\ Due(timeouts'[id]) = time
    BY <1>1, <1>2, <2>2, <2>3, Scheduled
  <2>6. PICK entries : entries = timeouts'
    OBVIOUS
  <2>7. Matched(active_windows', entries, <<>>)
    <3>1. WindowOf(entries[id].payload) \notin active_windows
      BY <1>16, <2>2, <2>5, <2>6 DEF NeedsTrigger
    <3>2. Matched(active_windows \cup {WindowOf(entries[id].payload)}, entries, <<>>)
      BY <1>13, <2>5, <2>6, <3>1, MatchedNew
    <3> QED
      BY <1>5, <2>2, <2>5, <2>6, <3>2
  <2>8. ASSUME late_arrival_time = 0
        PROVE  Timely(entries, <<>>, forwarded) /\ OnTime(outputs)
    <3>1. end = time /\ end > forwarded
      BY <1>1, <1>8, <2>8
    <3>2. ASSUME NEW i \in DOMAIN entries
          PROVE  entries[i].payload.timestamp = Due(entries[i]) /\ entries[i].payload.timestamp > forwarded
      <4>1. CASE i = id
        BY <2>2, <2>5, <2>6, <3>1, <4>1
      <4>2. CASE i # id
        <5>1. i \in DOMAIN timeouts /\ entries[i] = timeouts[i]
          BY <2>5, <2>6, <4>2
        <5> QED
          BY <1>14, <2>8, <5>1 DEF Timely
      <4> QED
        BY <4>1, <4>2
    <3> QED
      BY <1>14, <2>8, <3>2 DEF Timely
  <2>9. TriggerInv'
    BY <1>1, <1>2, <1>3, <1>10, <2>6, <2>7, <2>8 DEF TriggerInv
  <2> QED
    BY <1>1, <1>10, <1>12, <2>4, <2>9 DEF WindowInv
<1> QED
  BY <1>15, <1>16

\* A watermark starts a call of advance_to.
LEMMA WatermarkStep ==
    ASSUME WindowInv, NEW w \in 1 .. MaxTime, HandleWatermark(w), assigner' = assigner
    PROVE  WindowInv'
<1>1. /\ TimerInv /\ Starts(window_start) /\ forwarded \in Nat /\ forwarded <= current_time
      /\ pc = "idle" /\ w \in Nat
  BY DEF WindowInv, PhaseInv, TriggerInv, HandleWatermark
<1>2. /\ AdvanceTo(w) /\ pc' = "advance" /\ current_watermark' = w
      /\ UNCHANGED <<window_start, active_windows, current_time, timeouts, timer,
                     outputs, forwarded, saved>>
  BY DEF HandleWatermark, AdvanceTo, windowVars, history, faults
<1>3. /\ Collected(advance', timeouts, current_time) /\ advance'.ts = w
      /\ advance'.res = <<>>
  BY <1>1, <1>2, AdvanceStarts
<1>4. Held = <<>> /\ Held' = <<>>
  BY <1>1, <1>2, <1>3 DEF Held, Payloads
<1>5. late_arrival_time' = late_arrival_time /\ SavedOk'
  BY <1>2, SameAssigner, SavedStays DEF WindowInv
<1>6. TimerInv'
  BY <1>1, <1>2 DEF TimerInv
<1>7. PhaseInv'
  BY <1>1, <1>2, <1>3 DEF PhaseInv
<1>8. TriggerInv'
  BY <1>2, <1>4, <1>5 DEF WindowInv, TriggerInv
<1> QED
  BY <1>5, <1>6, <1>7, <1>8 DEF WindowInv

\* One iteration of advance_to.
LEMMA AdvanceStep ==
    ASSUME WindowInv, AdvanceTimer, assigner' = assigner
    PROVE  WindowInv'
<1>1. /\ TimerInv /\ Starts(window_start) /\ forwarded \in Nat /\ forwarded <= current_time
      /\ pc = "advance" /\ Collected(advance, timeouts, current_time)
      /\ advance.ts = current_watermark /\ current_watermark \in Nat /\ current_time \in Nat
  BY DEF WindowInv, PhaseInv, TimerInv, TriggerInv, AdvanceTimer
<1>2. UNCHANGED <<window_start, active_windows, current_watermark, pc, outputs, forwarded, saved>>
  BY DEF AdvanceTimer, windowVars, history, faults
<1>3. Held = Payloads(advance.res) /\ Held' = Payloads(advance'.res)
  BY <1>1, <1>2 DEF Held, Payloads
<1>4. late_arrival_time' = late_arrival_time /\ SavedOk'
  BY <1>2, SameAssigner, SavedStays DEF WindowInv
<1>5. /\ Matched(active_windows, timeouts, Payloads(advance.res))
      /\ late_arrival_time = 0 =>
           Timely(timeouts, Payloads(advance.res), forwarded) /\ OnTime(outputs)
  BY <1>3 DEF WindowInv, TriggerInv
<1>6. ASSUME TimerInv', Collected(advance', timeouts', current_time'),
             current_time <= current_time', advance'.ts = advance.ts,
             Matched(active_windows, timeouts', Payloads(advance'.res)),
             late_arrival_time = 0 => Timely(timeouts', Payloads(advance'.res), forwarded)
      PROVE  WindowInv'
  <2>1. current_time' \in Nat
    BY <1>6 DEF TimerInv
  <2>2. forwarded <= current_time'
    BY <1>1, <1>6, <2>1
  <2>3. PhaseInv'
    BY <1>1, <1>2, <1>6, <2>2 DEF PhaseInv
  <2>4. TriggerInv'
    BY <1>1, <1>2, <1>3, <1>4, <1>5, <1>6 DEF TriggerInv
  <2> QED
    BY <1>4, <1>6, <2>3, <2>4 DEF WindowInv
<1>7. CASE NextChunk
  <2>1. UNCHANGED <<current_time, timeouts, timer>>
    BY <1>7 DEF NextChunk
  <2>2. TimerInv'
    BY <1>1, <2>1 DEF TimerInv
  <2>3. /\ Collected(advance', timeouts, current_time)
        /\ advance'.ts = advance.ts /\ advance'.res = advance.res
    BY <1>1, <1>7, ChunkCollects
  <2> QED
    BY <1>1, <1>5, <1>6, <2>1, <2>2, <2>3
<1>8. CASE SkipEmpty
  <2>1. timeouts' = timeouts
    BY <1>8 DEF SkipEmpty
  <2> QED
    BY <1>1, <1>5, <1>6, <1>8, <2>1, EmptyCollects
<1>9. ASSUME timer # NoTimeouts, NEW n \in Skips, SkipMillis(n) PROVE WindowInv'
  <2>1. timeouts' = timeouts
    BY <1>9 DEF SkipMillis
  <2>2. /\ TimerInv'
        /\ Collected(advance', timeouts, current_time') /\ current_time <= current_time'
        /\ advance'.ts = advance.ts /\ advance'.res = advance.res
    BY <1>1, <1>9, SkipCollects
  <2> QED
    BY <1>5, <1>6, <2>1, <2>2
<1>10. ASSUME NEW order \in SetToSeqs(Ticked), Tick(order) PROVE WindowInv'
  <2>1. /\ Moves(timeouts, advance.res, timeouts', advance'.res, Ticked, order)
        /\ advance'.ts = advance.ts
    BY <1>1, <1>10, TickMoves
  <2>2. /\ TimerInv'
        /\ Collected(advance', timeouts', current_time') /\ current_time <= current_time'
    BY <1>1, <1>10, TickCollects
  <2>3. Matched(active_windows, timeouts', Payloads(advance'.res))
    BY <1>5, <2>1, MatchedTick
  <2>4. late_arrival_time = 0 => Timely(timeouts', Payloads(advance'.res), forwarded)
    BY <1>5, <2>1, TimelyTick
  <2> QED
    BY <1>6, <2>1, <2>2, <2>3, <2>4
<1> QED
  BY <1>7, <1>8, <1>9, <1>10 DEF AdvanceTimer, TickAndCollect

\* advance_to returns: its result is what has to be handled.
LEMMA ReturnStep ==
    ASSUME WindowInv, TimerReturns, assigner' = assigner
    PROVE  WindowInv'
<1>1. /\ TimerInv /\ Starts(window_start) /\ forwarded \in Nat /\ forwarded <= current_time
      /\ pc = "advance" /\ Collected(advance, timeouts, current_time)
      /\ advance.ts = current_watermark /\ current_watermark \in Nat /\ current_time \in Nat
  BY DEF WindowInv, PhaseInv, TimerInv, TriggerInv, TimerReturns
<1>2. /\ pc' = "timeouts" /\ advance' = None /\ todo' = Payloads(advance.res)
      /\ advance.time_left = 0 /\ advance.ahead = 0
      /\ UNCHANGED <<current_time, timeouts, timer, window_start, active_windows,
                     current_watermark, outputs, forwarded, saved>>
  BY DEF TimerReturns, Returned, windowVars, history, faults
<1>3. Held = Payloads(advance.res) /\ Held' = Payloads(advance.res)
  BY <1>1, <1>2 DEF Held
<1>4. late_arrival_time' = late_arrival_time /\ SavedOk'
  BY <1>2, SameAssigner, SavedStays DEF WindowInv
<1>5. current_time = current_watermark
  BY <1>1, <1>2 DEF Collected
<1>6. todo' \in Seq(WindowEvents)
  <2>1. PICK res \in Seq(TimerEvents) : res = advance.res
    BY <1>1 DEF Collected, Advances
  <2>2. PICK n \in Nat : n = Len(res)
    OBVIOUS
  <2>3. \A i \in 1 .. n : res[i].payload \in WindowEvents
    BY <2>2, DueType
  <2>4. todo' = [i \in 1 .. n |-> res[i].payload]
    BY <1>2, <2>1, <2>2 DEF Payloads
  <2> QED
    BY <2>3, <2>4
<1>7. TimerInv'
  BY <1>1, <1>2 DEF TimerInv
<1>8. PhaseInv'
  BY <1>1, <1>2, <1>5, <1>6 DEF PhaseInv
<1>9. TriggerInv'
  BY <1>2, <1>3, <1>4 DEF WindowInv, TriggerInv
<1> QED
  BY <1>4, <1>7, <1>8, <1>9 DEF WindowInv

\* The trigger of a window: its result is output before the watermark is.
LEMMA TimeoutStep ==
    ASSUME WindowInv, HandleTimeout, assigner' = assigner
    PROVE  WindowInv'
<1>1. /\ TimerInv /\ PhaseInv /\ Starts(window_start) /\ forwarded \in Nat
      /\ pc = "timeouts" /\ todo \in Seq(WindowEvents) /\ todo # <<>>
  BY DEF WindowInv, PhaseInv, TriggerInv, HandleTimeout
<1>2. UNCHANGED <<current_time, timeouts, timer, advance, current_watermark, pc,
                  forwarded, saved, window_start>>
  BY DEF HandleTimeout, faults, windowVars
<1>3. late_arrival_time' = late_arrival_time /\ SavedOk'
  BY <1>2, SameAssigner, SavedStays DEF WindowInv
<1>4. TimerInv'
  BY <1>1, <1>2 DEF TimerInv
<1>5. Held = todo /\ Held' = todo'
  BY <1>1, <1>2 DEF Held
<1>6. /\ Matched(active_windows, timeouts, todo)
      /\ late_arrival_time = 0 => Timely(timeouts, todo, forwarded) /\ OnTime(outputs)
  BY <1>5 DEF WindowInv, TriggerInv
<1>7. CASE UNCHANGED <<windowVars, outputs, todo>>
  <2>1. UNCHANGED <<active_windows, outputs, todo>>
    BY <1>7 DEF windowVars
  <2>2. PhaseInv'
    BY <1>1, <1>2, <2>1 DEF PhaseInv
  <2>3. TriggerInv'
    BY <1>1, <1>2, <1>3, <1>5, <1>6, <2>1 DEF TriggerInv
  <2> QED
    BY <1>3, <1>4, <2>2, <2>3 DEF WindowInv
<1>8. ASSUME NEW event, event = Head(todo),
             outputs' = Append(outputs, [window |-> <<event.key, event.index>>,
                                   result |-> WindowAt(<<event.key, event.index>>),
                                   timestamp |-> event.timestamp, after |-> forwarded]),
             active_windows' = active_windows \ {<<event.key, event.index>>},
             todo' = Tail(todo)
      PROVE  WindowInv'
  <2>1. todo' \in Seq(WindowEvents)
    BY <1>1, <1>8, HeadTailProperties
  <2>2. PhaseInv'
    BY <1>1, <1>2, <2>1 DEF PhaseInv
  <2>3. Matched(active_windows', timeouts, todo')
    BY <1>1, <1>6, <1>8, MatchedClose DEF WindowOf
  <2>4. ASSUME late_arrival_time = 0
        PROVE  Timely(timeouts, todo', forwarded) /\ OnTime(outputs')
    <3>1. Timely(timeouts, todo, forwarded) /\ OnTime(outputs)
      BY <1>6, <2>4
    <3>2. todo[1] = event /\ 1 \in DOMAIN todo
      BY <1>1, <1>8
    <3>3. event.timestamp > forwarded
      BY <3>1, <3>2 DEF Timely
    <3>4. PICK out : out = [window |-> <<event.key, event.index>>,
                            result |-> WindowAt(<<event.key, event.index>>),
                            timestamp |-> event.timestamp, after |-> forwarded]
      OBVIOUS
    <3>5. out.timestamp > out.after
      BY <3>3, <3>4
    <3>6. OnTime(outputs')
      BY <1>8, <3>1, <3>4, <3>5, OnTimeOutput
    <3>7. \A i \in DOMAIN Tail(todo) : Tail(todo)[i] = todo[i + 1] /\ i + 1 \in DOMAIN todo
      BY <1>1
    <3>8. Timely(timeouts, todo', forwarded)
      BY <1>8, <3>1, <3>7 DEF Timely
    <3> QED
      BY <3>6, <3>8
  <2>5. TriggerInv'
    BY <1>1, <1>2, <1>3, <1>5, <2>3, <2>4 DEF TriggerInv
  <2> QED
    BY <1>3, <1>4, <2>2, <2>5 DEF WindowInv
<1> QED
  BY <1>7, <1>8 DEF HandleTimeout

\* The watermark goes on, and the node waits for the next message.
LEMMA ForwardStep ==
    ASSUME WindowInv, ForwardWatermark, assigner' = assigner
    PROVE  WindowInv'
<1>1. /\ TimerInv /\ PhaseInv /\ Starts(window_start) /\ pc = "timeouts" /\ todo = <<>>
      /\ current_time \in Nat /\ current_time = current_watermark /\ advance = None
  BY DEF WindowInv, PhaseInv, TimerInv, TriggerInv, ForwardWatermark
<1>2. /\ pc' = "idle" /\ forwarded' = current_watermark
      /\ UNCHANGED <<current_time, timeouts, timer, advance, current_watermark,
                     window_start, active_windows, outputs, saved>>
  BY DEF ForwardWatermark, faults, windowVars, timerVars
<1>3. late_arrival_time' = late_arrival_time /\ SavedOk'
  BY <1>2, SameAssigner, SavedStays DEF WindowInv
<1>4. TimerInv'
  BY <1>1, <1>2 DEF TimerInv
<1>5. Held = <<>> /\ Held' = <<>>
  BY <1>1, <1>2 DEF Held
<1>6. PhaseInv'
  BY <1>1, <1>2 DEF PhaseInv
<1>7. ASSUME NEW id \in DOMAIN timeouts PROVE Due(timeouts[id]) > current_time
  BY <1>1 DEF TimerInv, Wheel
<1>8. TriggerInv'
  BY <1>1, <1>2, <1>3, <1>5, <1>7 DEF WindowInv, TriggerInv, Timely
<1> QED
  BY <1>3, <1>4, <1>6, <1>8 DEF WindowInv

\* A checkpoint of what is in the backend.
LEMMA CheckpointStep ==
    ASSUME WindowInv, Checkpoint, assigner' = assigner
    PROVE  WindowInv'
<1>1. /\ TimerInv /\ PhaseInv /\ TriggerInv /\ pc = "idle"
      /\ current_time \in Nat /\ current_time = current_watermark /\ forwarded <= current_time
  BY DEF WindowInv, PhaseInv, TimerInv, Checkpoint
<1>2. UNCHANGED <<current_time, timeouts, timer, advance, current_watermark, forwarded,
                  window_start, active_windows, outputs, pc, todo>>
  BY DEF Checkpoint, windowVars, timerVars, history
<1>3. late_arrival_time' = late_arrival_time
  BY SameAssigner
<1>4. TimerInv'
  BY <1>1, <1>2 DEF TimerInv
<1>5. Held = <<>> /\ Held' = <<>>
  BY <1>1, <1>2 DEF Held
<1>6. PhaseInv'
  BY <1>1, <1>2 DEF PhaseInv
<1>7. TriggerInv'
  BY <1>1, <1>2, <1>3, <1>5 DEF TriggerInv
<1>8. \A id \in DOMAIN timeouts : Due(timeouts[id]) > current_time
  BY <1>1 DEF TimerInv, Wheel
<1>9. Stored(current_time, timeouts, window_start, active_windows, current_watermark,
             outputs, forwarded)
  BY <1>1, <1>5, <1>8 DEF Stored, TimerInv, TriggerInv, PhaseInv
<1>10. PICK s : s = saved'
  OBVIOUS
<1>11. /\ s[1] = current_time /\ s[2] = timeouts /\ s[3][1] = window_start
       /\ s[3][2] = active_windows /\ s[4] = current_watermark /\ s[5][2] = outputs
       /\ s[5][3] = forwarded
  BY <1>10 DEF Checkpoint, windowVars, history
<1>12. Stored(s[1], s[2], s[3][1], s[3][2], s[4], s[5][2], s[5][3])
  BY <1>9, <1>11
<1>13. SavedOk'
  BY <1>3, <1>10, <1>12 DEF SavedOk, Stored
<1> QED
  BY <1>4, <1>6, <1>7, <1>13 DEF WindowInv

\* A restart: every timeout of the checkpoint is still in the future.
LEMMA RestartStep ==
    ASSUME WindowInv, Restart, assigner' = assigner
    PROVE  WindowInv'
<1>1. PICK t, en, ws, aw, wm, outs, fwd :
        /\ t = saved[1] /\ en = saved[2] /\ ws = saved[3][1] /\ aw = saved[3][2]
        /\ wm = saved[4] /\ outs = saved[5][2] /\ fwd = saved[5][3]
  OBVIOUS
<1>2. Stored(t, en, ws, aw, wm, outs, fwd)
  BY <1>1 DEF WindowInv, SavedOk, Restart
<1>3. /\ window_start' = ws /\ active_windows' = aw /\ current_watermark' = wm
      /\ outputs' = outs /\ forwarded' = fwd /\ pc' = "idle" /\ saved' = saved
      /\ InitTimer(t, en)
  BY <1>1 DEF Restart
<1>4. t \in Nat /\ t # None /\ \A id \in DOMAIN en : Due(en[id]) > t /\ Due(en[id]) \in Nat
  BY <1>2, TimerAssumption, DueType DEF Stored, Kept
<1>5. /\ current_time' = t /\ timeouts' = en /\ advance' = None
      /\ timer' = [id \in DOMAIN en |-> Due(en[id]) - t]
  BY <1>3, <1>4 DEF InitTimer
<1>6. Wheel(timer', en, t)
  <2>1. \A id \in DOMAIN en :
          Due(en[id]) - t \in Nat /\ Due(en[id]) - t > 0 /\ t + (Due(en[id]) - t) = Due(en[id])
    BY <1>4
  <2> QED
    BY <1>5, <2>1 DEF Wheel
<1>7. TimerInv'
  BY <1>2, <1>4, <1>5, <1>6 DEF TimerInv, Stored
<1>8. PhaseInv'
  BY <1>2, <1>3, <1>5 DEF PhaseInv, Stored
<1>9. Held' = <<>> /\ late_arrival_time' = late_arrival_time
  BY <1>3, SameAssigner DEF Held
<1>10. TriggerInv'
  BY <1>2, <1>3, <1>5, <1>9 DEF TriggerInv, Stored
<1>11. SavedOk'
  BY <1>3, SavedStays DEF WindowInv
<1> QED
  BY <1>7, <1>8, <1>10, <1>11 DEF WindowInv

(****************************************************************************)
(* The theorems.                                                            *)
(****************************************************************************)

\* Every step keeps the invariant.
LEMMA WindowInvStep == WindowInv /\ [Next]_vars => WindowInv'
<1> SUFFICES ASSUME WindowInv, [Next]_vars PROVE WindowInv'
  OBVIOUS
<1>1. ASSUME UNCHANGED vars PROVE WindowInv'
  <2>1. /\ UNCHANGED <<assigner, current_time, timeouts, timer, advance, window_start,
                       active_windows, current_watermark, pc, todo, outputs, forwarded, saved>>
    BY <1>1 DEF vars, timerVars, windowVars, history, faults
  <2>2. late_arrival_time' = late_arrival_time /\ SavedOk'
    BY <2>1, SameAssigner, SavedStays DEF WindowInv
  <2>3. TimerInv'
    BY <2>1 DEF WindowInv, TimerInv
  <2>4. Held' = Held
    BY <2>1 DEF Held, Payloads
  <2>5. TriggerInv'
    BY <2>1, <2>2, <2>4 DEF WindowInv, TriggerInv
  <2>6. AtElement(todo)' <=> AtElement(todo)
    BY <2>1 DEF AtElement, Ceil, Floor, PerWindow, IsLate, window_slide, window_length,
                late_arrival_time
  <2>7. PhaseInv'
    BY <2>1, <2>6 DEF WindowInv, PhaseInv
  <2> QED
    BY <2>1, <2>2, <2>3, <2>5, <2>7 DEF WindowInv
<1>2. ASSUME NEW k \in ElementKeys, NEW t \in 1 .. MaxTimestamp \cup {None},
             DropElement(t) \/ HandleElement(k, t), assigner' = assigner
      PROVE  WindowInv'
  BY <1>1, <1>2, HandleElementStep DEF DropElement
<1>3. CASE Message
  BY <1>2, <1>3, WatermarkStep, CheckpointStep DEF Message
<1>4. CASE Handler
  BY <1>4, InsertStep, AdvanceStep, ReturnStep, TimeoutStep, ForwardStep DEF Handler
<1>5. CASE Restart /\ UNCHANGED assigner
  BY <1>5, RestartStep
<1> QED
  BY <1>1, <1>3, <1>4, <1>5 DEF Next

\* The invariant holds throughout.
THEOREM WindowInvariant == Spec => []WindowInv
<1> QED
  BY InitWindowInv, WindowInvStep, PTL DEF Spec

(* The wheel always has exactly the timeouts of the backend, each with the   *)
(* time left, at every iteration of advance_to and after every restart       *)
(* (schedule_after, tick_and_collect, replay_events).                        *)
THEOREM WheelIsExact == Spec => []WheelAgrees
<1>1. WindowInv => WheelAgrees
  BY DEF WindowInv, TimerInv, Wheel, WheelAgrees
<1> QED
  BY <1>1, WindowInvariant, PTL

(* advance_to returns all timeouts due by its timestamp, each once and in    *)
(* order, whatever the wheel skips and however often u32::MAX cuts the time. *)
THEOREM AdvanceIsComplete == Spec => []AdvanceReturnsDue
<1>1. WindowInv => AdvanceReturnsDue
  <2> SUFFICES ASSUME WindowInv, Returned PROVE
                 /\ current_time = advance.ts
                 /\ \A id \in DOMAIN timeouts : Due(timeouts[id]) > advance.ts
                 /\ Len(advance.res) = Cardinality(advance.due)
                 /\ InDueOrder(advance.res)
    BY DEF AdvanceReturnsDue, InDueOrder
  <2>1. /\ Collected(advance, timeouts, current_time) /\ TimerInv
        /\ advance.time_left = 0 /\ advance.ahead = 0
    BY DEF WindowInv, PhaseInv, Returned
  <2>2. current_time \in Nat /\ current_time = advance.ts
    BY <2>1 DEF Collected, TimerInv
  <2>3. \A id \in DOMAIN timeouts : Due(timeouts[id]) > advance.ts /\ Due(timeouts[id]) \in Nat
    BY <2>1, <2>2, DueType DEF TimerInv, Wheel, Kept
  <2>4. DueBy(timeouts, advance.ts) = {}
    BY <2>2, <2>3 DEF DueBy
  <2>5. Len(advance.res) \in Nat
    BY <2>1 DEF Collected, Advances
  <2>6. Len(advance.res) = Cardinality(advance.due)
    <3>1. Cardinality(DueBy(timeouts, advance.ts)) = 0
      BY <2>4, FS_EmptySet
    <3>2. Len(advance.res) + Cardinality(DueBy(timeouts, advance.ts)) = Cardinality(advance.due)
      BY <2>1 DEF Collected
    <3> QED
      BY <2>5, <3>1, <3>2
  <2> QED
    BY <2>1, <2>2, <2>3, <2>6 DEF Collected
<1> QED
  BY <1>1, WindowInvariant, PTL

(* Between two messages the open windows and the pending timeouts correspond *)
(* one to one, also after a restart (handle_element, handle_timeout).        *)
THEOREM OneTriggerEach == Spec => []OneTriggerPerWindow
<1>1. WindowInv => OneTriggerPerWindow
  <2> SUFFICES ASSUME WindowInv, pc = "idle" PROVE
                 /\ current_time = current_watermark
                 /\ active_windows = {WindowOf(timeouts[id].payload) : id \in DOMAIN timeouts}
                 /\ Cardinality(active_windows) = Cardinality(DOMAIN timeouts)
    BY DEF OneTriggerPerWindow, WindowOf
  <2>1. /\ current_time = current_watermark /\ Kept(timeouts)
        /\ Matched(active_windows, timeouts, <<>>)
    BY DEF WindowInv, PhaseInv, TimerInv, TriggerInv, Held
  <2>2. active_windows = {WindowOf(timeouts[id].payload) : id \in DOMAIN timeouts}
    BY <2>1 DEF Matched
  <2>3. PICK f : f = [id \in DOMAIN timeouts |-> WindowOf(timeouts[id].payload)]
    OBVIOUS
  <2>4. /\ f \in [DOMAIN timeouts -> active_windows]
        /\ \A id, jd \in DOMAIN timeouts : f[id] = f[jd] => id = jd
        /\ \A w \in active_windows : \E id \in DOMAIN timeouts : f[id] = w
    BY <2>1, <2>2, <2>3 DEF Matched
  <2>5. f \in Bijection(DOMAIN timeouts, active_windows)
    BY <2>4 DEF Bijection, Injection, Surjection, IsInjective
  <2>6. IsFiniteSet(DOMAIN timeouts)
    BY <2>1, FewTimeouts
  <2>7. Cardinality(active_windows) = Cardinality(DOMAIN timeouts)
    BY <2>5, <2>6, FS_Bijection DEF ExistsBijection
  <2> QED
    BY <2>1, <2>2, <2>7
<1> QED
  BY <1>1, WindowInvariant, PTL

(* handle_element's unreachable! is unreachable: whatever the first element  *)
(* of the key was, also when the distance to it wraps around in a build      *)
(* without overflow checks.                                                  *)
THEOREM UnreachableIsUnreachable == Spec => []TriggersAreInTheFuture
<1>1. WindowInv => TriggersAreInTheFuture
  <2> SUFFICES ASSUME WindowInv, pc = "element"
               PROVE  ~ Expired(Trigger(todo.key, todo.index))
    BY DEF TriggersAreInTheFuture
  <2>1. /\ AtElement(todo) /\ current_time \in Nat /\ assigner \in Assigners
        /\ Starts(window_start)
    BY DEF WindowInv, PhaseInv, TimerInv, TriggerInv
  <2>2. /\ Trigger(todo.key, todo.index) \in Nat
        /\ current_time < Trigger(todo.key, todo.index)
    BY <2>1, TriggerInFuture
  <2> QED
    BY <2>1, <2>2 DEF Expired
<1> QED
  BY <1>1, WindowInvariant, PTL

(* Without late_arrival_time a result is never behind a watermark that was   *)
(* forwarded before it, so no node downstream drops it.                      *)
THEOREM ResultsComeInTime == Spec => []ResultsAreOnTime
<1>1. WindowInv => ResultsAreOnTime
  BY DEF WindowInv, TriggerInv, OnTime, ResultsAreOnTime
<1> QED
  BY <1>1, WindowInvariant, PTL

(****************************************************************************)
(* What the windows hold: a second invariant, on top of the first.          *)
(****************************************************************************)

Elements == [key : Keys, ts : 1 .. MaxTimestamp]
Windows(start) == (DOMAIN start) \X Nat

\* The windows of an element as handle_element counts them, in u64 arithmetic,
\* and the accepted elements that go into a window; an element still has to be
\* put into the windows `rest'.
CeilOf(a, start, ts) == ((ts + U64 - start) % U64) \div a.window_slide
FloorOf(a, ceil) ==
    IF ceil >= a.window_length \div a.window_slide
    THEN ceil - (a.window_length \div a.window_slide) + 1 ELSE 0
GoesInto(a, start, index, ts) ==
    FloorOf(a, CeilOf(a, start, ts)) <= index /\ index <= CeilOf(a, start, ts)
Belonging(a, acc, start, w) ==
    {i \in DOMAIN acc : acc[i].key = w[1] /\ GoesInto(a, start[w[1]], w[2], acc[i].ts)}
Inserted(a, acc, start, rest, w) ==
    {i \in Belonging(a, acc, start, w) : w \in rest => i # Len(acc)}
Rest == IF pc = "element" THEN {<<todo.key, i>> : i \in todo.index .. todo.ceil} ELSE {}

\* A result has the elements of a set of indices, in order of arrival.
Lists(result, S, acc) ==
    /\ result \in Seq(Nat)
    /\ \E at \in [1 .. Len(result) -> S] :
         /\ \A m, n \in DOMAIN at : m < n => at[m] < at[n]
         /\ \A i \in S : \E n \in DOMAIN at : at[n] = i
         /\ result = [n \in DOMAIN at |-> acc[at[n]].ts]

ClosedBy(outs) == {outs[j].window : j \in DOMAIN outs}
Contents(a, acc, start, windows, buf, outs, rest) ==
    /\ acc \in Seq(Elements) /\ \A i \in DOMAIN acc : acc[i].key \in DOMAIN start
    /\ OverflowChecks => \A i \in DOMAIN acc : start[acc[i].key] <= acc[i].ts
    /\ DOMAIN buf = windows /\ windows \subseteq Windows(start)
    /\ \A w \in windows : Lists(buf[w], Inserted(a, acc, start, rest, w), acc)
    /\ \A k \in DOMAIN start, index \in Nat :
         Inserted(a, acc, start, rest, <<k, index>>) # {} =>
             <<k, index>> \in windows \cup ClosedBy(outs)
    /\ \A j \in DOMAIN outs : Lists(outs[j].result, Belonging(a, acc, start, outs[j].window), acc)

\* Every window is closed by its trigger, once: no window that is open, or that
\* an element is still to be put into, was closed before.
TriggerOf(a, start, w) ==
    (((start[w[1]] + w[2] * a.window_slide + a.window_length) % U64) + a.late_arrival_time) % U64
AtTrigger(a, start, entry) ==
    /\ WindowOf(entry.payload) \in Windows(start)
    /\ Due(entry) = TriggerOf(a, start, WindowOf(entry.payload))
Closing(a, start, entries, windows, outs, now) ==
    /\ \E S : outs \in Seq(S)
    /\ \A id \in DOMAIN entries : AtTrigger(a, start, entries[id])
    /\ \A j \in DOMAIN outs :
         /\ outs[j].window \in Windows(start) /\ TriggerOf(a, start, outs[j].window) \in 0 .. now
         /\ outs[j].window \notin windows
    /\ \A i, j \in DOMAIN outs : outs[i].window = outs[j].window => i = j

HandedOver ==
    /\ pc = "advance" =>
         \A i \in DOMAIN advance.res : AtTrigger(assigner, window_start, advance.res[i])
    /\ pc = "timeouts" =>
         \A i \in DOMAIN todo :
           /\ WindowOf(todo[i]) \in Windows(window_start)
           /\ TriggerOf(assigner, window_start, WindowOf(todo[i])) \in 0 .. current_time
LastAccepted ==
    pc = "element" =>
        /\ Len(accepted) > 0
        /\ accepted[Len(accepted)].key = todo.key /\ accepted[Len(accepted)].ts = todo.ts

LiveContent ==
    /\ Contents(assigner, accepted, window_start, active_windows, buffer, outputs, Rest)
    /\ Closing(assigner, window_start, timeouts, active_windows, outputs, current_time)
    /\ HandedOver /\ LastAccepted
SavedContent ==
    \/ saved = None
    \/ /\ Contents(assigner, saved[5][1], saved[3][1], saved[3][2], saved[3][3], saved[5][2], {})
       /\ Closing(assigner, saved[3][1], saved[2], saved[3][2], saved[5][2], saved[1])
ContentInv == (~ panicked => LiveContent) /\ SavedContent

\* The operators with the assigner as argument are those of the model.
LEMMA AssignerOperators ==
    /\ \A start, ts : CeilOf(assigner, start, ts) = Ceil(start, ts)
    /\ \A ceil : FloorOf(assigner, ceil) = Floor(ceil)
    /\ \A k, index : TriggerOf(assigner, window_start, <<k, index>>) = Trigger(k, index)
    BY DEF CeilOf, FloorOf, TriggerOf, Ceil, Floor, PerWindow, Trigger, End, window_slide,
           window_length, late_arrival_time

\* An accepted element has a key and a timestamp.
LEMMA AcceptedType ==
    ASSUME NEW acc \in Seq(Elements), NEW i \in DOMAIN acc
    PROVE  acc[i].ts \in 1 .. MaxTimestamp /\ acc[i].ts \in Nat /\ acc[i].key \in Keys
<1>1. acc[i] \in Elements
  OBVIOUS
<1> QED
  BY <1>1, BoundsAssumption DEF Elements

\* A window with one element.
LEMMA ListsOne ==
    ASSUME NEW acc \in Seq(Elements), NEW i \in DOMAIN acc
    PROVE  Lists(<<acc[i].ts>>, {i}, acc)
<1>1. acc[i].ts \in Nat
  BY AcceptedType
<1>2. PICK r : r = <<acc[i].ts>>
  OBVIOUS
<1>3. r \in Seq(Nat) /\ Len(r) = 1 /\ r = [n \in 1 .. 1 |-> acc[i].ts]
  BY <1>1, <1>2
<1>4. PICK at : at = [n \in 1 .. 1 |-> i]
  OBVIOUS
<1>5. /\ at \in [1 .. Len(r) -> {i}]
      /\ \A m, n \in DOMAIN at : m < n => at[m] < at[n]
      /\ \A j \in {i} : \E n \in DOMAIN at : at[n] = j
      /\ r = [n \in DOMAIN at |-> acc[at[n]].ts]
  <2>1. at[1] = i /\ 1 \in DOMAIN at /\ DOMAIN at = 1 .. 1
    BY <1>4
  <2>2. \A m, n \in DOMAIN at : ~ (m < n)
    BY <2>1
  <2>3. \A n \in 1 .. 1 : at[n] = i
    BY <1>4
  <2> QED
    BY <1>3, <1>4, <2>1, <2>2, <2>3
<1> QED
  BY <1>2, <1>3, <1>5 DEF Lists

\* The next element of a window, which came after all that are in it.
LEMMA ListsMore ==
    ASSUME NEW acc \in Seq(Elements), NEW i \in DOMAIN acc, NEW S \in SUBSET (DOMAIN acc),
           \A j \in S : j < i, NEW result, Lists(result, S, acc)
    PROVE  Lists(Append(result, acc[i].ts), S \cup {i}, acc)
<1>1. acc[i].ts \in Nat /\ result \in Seq(Nat)
  BY AcceptedType DEF Lists
<1>2. PICK len \in Nat : len = Len(result)
  BY <1>1
<1>3. PICK at \in [1 .. len -> S] :
        /\ \A m, n \in DOMAIN at : m < n => at[m] < at[n]
        /\ \A j \in S : \E n \in DOMAIN at : at[n] = j
        /\ result = [n \in DOMAIN at |-> acc[at[n]].ts]
  BY <1>2 DEF Lists
<1>4. PICK r : r = Append(result, acc[i].ts)
  OBVIOUS
<1>5. /\ r \in Seq(Nat) /\ Len(r) = len + 1
      /\ r[len + 1] = acc[i].ts /\ \A n \in 1 .. len : r[n] = result[n]
      /\ DOMAIN r = 1 .. (len + 1)
  BY <1>1, <1>2, <1>4
<1>6. PICK bt : bt = [n \in 1 .. (len + 1) |-> IF n = len + 1 THEN i ELSE at[n]]
  OBVIOUS
<1>7. DOMAIN bt = 1 .. (len + 1) /\ bt[len + 1] = i /\ \A n \in 1 .. len : bt[n] = at[n] /\ at[n] \in S
  BY <1>3, <1>6
<1>8. bt \in [1 .. Len(r) -> S \cup {i}]
  BY <1>3, <1>5, <1>6
<1>9. ASSUME NEW m \in DOMAIN bt, NEW n \in DOMAIN bt, m < n PROVE bt[m] < bt[n]
  <2>1. m \in 1 .. len
    BY <1>7, <1>9
  <2>2. CASE n = len + 1
    BY <1>7, <2>1, <2>2
  <2>3. CASE n # len + 1
    <3>1. n \in 1 .. len
      BY <1>7, <2>3
    <3> QED
      BY <1>3, <1>7, <1>9, <2>1, <3>1
  <2> QED
    BY <2>2, <2>3
<1>10. ASSUME NEW j \in S \cup {i} PROVE \E n \in DOMAIN bt : bt[n] = j
  <2>1. CASE j = i
    BY <1>7, <2>1
  <2>2. CASE j \in S
    <3>1. PICK n \in 1 .. len : at[n] = j
      BY <1>3, <2>2
    <3> QED
      BY <1>7, <3>1
  <2> QED
    BY <2>1, <2>2
<1>11. r = [n \in DOMAIN bt |-> acc[bt[n]].ts]
  <2>1. \A n \in DOMAIN bt : r[n] = acc[bt[n]].ts
    BY <1>3, <1>5, <1>7
  <2>2. DOMAIN r = DOMAIN bt /\ r = [n \in DOMAIN r |-> r[n]]
    BY <1>5, <1>7
  <2> QED
    BY <2>1, <2>2
<1>12. Lists(r, S \cup {i}, acc)
  BY <1>5, <1>8, <1>9, <1>10, <1>11 DEF Lists
<1> QED
  BY <1>4, <1>12

\* A result stays what it is while other elements are accepted.
LEMMA ListsStay ==
    ASSUME NEW acc, NEW acc2, NEW S, \A i \in S : acc2[i] = acc[i],
           NEW result, Lists(result, S, acc)
    PROVE  Lists(result, S, acc2)
<1>1. PICK at \in [1 .. Len(result) -> S] :
        /\ \A m, n \in DOMAIN at : m < n => at[m] < at[n]
        /\ \A j \in S : \E n \in DOMAIN at : at[n] = j
        /\ result = [n \in DOMAIN at |-> acc[at[n]].ts]
  BY DEF Lists
<1>2. [n \in DOMAIN at |-> acc2[at[n]].ts] = [n \in DOMAIN at |-> acc[at[n]].ts]
  BY <1>1
<1> QED
  BY <1>1, <1>2 DEF Lists

\* Counted as handle_element does, the windows of an element that is not before
\* the first of its key are those it lies in.
LEMMA GoesWhereItLies ==
    ASSUME assigner \in Assigners, NEW start \in 1 .. MaxTimestamp, NEW ts \in 1 .. MaxTimestamp,
           start <= ts, NEW index \in Nat
    PROVE  GoesInto(assigner, start, index, ts) <=>
             /\ start + index * window_slide <= ts
             /\ ts < start + index * window_slide + window_length
<1>1. PICK s \in Nat \ {0} : s = window_slide
  BY WindowAssumption DEF window_slide
<1>2. PICK len \in Nat : len = window_length /\ len >= s /\ len % s = 0
  BY <1>1, WindowAssumption DEF window_length, window_slide
<1>3. U64 \in Nat /\ MaxTimestamp \in Nat /\ MaxTimestamp < U64 /\ U64 > 0
  BY WindowAssumption, BoundsAssumption
<1>4. PICK d \in Nat : d = ts - start
  BY <1>3
<1>5. (ts + U64 - start) % U64 = d
  <2>1. PICK x \in Nat : x = ts + U64 - start
    BY <1>3
  <2>2. U64 <= x /\ x < U64 + U64 /\ x - U64 = d
    BY <1>3, <1>4, <2>1
  <2> QED
    BY <1>3, <2>1, <2>2, WrapsOnce
<1>6. PICK c \in Nat : c = d \div s /\ c * s <= d /\ d < (c + 1) * s
  BY <1>1, WholeParts
<1>7. PICK n \in Nat : n = len \div s /\ n * s = len
  <2>1. len = s * (len \div s) + (len % s)
    BY <1>1
  <2>2. PICK n \in Nat : n = len \div s
    BY <1>1, WholeParts
  <2>3. n * s = s * n /\ s * n \in Nat
    OBVIOUS
  <2> QED
    BY <1>2, <2>1, <2>2, <2>3
<1>8. GoesInto(assigner, start, index, ts) <=> c + 1 <= index + n /\ index <= c
  <2>1. CeilOf(assigner, start, ts) = c
    BY <1>1, <1>5, <1>6 DEF CeilOf, window_slide
  <2>2. FloorOf(assigner, c) = IF c >= n THEN c - n + 1 ELSE 0
    BY <1>1, <1>2, <1>7 DEF FloorOf, window_slide, window_length
  <2> QED
    BY <2>1, <2>2 DEF GoesInto
<1>9. PICK o \in Nat : o = index * s /\ (index + n) * s = o + len
  <2>1. (index + n) * s = index * s + n * s /\ index * s \in Nat
    OBVIOUS
  <2> QED
    BY <1>7, <2>1
<1>10. index <= c <=> o <= d
  <2>1. ASSUME index <= c PROVE o <= d
    BY <1>1, <1>6, <1>9, <2>1, ProductGrows
  <2>2. ASSUME ~ (index <= c) PROVE ~ (o <= d)
    <3>1. c + 1 <= index
      BY <2>2
    <3>2. (c + 1) * s \in Nat /\ (c + 1) * s <= o
      BY <1>1, <1>9, <3>1, ProductGrows
    <3> QED
      BY <1>6, <3>2
  <2> QED
    BY <2>1, <2>2
<1>11. c + 1 <= index + n <=> d < o + len
  <2>1. ASSUME c + 1 <= index + n PROVE d < o + len
    <3>1. (c + 1) * s \in Nat /\ (c + 1) * s <= (index + n) * s
      BY <1>1, <2>1, ProductGrows
    <3> QED
      BY <1>6, <1>9, <3>1
  <2>2. ASSUME ~ (c + 1 <= index + n) PROVE ~ (d < o + len)
    <3>1. index + n <= c
      BY <2>2
    <3>2. c * s \in Nat /\ (index + n) * s <= c * s
      BY <1>1, <3>1, ProductGrows
    <3> QED
      BY <1>6, <1>9, <3>2
  <2> QED
    BY <2>1, <2>2
<1>12. (o <= d <=> start + o <= ts) /\ (d < o + len <=> ts < start + o + len)
  BY <1>3, <1>4
<1> QED
  BY <1>1, <1>2, <1>8, <1>9, <1>10, <1>11, <1>12

\* No window that the element is still to be put into has been closed: its
\* trigger is in the future.
LEMMA RestWaits ==
    WindowInv =>
        \A w \in Rest : /\ w \in Windows(window_start)
                        /\ TriggerOf(assigner, window_start, w) \in Nat
                        /\ current_time < TriggerOf(assigner, window_start, w)
<1> SUFFICES ASSUME WindowInv, NEW w \in Rest
             PROVE  /\ w \in Windows(window_start)
                    /\ TriggerOf(assigner, window_start, w) \in Nat
                    /\ current_time < TriggerOf(assigner, window_start, w)
  OBVIOUS
<1>1. pc = "element" /\ \E i \in todo.index .. todo.ceil : w = <<todo.key, i>>
  BY DEF Rest
<1>2. PICK i \in todo.index .. todo.ceil : w = <<todo.key, i>>
  BY <1>1
<1>3. /\ AtElement(todo) /\ current_time \in Nat /\ assigner \in Assigners
      /\ Starts(window_start)
  BY <1>1 DEF WindowInv, PhaseInv, TimerInv, TriggerInv
<1>4. PICK f : f = Floor(todo.ceil)
  OBVIOUS
<1>5. /\ todo \in [key : Keys, ts : 1 .. MaxTimestamp, ceil : Nat, index : Nat]
      /\ todo.ceil = Ceil(window_start[todo.key], todo.ts) /\ todo.key \in DOMAIN window_start
      /\ f <= todo.index /\ todo.index <= todo.ceil /\ ~ IsLate(todo.ts)
  BY <1>3, <1>4 DEF AtElement
<1>6. f \in Int
  BY <1>3, <1>4, <1>5, PerWindowType DEF Floor
<1>7. i \in Nat /\ f <= i /\ i <= todo.ceil
  BY <1>5, <1>6
<1>8. PICK e : e = [todo EXCEPT !.index = i]
  OBVIOUS
<1>9. /\ e \in [key : Keys, ts : 1 .. MaxTimestamp, ceil : Nat, index : Nat]
      /\ e.key = todo.key /\ e.ts = todo.ts /\ e.ceil = todo.ceil /\ e.index = i
  BY <1>5, <1>7, <1>8
<1>10. AtElement(e)
  BY <1>4, <1>5, <1>7, <1>9 DEF AtElement
<1>11. Trigger(e.key, e.index) \in Nat /\ current_time < Trigger(e.key, e.index)
  BY <1>3, <1>10, TriggerInFuture
<1>12. TriggerOf(assigner, window_start, w) = Trigger(e.key, e.index)
  BY <1>2, <1>9, AssignerOperators
<1> QED
  BY <1>2, <1>5, <1>7, <1>11, <1>12 DEF Windows

\* A key gets its first window; the others keep theirs.
Grown(acc, start, start2) ==
    /\ \A i \in DOMAIN acc : acc[i].key \in DOMAIN start
    /\ \A k \in DOMAIN start : start2[k] = start[k]

\* The windows and triggers of the keys there are do not depend on a new key.
LEMMA TriggerStays ==
    ASSUME NEW a, NEW start, NEW start2, DOMAIN start \subseteq DOMAIN start2,
           \A k \in DOMAIN start : start2[k] = start[k]
    PROVE  /\ Windows(start) \subseteq Windows(start2)
           /\ \A w \in Windows(start) : TriggerOf(a, start2, w) = TriggerOf(a, start, w)
           /\ \A entry : AtTrigger(a, start, entry) => AtTrigger(a, start2, entry)
<1>1. Windows(start) \subseteq Windows(start2)
  BY DEF Windows
<1>2. ASSUME NEW w \in Windows(start) PROVE TriggerOf(a, start2, w) = TriggerOf(a, start, w)
  <2>1. start2[w[1]] = start[w[1]]
    BY DEF Windows
  <2> QED
    BY <2>1 DEF TriggerOf
<1> QED
  BY <1>1, <1>2 DEF AtTrigger

\* An element is accepted: what the windows hold is what they held.
LEMMA ContentsAccept ==
    ASSUME NEW a, NEW acc, NEW start, NEW windows, NEW buf, NEW outs,
           Contents(a, acc, start, windows, buf, outs, {}),
           NEW e \in Elements, NEW start2, Grown(acc, start, start2),
           DOMAIN start \subseteq DOMAIN start2, e.key \in DOMAIN start2,
           OverflowChecks => start2[e.key] <= e.ts,
           NEW ceil \in Nat, NEW floor \in Nat,
           ceil = CeilOf(a, start2[e.key], e.ts), floor = FloorOf(a, ceil),
           NEW rest, rest = {<<e.key, i>> : i \in floor .. ceil},
           \A j \in DOMAIN outs : outs[j].window \in Windows(start) /\ outs[j].window \notin rest
    PROVE  Contents(a, Append(acc, e), start2, windows, buf, outs, rest)
<1>1. acc \in Seq(Elements) /\ Windows(start) \subseteq Windows(start2)
  BY DEF Contents, Windows
<1>2. PICK acc2 : acc2 = Append(acc, e)
  OBVIOUS
<1>3. PICK n \in Nat : n = Len(acc) /\ DOMAIN acc = 1 .. n
  BY <1>1
<1>4. /\ acc2 \in Seq(Elements) /\ DOMAIN acc2 = 1 .. (n + 1) /\ acc2[n + 1] = e
      /\ \A i \in 1 .. n : acc2[i] = acc[i]
  BY <1>1, <1>2, <1>3
<1>5. ASSUME NEW w \in Windows(start2)
      PROVE  /\ Inserted(a, acc2, start2, rest, w) = Inserted(a, acc, start, {}, w)
             /\ w \notin rest => Belonging(a, acc2, start2, w) = Belonging(a, acc, start, w)
  <2>1. w[2] \in Nat /\ w = <<w[1], w[2]>>
    BY DEF Windows
  <2>2. (e.key = w[1] /\ w[2] \in floor .. ceil) => w \in rest
    BY <2>1
  <2> DEFINE joins == e.key = w[1] /\ GoesInto(a, start2[w[1]], w[2], e.ts)
  <2>3. Len(acc2) = n + 1
    BY <1>1, <1>2, <1>3
  <2>5. PICK B, B2 : B = Belonging(a, acc, start, w) /\ B2 = Belonging(a, acc2, start2, w)
    OBVIOUS
  <2>6. B = Belonging(a, acc, start2, w)
    <3>1. \A i \in DOMAIN acc : acc[i].key = w[1] => start2[w[1]] = start[w[1]]
      BY DEF Grown
    <3> QED
      BY <2>5, <3>1 DEF Belonging
  <2>7. 1 .. (n + 1) = (1 .. n) \cup {n + 1} /\ n + 1 \notin 1 .. n
    OBVIOUS
  <2>8. B \subseteq 1 .. n /\ Inserted(a, acc, start, {}, w) = B
    BY <1>3, <2>5 DEF Belonging, Inserted
  <2>9. Inserted(a, acc2, start2, rest, w) = {i \in B2 : w \in rest => i # n + 1}
    BY <2>3, <2>5 DEF Inserted
  <2>10. CASE joins
    <3>1. B2 = B \cup {n + 1}
      BY <1>3, <1>4, <2>5, <2>6, <2>7, <2>10 DEF Belonging
    <3>2. w[2] \in floor .. ceil
      BY <2>1, <2>10 DEF GoesInto
    <3>3. w \in rest
      BY <2>2, <2>10, <3>2
    <3>4. {i \in B2 : w \in rest => i # n + 1} = B
      BY <2>7, <2>8, <3>1, <3>3
    <3> QED
      BY <2>8, <2>9, <3>3, <3>4
  <2>11. CASE ~ joins
    <3>1. B2 = B
      BY <1>3, <1>4, <2>5, <2>6, <2>7, <2>11 DEF Belonging
    <3>2. {i \in B2 : w \in rest => i # n + 1} = B
      BY <2>7, <2>8, <3>1
    <3> QED
      BY <2>5, <2>8, <2>9, <3>1, <3>2
  <2> QED
    BY <2>10, <2>11
<1>6. \A S \in SUBSET (1 .. n) : \A result : Lists(result, S, acc) => Lists(result, S, acc2)
  <2>1. ASSUME NEW S \in SUBSET (1 .. n), NEW result, Lists(result, S, acc)
        PROVE  Lists(result, S, acc2)
    BY <1>4, <2>1, ListsStay
  <2> QED
    BY <2>1
<1>7. \A w : Belonging(a, acc, start, w) \in SUBSET (1 .. n)
             /\ Inserted(a, acc, start, {}, w) \in SUBSET (1 .. n)
  BY <1>3 DEF Belonging, Inserted
<1>8. \A i \in DOMAIN acc2 :
        /\ acc2[i].key \in DOMAIN start2
        /\ OverflowChecks => start2[acc2[i].key] <= acc2[i].ts
  <2>1. ASSUME NEW i \in DOMAIN acc2
        PROVE  /\ acc2[i].key \in DOMAIN start2
               /\ OverflowChecks => start2[acc2[i].key] <= acc2[i].ts
    <3>1. CASE i = n + 1
      BY <1>4, <3>1
    <3>2. CASE i # n + 1
      <4>1. i \in 1 .. n /\ acc2[i] = acc[i]
        BY <1>4, <3>2
      <4>2. /\ acc[i].key \in DOMAIN start /\ start2[acc[i].key] = start[acc[i].key]
            /\ OverflowChecks => start[acc[i].key] <= acc[i].ts
        BY <1>3, <4>1 DEF Contents, Grown
      <4> QED
        BY <4>1, <4>2
    <3> QED
      BY <3>1, <3>2
  <2> QED
    BY <2>1
<1>9. ASSUME NEW w \in windows PROVE Lists(buf[w], Inserted(a, acc2, start2, rest, w), acc2)
  <2>1. w \in Windows(start2) /\ Lists(buf[w], Inserted(a, acc, start, {}, w), acc)
    BY <1>1 DEF Contents
  <2> QED
    BY <1>5, <1>6, <1>7, <2>1
<1>10. ASSUME NEW k \in DOMAIN start2, NEW index \in Nat,
              Inserted(a, acc2, start2, rest, <<k, index>>) # {}
       PROVE  <<k, index>> \in windows \cup ClosedBy(outs)
  <2>1. PICK w : w = <<k, index>>
    OBVIOUS
  <2>2. w \in Windows(start2) /\ w[1] = k
    BY <2>1 DEF Windows
  <2>3. PICK i : i \in Inserted(a, acc, start, {}, w)
    BY <1>5, <1>10, <2>1, <2>2
  <2>4. i \in DOMAIN acc /\ acc[i].key = k
    BY <2>2, <2>3 DEF Inserted, Belonging
  <2>5. k \in DOMAIN start
    BY <2>4 DEF Grown
  <2>6. Inserted(a, acc, start, {}, <<k, index>>) # {}
    BY <2>1, <2>3
  <2> QED
    BY <2>5, <2>6 DEF Contents
<1>11. ASSUME NEW j \in DOMAIN outs
       PROVE  Lists(outs[j].result, Belonging(a, acc2, start2, outs[j].window), acc2)
  <2>1. Lists(outs[j].result, Belonging(a, acc, start, outs[j].window), acc)
    BY DEF Contents
  <2>2. outs[j].window \in Windows(start2) /\ outs[j].window \notin rest
    BY <1>1
  <2>3. Belonging(a, acc2, start2, outs[j].window) = Belonging(a, acc, start, outs[j].window)
    BY <1>5, <2>2
  <2> QED
    BY <1>6, <1>7, <2>1, <2>3
<1>12. DOMAIN buf = windows /\ windows \subseteq Windows(start2)
  BY <1>1 DEF Contents
<1>13. Contents(a, acc2, start2, windows, buf, outs, rest)
  BY <1>4, <1>8, <1>9, <1>10, <1>11, <1>12 DEF Contents
<1> QED
  BY <1>2, <1>13

\* The element is put into the next of its windows.
LEMMA ContentsInsert ==
    ASSUME NEW a, NEW acc, NEW start, NEW windows, NEW buf, NEW outs, NEW rest,
           Contents(a, acc, start, windows, buf, outs, rest),
           NEW k \in DOMAIN start, NEW index \in Nat, NEW w, w = <<k, index>>,
           w \in rest, w \notin ClosedBy(outs), Len(acc) > 0,
           acc[Len(acc)].key = k, GoesInto(a, start[k], index, acc[Len(acc)].ts),
           \A j \in DOMAIN outs : outs[j].window \notin rest,
           NEW buf2, DOMAIN buf2 = windows \cup {w},
           \A v \in windows : v # w => buf2[v] = buf[v],
           buf2[w] = IF w \in windows THEN Append(buf[w], acc[Len(acc)].ts)
                                      ELSE <<acc[Len(acc)].ts>>
    PROVE  Contents(a, acc, start, windows \cup {w}, buf2, outs, rest \ {w})
<1>1. acc \in Seq(Elements)
  BY DEF Contents
<1>2. PICK n \in Nat : n = Len(acc) /\ DOMAIN acc = 1 .. n /\ n > 0
  BY <1>1
<1>3. n \in DOMAIN acc
  BY <1>2
<1>4. w[1] = k /\ w[2] = index /\ w \in Windows(start)
  BY DEF Windows
<1>5. PICK I : I = Inserted(a, acc, start, rest, w)
  OBVIOUS
<1>6. I \in SUBSET (DOMAIN acc) /\ \A i \in I : i < n
  <2>1. ASSUME NEW i \in I PROVE i \in DOMAIN acc /\ i # n
    BY <1>2, <1>5 DEF Inserted, Belonging
  <2> QED
    BY <1>2, <2>1
<1>7. Inserted(a, acc, start, rest \ {w}, w) = I \cup {n}
  <2>1. n \in Belonging(a, acc, start, w)
    BY <1>2, <1>3, <1>4 DEF Belonging
  <2> QED
    BY <1>2, <1>5, <2>1 DEF Inserted
<1>8. \A v : v # w => Inserted(a, acc, start, rest \ {w}, v) = Inserted(a, acc, start, rest, v)
  BY DEF Inserted
<1>9. Lists(buf2[w], I \cup {n}, acc)
  <2>1. CASE w \in windows
    <3>1. Lists(buf[w], I, acc)
      BY <1>5, <2>1 DEF Contents
    <3>2. Lists(Append(buf[w], acc[n].ts), I \cup {n}, acc)
      BY <1>1, <1>3, <1>6, <3>1, ListsMore
    <3>3. buf2[w] = Append(buf[w], acc[n].ts)
      BY <1>2, <2>1
    <3> QED
      BY <3>2, <3>3
  <2>2. CASE w \notin windows
    <3>1. I = {}
      BY <1>5, <2>2 DEF Contents
    <3>2. Lists(<<acc[n].ts>>, {n}, acc)
      BY <1>1, <1>3, ListsOne
    <3>3. buf2[w] = <<acc[n].ts>> /\ I \cup {n} = {n}
      BY <1>2, <2>2, <3>1
    <3> QED
      BY <3>2, <3>3
  <2> QED
    BY <2>1, <2>2
<1>10. ASSUME NEW v \in windows \cup {w}
       PROVE  Lists(buf2[v], Inserted(a, acc, start, rest \ {w}, v), acc)
  <2>1. CASE v = w
    BY <1>7, <1>9, <2>1
  <2>2. CASE v # w
    <3>1. v \in windows /\ Lists(buf[v], Inserted(a, acc, start, rest, v), acc)
      BY <2>2 DEF Contents
    <3> QED
      BY <1>8, <2>2, <3>1
  <2> QED
    BY <2>1, <2>2
<1>11. ASSUME NEW l \in DOMAIN start, NEW m \in Nat,
              Inserted(a, acc, start, rest \ {w}, <<l, m>>) # {}
       PROVE  <<l, m>> \in (windows \cup {w}) \cup ClosedBy(outs)
  <2>1. CASE <<l, m>> = w
    BY <2>1
  <2>2. CASE <<l, m>> # w
    BY <1>8, <1>11, <2>2 DEF Contents
  <2> QED
    BY <2>1, <2>2
<1> QED
  BY <1>4, <1>10, <1>11 DEF Contents

\* A window is closed with what it holds.
LEMMA ContentsClose ==
    ASSUME NEW a, NEW acc, NEW start, NEW windows, NEW buf, NEW outs,
           Contents(a, acc, start, windows, buf, outs, {}), \E S : outs \in Seq(S),
           NEW w \in windows, NEW out, out.window = w, out.result = buf[w]
    PROVE  Contents(a, acc, start, windows \ {w}, [v \in DOMAIN buf \ {w} |-> buf[v]],
                    Append(outs, out), {})
<1>1. PICK S : outs \in Seq(S)
  OBVIOUS
<1>2. PICK n \in Nat : n = Len(outs) /\ DOMAIN outs = 1 .. n
  BY <1>1
<1>3. PICK outs2 : outs2 = Append(outs, out)
  OBVIOUS
<1>4. /\ DOMAIN outs2 = 1 .. (n + 1) /\ outs2[n + 1] = out
      /\ \A j \in 1 .. n : outs2[j] = outs[j]
  BY <1>1, <1>2, <1>3
<1>5. ClosedBy(outs2) = ClosedBy(outs) \cup {w}
  <2>1. 1 .. (n + 1) = (1 .. n) \cup {n + 1}
    OBVIOUS
  <2> QED
    BY <1>2, <1>4, <2>1 DEF ClosedBy
<1>6. \A v : Inserted(a, acc, start, {}, v) = Belonging(a, acc, start, v)
  BY DEF Inserted
<1>7. ASSUME NEW j \in DOMAIN outs2
      PROVE  Lists(outs2[j].result, Belonging(a, acc, start, outs2[j].window), acc)
  <2>1. CASE j = n + 1
    BY <1>4, <1>6, <2>1 DEF Contents
  <2>2. CASE j # n + 1
    <3>1. j \in DOMAIN outs /\ outs2[j] = outs[j]
      BY <1>2, <1>4, <2>2
    <3> QED
      BY <3>1 DEF Contents
  <2> QED
    BY <2>1, <2>2
<1>8. PICK buf2 : buf2 = [v \in DOMAIN buf \ {w} |-> buf[v]]
  OBVIOUS
<1>9. /\ DOMAIN buf2 = windows \ {w} /\ windows \ {w} \subseteq Windows(start)
      /\ \A v \in windows \ {w} : Lists(buf2[v], Inserted(a, acc, start, {}, v), acc)
  BY <1>8 DEF Contents
<1>10. (windows \ {w}) \cup ClosedBy(outs2) = windows \cup ClosedBy(outs)
  BY <1>5
<1>11. Contents(a, acc, start, windows \ {w}, buf2, outs2, {})
  BY <1>7, <1>9, <1>10 DEF Contents
<1> QED
  BY <1>3, <1>8, <1>11

\* A window that its trigger closes was not closed before.
LEMMA ClosingClose ==
    ASSUME NEW a, NEW start, NEW entries, NEW windows, NEW outs, NEW now,
           Closing(a, start, entries, windows, outs, now),
           NEW w \in windows, w \in Windows(start), TriggerOf(a, start, w) \in 0 .. now,
           NEW out, out.window = w
    PROVE  Closing(a, start, entries, windows \ {w}, Append(outs, out), now)
<1>1. PICK S : outs \in Seq(S)
  BY DEF Closing
<1>2. PICK n \in Nat : n = Len(outs) /\ DOMAIN outs = 1 .. n
  BY <1>1
<1>3. PICK outs2 : outs2 = Append(outs, out)
  OBVIOUS
<1>4. /\ DOMAIN outs2 = 1 .. (n + 1) /\ outs2[n + 1] = out
      /\ \A j \in 1 .. n : outs2[j] = outs[j]
      /\ outs2 \in Seq(S \cup {out})
  <2>1. outs \in Seq(S \cup {out})
    BY <1>1
  <2> QED
    BY <1>2, <1>3, <2>1
<1>5. ASSUME NEW j \in DOMAIN outs2
      PROVE  /\ outs2[j].window \in Windows(start) /\ TriggerOf(a, start, outs2[j].window) \in 0 .. now
             /\ outs2[j].window \notin windows \ {w}
             /\ j # n + 1 => j \in DOMAIN outs /\ outs2[j] = outs[j] /\ outs2[j].window # w
  <2>1. CASE j = n + 1
    BY <1>4, <2>1
  <2>2. CASE j # n + 1
    <3>1. j \in DOMAIN outs /\ outs2[j] = outs[j]
      BY <1>2, <1>4, <2>2
    <3> QED
      BY <3>1 DEF Closing
  <2> QED
    BY <2>1, <2>2
<1>6. ASSUME NEW i \in DOMAIN outs2, NEW j \in DOMAIN outs2, outs2[i].window = outs2[j].window
      PROVE  i = j
  <2>1. CASE i = n + 1 \/ j = n + 1
    BY <1>4, <1>5, <1>6, <2>1
  <2>2. CASE i # n + 1 /\ j # n + 1
    BY <1>5, <1>6, <2>2 DEF Closing
  <2> QED
    BY <2>1, <2>2
<1>7. Closing(a, start, entries, windows \ {w}, outs2, now)
  BY <1>4, <1>5, <1>6 DEF Closing
<1> QED
  BY <1>3, <1>7

\* The checkpoint is what it was.
LEMMA SavedContentStays ==
    ASSUME SavedContent, UNCHANGED <<assigner, saved>>
    PROVE  SavedContent'
    BY DEF SavedContent

\* The first state.
LEMMA InitContentInv == Init => ContentInv
<1> SUFFICES ASSUME Init PROVE ContentInv
  OBVIOUS
<1>1. /\ accepted = <<>> /\ outputs = <<>> /\ active_windows = {} /\ pc = "idle"
      /\ window_start = Nothing /\ buffer = Nothing /\ timeouts = NoTimeouts /\ saved = None
  BY DEF Init
<1>2. /\ DOMAIN Nothing = {} /\ DOMAIN NoTimeouts = {} /\ DOMAIN accepted = {}
      /\ DOMAIN outputs = {} /\ accepted \in Seq(Elements) /\ outputs \in Seq({})
  BY <1>1 DEF Nothing, NoTimeouts
<1>3. Contents(assigner, accepted, window_start, active_windows, buffer, outputs, Rest)
  BY <1>1, <1>2 DEF Contents
<1>4. Closing(assigner, window_start, timeouts, active_windows, outputs, current_time)
  BY <1>1, <1>2 DEF Closing
<1> QED
  BY <1>1, <1>3, <1>4 DEF ContentInv, LiveContent, HandedOver, LastAccepted, SavedContent

\* An element is accepted; its loop is still to come.
LEMMA AcceptContent ==
    ASSUME WindowInv, WindowInv', ContentInv, ~ panicked,
           NEW k \in ElementKeys, NEW t \in 1 .. MaxTimestamp \cup {None},
           HandleElement(k, t), assigner' = assigner
    PROVE  ContentInv'
<1>1. PICK ts \in 1 .. MaxTimestamp : ts = Timestamp(t)
  BY TimestampType
<1>2. PICK key \in Keys : key = GetKey(k)
  BY DEF GetKey, Keys
<1> DEFINE started == key \in DOMAIN window_start
<1>3. PICK e : e = [key |-> key, ts |-> ts]
  OBVIOUS
<1>4. e \in Elements /\ e.key = key /\ e.ts = ts
  BY <1>3 DEF Elements
<1>5. /\ pc = "idle" /\ accepted' = Append(accepted, e) /\ UNCHANGED saved
      /\ UNCHANGED <<current_time, timeouts, active_windows, buffer, outputs>>
  BY <1>1, <1>2, <1>3 DEF HandleElement, faults
<1>6. SavedContent'
  BY <1>5, SavedContentStays DEF ContentInv
<1>7. Rest = {} /\ LiveContent
  BY <1>5 DEF Rest, ContentInv
<1>8. CASE panicked'
  BY <1>6, <1>8 DEF ContentInv
<1>9. CASE ~ panicked'
  <2>1. /\ ~ (OverflowChecks /\ started /\ ts < window_start[key])
        /\ window_start' = IF started THEN window_start
              ELSE [i \in DOMAIN window_start \cup {key} |->
                      IF i = key THEN ts ELSE window_start[i]]
        /\ pc' = "element"
        /\ todo'.key = key /\ todo'.ts = ts /\ todo'.index = Floor(todo'.ceil)
    BY <1>1, <1>2, <1>5, <1>9 DEF HandleElement
  <2>2. PICK start, start2 : start = window_start /\ start2 = window_start'
    OBVIOUS
  <2>3. /\ Contents(assigner, accepted, start, active_windows, buffer, outputs, {})
        /\ Closing(assigner, start, timeouts, active_windows, outputs, current_time)
    BY <1>7, <2>2 DEF LiveContent
  <2>4. /\ DOMAIN start \subseteq DOMAIN start2 /\ e.key \in DOMAIN start2
        /\ \A l \in DOMAIN start : start2[l] = start[l]
        /\ start2[key] = IF started THEN start[key] ELSE ts
    BY <1>4, <2>1, <2>2
  <2>5. Grown(accepted, start, start2)
    BY <2>3, <2>4 DEF Grown, Contents
  <2>6. OverflowChecks => start2[e.key] <= e.ts
    <3>1. start2[key] \in Nat /\ ts \in Nat
      BY <2>2, <2>4, BoundsAssumption DEF WindowInv, TriggerInv, Starts
    <3> QED
      BY <1>4, <2>1, <2>2, <2>4, <3>1
  <2>7. PICK ceil \in Nat, floor \in Nat :
          /\ ceil = todo'.ceil /\ floor = todo'.index
          /\ ceil = CeilOf(assigner, start2[e.key], e.ts) /\ floor = FloorOf(assigner, ceil)
    <3>1. AtElement(todo)'
      BY <2>1 DEF WindowInv, PhaseInv
    <3>2. PICK el : el = todo'
      OBVIOUS
    <3>3. /\ el \in [key : Keys, ts : 1 .. MaxTimestamp, ceil : Nat, index : Nat]
          /\ el.ceil = CeilOf(assigner, start2[el.key], el.ts)
      BY <2>2, <3>1, <3>2 DEF AtElement, Ceil, CeilOf, window_slide
    <3>4. el.ceil \in Nat /\ el.index \in Nat
      BY <3>3
    <3>5. el.index = FloorOf(assigner, el.ceil)
      BY <2>1, <3>2, AssignerOperators
    <3> QED
      BY <1>4, <2>1, <3>2, <3>3, <3>4, <3>5
  <2>8. Rest' = {<<e.key, i>> : i \in floor .. ceil}
    BY <1>4, <2>1, <2>7 DEF Rest
  <2>9. PICK rest : rest = Rest'
    OBVIOUS
  <2>10. \A w \in rest : current_time < TriggerOf(assigner, start2, w)
                         /\ TriggerOf(assigner, start2, w) \in Nat
    <3>1. (WindowInv =>
            \A w \in Rest : /\ w \in Windows(window_start)
                            /\ TriggerOf(assigner, window_start, w) \in Nat
                            /\ current_time < TriggerOf(assigner, window_start, w))'
      BY RestWaits, PTL
    <3> QED
      BY <1>5, <2>2, <2>9, <3>1
  <2>11. /\ Windows(start) \subseteq Windows(start2)
         /\ \A w \in Windows(start) : TriggerOf(assigner, start2, w) = TriggerOf(assigner, start, w)
         /\ \A entry : AtTrigger(assigner, start, entry) => AtTrigger(assigner, start2, entry)
    BY <2>4, TriggerStays
  <2>12. ASSUME NEW j \in DOMAIN outputs
         PROVE  outputs[j].window \in Windows(start) /\ outputs[j].window \notin rest
    <3>1. /\ outputs[j].window \in Windows(start)
          /\ TriggerOf(assigner, start, outputs[j].window) \in 0 .. current_time
      BY <2>3 DEF Closing
    <3>2. current_time \in Nat
      BY DEF WindowInv, TimerInv
    <3> QED
      BY <2>10, <2>11, <3>1, <3>2
  <2>13. Contents(assigner, Append(accepted, e), start2, active_windows, buffer, outputs, rest)
    BY <1>4, <2>3, <2>4, <2>5, <2>6, <2>7, <2>8, <2>9, <2>12, ContentsAccept
  <2>14. Closing(assigner, start2, timeouts, active_windows, outputs, current_time)
    BY <2>3, <2>11 DEF Closing
  <2>15. LastAccepted'
    <3>1. accepted \in Seq(Elements)
      BY <2>3 DEF Contents
    <3>2. PICK acc2 : acc2 = accepted'
      OBVIOUS
    <3>3. Len(acc2) > 0 /\ acc2[Len(acc2)] = e
      BY <1>4, <1>5, <3>1, <3>2
    <3> QED
      BY <1>4, <2>1, <3>2, <3>3 DEF LastAccepted
  <2>16. HandedOver'
    BY <2>1 DEF HandedOver
  <2>17. /\ Contents(assigner, accepted, window_start, active_windows, buffer, outputs, Rest)'
         /\ Closing(assigner, window_start, timeouts, active_windows, outputs, current_time)'
    BY <1>5, <2>2, <2>9, <2>13, <2>14
  <2> QED
    BY <1>6, <2>15, <2>16, <2>17 DEF ContentInv, LiveContent
<1> QED
  BY <1>8, <1>9

\* The element is put into the next of its windows.
LEMMA InsertContent ==
    ASSUME WindowInv, ContentInv, ~ panicked, InsertIntoWindow, assigner' = assigner
    PROVE  ContentInv'
<1>1. /\ pc = "element" /\ AtElement(todo) /\ assigner \in Assigners /\ TimerInv
      /\ Starts(window_start) /\ current_time \in Nat /\ LiveContent /\ SavedContent
  BY DEF WindowInv, PhaseInv, TimerInv, TriggerInv, InsertIntoWindow, ContentInv
<1>2. UNCHANGED <<current_time, window_start, accepted, outputs, saved>>
  BY DEF InsertIntoWindow, history, faults
<1>3. SavedContent'
  BY <1>1, <1>2, SavedContentStays
<1>4. PICK k, index, ts, ceil : k = todo.key /\ index = todo.index /\ ts = todo.ts /\ ceil = todo.ceil
  OBVIOUS
<1>5. /\ k \in DOMAIN window_start /\ index \in Nat /\ ceil \in Nat /\ index <= ceil /\ k \in Keys
      /\ GoesInto(assigner, window_start[k], index, ts)
  <2>1. /\ k \in DOMAIN window_start /\ index \in Nat /\ ceil \in Nat /\ index <= ceil
        /\ ceil = Ceil(window_start[k], ts) /\ Floor(ceil) <= index /\ k \in Keys
    BY <1>1, <1>4 DEF AtElement
  <2> QED
    BY <2>1, AssignerOperators DEF GoesInto
<1>6. PICK w : w = <<k, index>>
  OBVIOUS
<1>7. /\ buffer' = OnElement(w, ts) /\ active_windows' = active_windows \cup {w}
  BY <1>4, <1>6 DEF InsertIntoWindow
<1>8. PICK rest : rest = Rest /\ rest = {<<k, i>> : i \in index .. ceil}
  BY <1>1, <1>4 DEF Rest
<1>9. w \in rest
  BY <1>5, <1>6, <1>8
<1>10. Rest' = rest \ {w}
  <2>1. CASE index = ceil
    <3>1. pc' = "idle"
      BY <1>4, <2>1 DEF InsertIntoWindow
    <3>2. index .. ceil = {index}
      BY <1>5, <2>1
    <3> QED
      BY <1>6, <1>8, <3>1, <3>2 DEF Rest
  <2>2. CASE index # ceil
    <3>1. /\ pc' = "element" /\ todo' = [todo EXCEPT !.index = index + 1]
      BY <1>1, <1>4, <2>2 DEF InsertIntoWindow
    <3>2. todo'.key = k /\ todo'.index = index + 1 /\ todo'.ceil = ceil
      BY <1>1, <1>4, <3>1 DEF AtElement
    <3>3. (index + 1) .. ceil = (index .. ceil) \ {index}
      BY <1>5
    <3>4. Rest' = {<<k, i>> : i \in (index .. ceil) \ {index}}
      BY <3>1, <3>2, <3>3 DEF Rest
    <3> QED
      BY <1>6, <1>8, <3>4
  <2> QED
    BY <2>1, <2>2
<1>11. \A v \in rest : /\ v \in Windows(window_start)
                       /\ TriggerOf(assigner, window_start, v) \in Nat
                       /\ current_time < TriggerOf(assigner, window_start, v)
  BY <1>8, RestWaits
<1>12. /\ Contents(assigner, accepted, window_start, active_windows, buffer, outputs, rest)
       /\ Closing(assigner, window_start, timeouts, active_windows, outputs, current_time)
  BY <1>1, <1>8 DEF LiveContent
<1>13. \A j \in DOMAIN outputs : outputs[j].window \notin rest
  <2>1. ASSUME NEW j \in DOMAIN outputs PROVE outputs[j].window \notin rest
    <3>1. TriggerOf(assigner, window_start, outputs[j].window) \in 0 .. current_time
      BY <1>12 DEF Closing
    <3> QED
      BY <1>1, <1>11, <3>1
  <2> QED
    BY <2>1
<1>14. w \notin ClosedBy(outputs)
  BY <1>9, <1>13 DEF ClosedBy
<1>15. PICK n : n = Len(accepted) /\ n > 0 /\ accepted[n].key = k /\ accepted[n].ts = ts
  BY <1>1, <1>4 DEF LiveContent, LastAccepted
<1>16. DOMAIN buffer = active_windows
  BY <1>12 DEF Contents
<1>17. /\ DOMAIN buffer' = active_windows \cup {w}
       /\ \A v \in active_windows : v # w => buffer'[v] = buffer[v]
  BY <1>7, <1>16 DEF OnElement
<1>18. buffer'[w] = IF w \in active_windows THEN Append(buffer[w], ts) ELSE <<ts>>
  <2>1. buffer'[w] = IF Kind = "appender" THEN AppendElement(w, ts) ELSE AggregateElement(w, ts)
    BY <1>7 DEF OnElement
  <2>2. CASE w \in active_windows
    <3>1. buffer[w] \in Seq(Nat) /\ WindowAt(w) = buffer[w]
      BY <1>12, <1>16, <2>2 DEF Contents, Lists, WindowAt
    <3>2. WindowAt(w) # None
      BY <3>1, NoneAssumption
    <3> QED
      BY <2>1, <2>2, <3>1, <3>2 DEF AppendElement, AggregateElement
  <2>3. CASE w \notin active_windows
    <3>1. WindowAt(w) = IF Kind = "appender" THEN <<>> ELSE None
      BY <1>16, <2>3 DEF WindowAt, EmptyWindow
    <3> QED
      BY <2>1, <2>3, <3>1 DEF AppendElement, AggregateElement
  <2> QED
    BY <2>2, <2>3
<1>19. Contents(assigner, accepted, window_start, active_windows \cup {w}, buffer', outputs,
                rest \ {w})
  <2>1. PICK buf2 : buf2 = buffer'
    OBVIOUS
  <2>2. /\ DOMAIN buf2 = active_windows \cup {w}
        /\ \A v \in active_windows : v # w => buf2[v] = buffer[v]
        /\ buf2[w] = IF w \in active_windows THEN Append(buffer[w], accepted[Len(accepted)].ts)
                                             ELSE <<accepted[Len(accepted)].ts>>
    BY <1>15, <1>17, <1>18, <2>1
  <2>3. /\ Len(accepted) > 0 /\ accepted[Len(accepted)].key = k
        /\ GoesInto(assigner, window_start[k], index, accepted[Len(accepted)].ts)
    BY <1>5, <1>15
  <2>4. Contents(assigner, accepted, window_start, active_windows \cup {w}, buf2, outputs,
                 rest \ {w})
    BY <1>5, <1>6, <1>9, <1>12, <1>13, <1>14, <2>2, <2>3, ContentsInsert
  <2> QED
    BY <2>1, <2>4
<1>20. ASSUME NEW entries, \A id \in DOMAIN entries : AtTrigger(assigner, window_start, entries[id])
       PROVE  Closing(assigner, window_start, entries, active_windows \cup {w}, outputs, current_time)
  BY <1>9, <1>12, <1>13, <1>20 DEF Closing
<1>21. \A id \in DOMAIN timeouts : AtTrigger(assigner, window_start, timeouts[id])
  BY <1>12 DEF Closing
<1>22. \A id \in DOMAIN timeouts' : AtTrigger(assigner, window_start, timeouts'[id])
  <2>1. CASE UNCHANGED timeouts
    BY <1>21, <2>1
  <2>2. CASE ~ UNCHANGED timeouts
    <3>1. PICK event, time : event = WindowEvent(k, index) /\ time = Trigger(k, index)
      OBVIOUS
    <3>2. ScheduleAt(time, event)
      BY <1>4, <2>2, <3>1 DEF InsertIntoWindow
    <3>3. TriggerOf(assigner, window_start, w) = time /\ time \in Nat
      BY <1>6, <1>9, <1>11, <3>1, AssignerOperators
    <3>4. event \in WindowEvents /\ WindowOf(event) = w
      <4>1. End(k, index) \in Nat
        BY <1>1, <1>4, TriggerInFuture
      <4> QED
        BY <1>5, <1>6, <3>1, <4>1 DEF WindowEvent, WindowEvents, WindowOf
    <3>5. PICK id \in Ids \ DOMAIN timeouts :
            /\ DOMAIN timeouts' = DOMAIN timeouts \cup {id}
            /\ \A i \in DOMAIN timeouts : timeouts'[i] = timeouts[i]
            /\ timeouts'[id].payload = event /\ Due(timeouts'[id]) = time
      BY <1>1, <1>2, <3>2, <3>3, <3>4, Scheduled
    <3>6. AtTrigger(assigner, window_start, timeouts'[id])
      BY <1>9, <1>11, <3>3, <3>4, <3>5 DEF AtTrigger
    <3> QED
      BY <1>21, <3>5, <3>6
  <2> QED
    BY <2>1, <2>2
<1>23. Closing(assigner, window_start, timeouts', active_windows \cup {w}, outputs, current_time)
  BY <1>20, <1>22
<1>24. /\ Contents(assigner, accepted, window_start, active_windows, buffer, outputs, Rest)'
       /\ Closing(assigner, window_start, timeouts, active_windows, outputs, current_time)'
  BY <1>2, <1>7, <1>10, <1>19, <1>23
<1>25. pc' \in {"idle", "element"} /\ (pc' = "element" => todo'.key = k /\ todo'.ts = ts)
  <2>1. CASE index = ceil
    BY <1>4, <2>1 DEF InsertIntoWindow
  <2>2. CASE index # ceil
    <3>1. pc' = "element" /\ todo' = [todo EXCEPT !.index = index + 1]
      BY <1>1, <1>4, <2>2 DEF InsertIntoWindow
    <3> QED
      BY <1>1, <1>4, <3>1 DEF AtElement
  <2> QED
    BY <2>1, <2>2
<1>26. HandedOver' /\ LastAccepted'
  BY <1>2, <1>15, <1>25 DEF HandedOver, LastAccepted
<1> QED
  BY <1>3, <1>24, <1>26 DEF ContentInv, LiveContent

\* A watermark: nothing has been handed over yet.
LEMMA WatermarkContent ==
    ASSUME WindowInv, ContentInv, ~ panicked, NEW w \in 1 .. MaxTime, HandleWatermark(w),
           assigner' = assigner
    PROVE  ContentInv'
<1>1. /\ pc = "idle" /\ pc' = "advance" /\ advance'.res = <<>>
      /\ UNCHANGED <<window_start, active_windows, buffer, current_time, timeouts, accepted,
                     outputs, saved>>
  BY DEF HandleWatermark, AdvanceTo, windowVars, history, faults
<1>2. Rest = {} /\ Rest' = {} /\ LiveContent /\ SavedContent
  BY <1>1 DEF Rest, ContentInv
<1>3. SavedContent'
  BY <1>1, <1>2, SavedContentStays
<1>4. /\ Contents(assigner, accepted, window_start, active_windows, buffer, outputs, Rest)'
      /\ Closing(assigner, window_start, timeouts, active_windows, outputs, current_time)'
  BY <1>1, <1>2 DEF LiveContent
<1>5. HandedOver' /\ LastAccepted'
  BY <1>1 DEF HandedOver, LastAccepted
<1> QED
  BY <1>3, <1>4, <1>5 DEF ContentInv, LiveContent

\* One iteration of advance_to: what is handed over was due at its trigger.
LEMMA AdvanceContent ==
    ASSUME WindowInv, WindowInv', ContentInv, ~ panicked, AdvanceTimer, assigner' = assigner
    PROVE  ContentInv'
<1>1. /\ pc = "advance" /\ pc' = "advance"
      /\ UNCHANGED <<window_start, active_windows, buffer, accepted, outputs, saved>>
  BY DEF AdvanceTimer, windowVars, history, faults
<1>2. Rest = {} /\ Rest' = {} /\ LiveContent /\ SavedContent
  BY <1>1 DEF Rest, ContentInv
<1>3. SavedContent'
  BY <1>1, <1>2, SavedContentStays
<1>4. /\ Contents(assigner, accepted, window_start, active_windows, buffer, outputs, {})
      /\ Closing(assigner, window_start, timeouts, active_windows, outputs, current_time)
      /\ \A i \in DOMAIN advance.res : AtTrigger(assigner, window_start, advance.res[i])
      /\ \A id \in DOMAIN timeouts : AtTrigger(assigner, window_start, timeouts[id])
  BY <1>1, <1>2 DEF LiveContent, HandedOver, Closing
<1>5. /\ TimerInv /\ Collected(advance, timeouts, current_time)
      /\ current_time \in Nat /\ current_time' \in Nat
  BY <1>1 DEF WindowInv, PhaseInv, TimerInv
<1>6. ASSUME current_time <= current_time',
             \A id \in DOMAIN timeouts' : AtTrigger(assigner, window_start, timeouts'[id]),
             \A i \in DOMAIN advance'.res : AtTrigger(assigner, window_start, advance'.res[i])
      PROVE  ContentInv'
  <2>1. 0 .. current_time \subseteq 0 .. current_time'
    BY <1>5, <1>6
  <2>2. Closing(assigner, window_start, timeouts', active_windows, outputs, current_time')
    BY <1>4, <1>6, <2>1 DEF Closing
  <2>3. /\ Contents(assigner, accepted, window_start, active_windows, buffer, outputs, Rest)'
        /\ Closing(assigner, window_start, timeouts, active_windows, outputs, current_time)'
    BY <1>1, <1>2, <1>4, <2>2
  <2>4. HandedOver' /\ LastAccepted'
    BY <1>1, <1>6 DEF HandedOver, LastAccepted
  <2> QED
    BY <1>3, <2>3, <2>4 DEF ContentInv, LiveContent
<1>7. CASE NextChunk
  <2>1. UNCHANGED <<current_time, timeouts>>
    BY <1>7 DEF NextChunk
  <2>2. advance'.res = advance.res
    BY <1>5, <1>7, ChunkCollects
  <2> QED
    BY <1>4, <1>5, <1>6, <2>1, <2>2
<1>8. CASE SkipEmpty
  <2>1. timeouts' = timeouts
    BY <1>8 DEF SkipEmpty
  <2>2. advance'.res = advance.res /\ current_time <= current_time'
    BY <1>5, <1>8, EmptyCollects
  <2> QED
    BY <1>4, <1>6, <2>1, <2>2
<1>9. ASSUME timer # NoTimeouts, NEW n \in Skips, SkipMillis(n) PROVE ContentInv'
  <2>1. timeouts' = timeouts
    BY <1>9 DEF SkipMillis
  <2>2. advance'.res = advance.res /\ current_time <= current_time'
    BY <1>5, <1>9, SkipCollects
  <2> QED
    BY <1>4, <1>6, <2>1, <2>2
<1>10. ASSUME NEW order \in SetToSeqs(Ticked), Tick(order) PROVE ContentInv'
  <2>1. PICK res, res2, entries2 : res = advance.res /\ res2 = advance'.res /\ entries2 = timeouts'
    OBVIOUS
  <2>2. Moves(timeouts, res, entries2, res2, Ticked, order)
    BY <1>5, <1>10, <2>1, TickMoves
  <2>3. current_time <= current_time'
    BY <1>5, <1>10, TickCollects
  <2>4. \A id \in DOMAIN entries2 : AtTrigger(assigner, window_start, entries2[id])
    BY <1>4, <2>2 DEF Moves
  <2>5. ASSUME NEW i \in DOMAIN res2 PROVE AtTrigger(assigner, window_start, res2[i])
    <3>0. PICK n \in Nat, c \in Nat : n = Len(res) /\ c = Cardinality(Ticked)
      <4>1. Len(res) \in Nat /\ Cardinality(Ticked) \in Nat
        BY <2>2 DEF Moves
      <4> QED
        BY <4>1
    <3>1. /\ DOMAIN res = 1 .. n /\ DOMAIN res2 = 1 .. (n + c)
          /\ \A j \in 1 .. n : res2[j] = res[j]
          /\ \A j \in 1 .. c : res2[n + j] = timeouts[order[j]] /\ order[j] \in DOMAIN timeouts
      <4>1. /\ Ticked \subseteq DOMAIN timeouts /\ order \in [1 .. c -> Ticked]
            /\ \A j \in 1 .. c : res2[n + j] = timeouts[order[j]]
        BY <2>2, <3>0 DEF Moves
      <4> QED
        BY <2>2, <3>0, <4>1 DEF Moves
    <3>2. CASE i \in 1 .. n
      BY <1>4, <2>1, <3>1, <3>2
    <3>3. CASE i \notin 1 .. n
      <4>1. PICK j \in 1 .. c : i = n + j
        <5>1. i \in 1 .. (n + c) /\ i - n \in 1 .. c /\ i = n + (i - n)
          BY <3>1, <3>3
        <5> QED
          BY <5>1
      <4> QED
        BY <1>4, <3>1, <4>1
    <3> QED
      BY <3>2, <3>3
  <2> QED
    BY <1>6, <2>1, <2>3, <2>4, <2>5
<1> QED
  BY <1>7, <1>8, <1>9, <1>10 DEF AdvanceTimer, TickAndCollect

\* advance_to returns: the triggers of all windows it returned have passed.
LEMMA ReturnContent ==
    ASSUME WindowInv, ContentInv, ~ panicked, TimerReturns, assigner' = assigner
    PROVE  ContentInv'
<1>1. /\ pc = "advance" /\ pc' = "timeouts" /\ todo' = Payloads(advance.res)
      /\ UNCHANGED <<window_start, active_windows, buffer, accepted, outputs, saved,
                     current_time, timeouts>>
  BY DEF TimerReturns, windowVars, history, faults
<1>2. Rest = {} /\ Rest' = {} /\ LiveContent /\ SavedContent
  BY <1>1 DEF Rest, ContentInv
<1>3. SavedContent'
  BY <1>1, <1>2, SavedContentStays
<1>4. /\ Contents(assigner, accepted, window_start, active_windows, buffer, outputs, Rest)'
      /\ Closing(assigner, window_start, timeouts, active_windows, outputs, current_time)'
  BY <1>1, <1>2 DEF LiveContent
<1>5. PICK res \in Seq(TimerEvents) :
        res = advance.res /\ \A i \in DOMAIN res : Due(res[i]) <= current_time
  BY <1>1 DEF WindowInv, PhaseInv, Collected, Advances
<1>6. PICK events : events = todo' /\ DOMAIN events = DOMAIN res
                    /\ \A i \in DOMAIN res : events[i] = res[i].payload
  BY <1>1, <1>5 DEF Payloads
<1>7. ASSUME NEW i \in DOMAIN events
      PROVE  /\ WindowOf(events[i]) \in Windows(window_start)
             /\ TriggerOf(assigner, window_start, WindowOf(events[i])) \in 0 .. current_time
  <2>1. AtTrigger(assigner, window_start, res[i]) /\ events[i] = res[i].payload
    BY <1>1, <1>2, <1>5, <1>6 DEF LiveContent, HandedOver
  <2>2. Due(res[i]) \in Nat /\ Due(res[i]) <= current_time /\ current_time \in Nat
    BY <1>5, <1>6, DueType DEF WindowInv, TimerInv
  <2> QED
    BY <2>1, <2>2 DEF AtTrigger
<1>8. HandedOver' /\ LastAccepted'
  BY <1>1, <1>6, <1>7 DEF HandedOver, LastAccepted
<1> QED
  BY <1>3, <1>4, <1>8 DEF ContentInv, LiveContent

\* A window is closed.
LEMMA TimeoutContent ==
    ASSUME WindowInv, ContentInv, ~ panicked, HandleTimeout, assigner' = assigner
    PROVE  ContentInv'
<1>1. /\ pc = "timeouts" /\ todo \in Seq(WindowEvents) /\ todo # <<>>
      /\ pc' = "timeouts"
      /\ UNCHANGED <<window_start, accepted, saved, current_time, timeouts>>
  BY DEF WindowInv, PhaseInv, HandleTimeout, windowVars, faults
<1>2. Rest = {} /\ Rest' = {} /\ LiveContent /\ SavedContent
  BY <1>1 DEF Rest, ContentInv
<1>3. SavedContent'
  BY <1>1, <1>2, SavedContentStays
<1>4. CASE panicked'
  BY <1>3, <1>4 DEF ContentInv
<1>5. CASE ~ panicked'
  <2>1. PICK event : event = Head(todo)
    OBVIOUS
  <2>2. PICK w : w = WindowOf(event)
    OBVIOUS
  <2>3. PICK out : out = [window |-> w, result |-> WindowAt(w), timestamp |-> event.timestamp,
                          after |-> forwarded]
    OBVIOUS
  <2>4. /\ outputs' = Append(outputs, out) /\ buffer' = Clear(w)
        /\ active_windows' = active_windows \ {w} /\ todo' = Tail(todo)
    BY <1>5, <2>1, <2>2, <2>3 DEF HandleTimeout, WindowOf
  <2>5. 1 \in DOMAIN todo /\ event = todo[1]
    BY <1>1, <2>1
  <2>6. w \in active_windows
    <3>1. Matched(active_windows, timeouts, todo)
      BY <1>1 DEF WindowInv, TriggerInv, Held
    <3> QED
      BY <2>2, <2>5, <3>1 DEF Matched
  <2>7. /\ Contents(assigner, accepted, window_start, active_windows, buffer, outputs, {})
        /\ Closing(assigner, window_start, timeouts, active_windows, outputs, current_time)
        /\ \A i \in DOMAIN todo :
             /\ WindowOf(todo[i]) \in Windows(window_start)
             /\ TriggerOf(assigner, window_start, WindowOf(todo[i])) \in 0 .. current_time
    BY <1>1, <1>2 DEF LiveContent, HandedOver
  <2>8. out.window = w /\ out.result = buffer[w] /\ (\E S : outputs \in Seq(S))
    BY <2>3, <2>6, <2>7 DEF WindowAt, Contents, Closing
  <2>9. buffer' = [v \in DOMAIN buffer \ {w} |-> buffer[v]]
    BY <2>4 DEF Clear
  <2>10. Contents(assigner, accepted, window_start, active_windows \ {w}, buffer',
                  Append(outputs, out), {})
    <3>1. Contents(assigner, accepted, window_start, active_windows \ {w},
                   [v \in DOMAIN buffer \ {w} |-> buffer[v]], Append(outputs, out), {})
      BY <2>6, <2>7, <2>8, ContentsClose
    <3> QED
      BY <2>9, <3>1
  <2>11. /\ w \in Windows(window_start)
         /\ TriggerOf(assigner, window_start, w) \in 0 .. current_time
    BY <2>2, <2>5, <2>7
  <2>12. Closing(assigner, window_start, timeouts, active_windows \ {w}, Append(outputs, out),
                 current_time)
    BY <2>6, <2>7, <2>8, <2>11, ClosingClose
  <2>13. /\ Contents(assigner, accepted, window_start, active_windows, buffer, outputs, Rest)'
         /\ Closing(assigner, window_start, timeouts, active_windows, outputs, current_time)'
    BY <1>1, <1>2, <2>4, <2>10, <2>12
  <2>14. \A i \in DOMAIN Tail(todo) : Tail(todo)[i] = todo[i + 1] /\ i + 1 \in DOMAIN todo
    BY <1>1
  <2>15. HandedOver' /\ LastAccepted'
    BY <1>1, <2>4, <2>7, <2>14 DEF HandedOver, LastAccepted
  <2> QED
    BY <1>3, <2>13, <2>15 DEF ContentInv, LiveContent
<1> QED
  BY <1>4, <1>5

\* The watermark goes on.
LEMMA ForwardContent ==
    ASSUME WindowInv, ContentInv, ~ panicked, ForwardWatermark, assigner' = assigner
    PROVE  ContentInv'
<1>1. /\ pc = "timeouts" /\ pc' = "idle"
      /\ UNCHANGED <<window_start, active_windows, buffer, accepted, outputs, saved,
                     current_time, timeouts>>
  BY DEF ForwardWatermark, windowVars, faults, timerVars
<1>2. Rest = {} /\ Rest' = {} /\ LiveContent /\ SavedContent
  BY <1>1 DEF Rest, ContentInv
<1>3. SavedContent'
  BY <1>1, <1>2, SavedContentStays
<1>4. /\ Contents(assigner, accepted, window_start, active_windows, buffer, outputs, Rest)'
      /\ Closing(assigner, window_start, timeouts, active_windows, outputs, current_time)'
  BY <1>1, <1>2 DEF LiveContent
<1>5. HandedOver' /\ LastAccepted'
  BY <1>1 DEF HandedOver, LastAccepted
<1> QED
  BY <1>3, <1>4, <1>5 DEF ContentInv, LiveContent

\* A checkpoint has what the windows hold, and the elements they hold.
LEMMA CheckpointContent ==
    ASSUME WindowInv, ContentInv, ~ panicked, Checkpoint, assigner' = assigner
    PROVE  ContentInv'
<1>1. /\ pc = "idle" /\ pc' = "idle"
      /\ UNCHANGED <<window_start, active_windows, buffer, accepted, outputs,
                     current_time, timeouts>>
  BY DEF Checkpoint, windowVars, history, timerVars
<1>2. Rest = {} /\ Rest' = {} /\ LiveContent
  BY <1>1 DEF Rest, ContentInv
<1>3. /\ Contents(assigner, accepted, window_start, active_windows, buffer, outputs, {})
      /\ Closing(assigner, window_start, timeouts, active_windows, outputs, current_time)
  BY <1>2 DEF LiveContent
<1>4. PICK s : s = saved'
  OBVIOUS
<1>5. /\ s[1] = current_time /\ s[2] = timeouts /\ s[3][1] = window_start
      /\ s[3][2] = active_windows /\ s[3][3] = buffer /\ s[5][1] = accepted /\ s[5][2] = outputs
  BY <1>4 DEF Checkpoint, windowVars, history
<1>6. /\ Contents(assigner, s[5][1], s[3][1], s[3][2], s[3][3], s[5][2], {})
      /\ Closing(assigner, s[3][1], s[2], s[3][2], s[5][2], s[1])
  BY <1>3, <1>5
<1>7. SavedContent'
  BY <1>4, <1>6 DEF SavedContent
<1>8. /\ Contents(assigner, accepted, window_start, active_windows, buffer, outputs, Rest)'
      /\ Closing(assigner, window_start, timeouts, active_windows, outputs, current_time)'
  BY <1>1, <1>2, <1>3
<1>9. HandedOver' /\ LastAccepted'
  BY <1>1 DEF HandedOver, LastAccepted
<1> QED
  BY <1>7, <1>8, <1>9 DEF ContentInv, LiveContent

\* A restart brings back the windows and the elements of the checkpoint.
LEMMA RestartContent ==
    ASSUME WindowInv, ContentInv, Restart, assigner' = assigner
    PROVE  ContentInv'
<1>1. PICK t, en, ws, aw, wm, buf, acc, outs, fwd :
        /\ t = saved[1] /\ en = saved[2] /\ ws = saved[3][1] /\ aw = saved[3][2]
        /\ buf = saved[3][3] /\ wm = saved[4]
        /\ acc = saved[5][1] /\ outs = saved[5][2] /\ fwd = saved[5][3]
  OBVIOUS
<1>2. /\ Stored(t, en, ws, aw, wm, outs, fwd)
      /\ Contents(assigner, acc, ws, aw, buf, outs, {}) /\ Closing(assigner, ws, en, aw, outs, t)
  BY <1>1 DEF WindowInv, SavedOk, Restart, ContentInv, SavedContent
<1>3. /\ window_start' = ws /\ active_windows' = aw /\ buffer' = buf
      /\ accepted' = acc /\ outputs' = outs /\ pc' = "idle" /\ saved' = saved
      /\ InitTimer(t, en)
  BY <1>1 DEF Restart
<1>4. t \in Nat /\ t # None
  BY <1>2, TimerAssumption DEF Stored
<1>5. current_time' = t /\ timeouts' = en /\ Rest' = {}
  BY <1>3, <1>4 DEF InitTimer, Rest
<1>6. SavedContent'
  BY <1>3, SavedContentStays DEF ContentInv
<1>7. /\ Contents(assigner, accepted, window_start, active_windows, buffer, outputs, Rest)'
      /\ Closing(assigner, window_start, timeouts, active_windows, outputs, current_time)'
  BY <1>2, <1>3, <1>5
<1>8. HandedOver' /\ LastAccepted'
  BY <1>3 DEF HandedOver, LastAccepted
<1> QED
  BY <1>6, <1>7, <1>8 DEF ContentInv, LiveContent

\* Every step keeps the second invariant.
LEMMA ContentInvStep == WindowInv /\ WindowInv' /\ ContentInv /\ [Next]_vars => ContentInv'
<1> SUFFICES ASSUME WindowInv, WindowInv', ContentInv, [Next]_vars PROVE ContentInv'
  OBVIOUS
<1>1. ASSUME UNCHANGED vars PROVE ContentInv'
  <2>1. /\ UNCHANGED <<assigner, current_time, timeouts, advance, panicked, window_start,
                       active_windows, buffer, pc, todo, accepted, outputs, saved>>
    BY <1>1 DEF vars, timerVars, windowVars, history, faults
  <2>2. Rest' = Rest /\ SavedContent'
    BY <2>1, SavedContentStays DEF Rest, ContentInv
  <2>3. ~ panicked => LiveContent'
    BY <2>1, <2>2 DEF ContentInv, LiveContent, HandedOver, LastAccepted
  <2> QED
    BY <2>1, <2>2, <2>3 DEF ContentInv
<1>2. ASSUME ~ panicked, NEW k \in ElementKeys, NEW t \in 1 .. MaxTimestamp \cup {None},
             DropElement(t) \/ HandleElement(k, t), assigner' = assigner
      PROVE  ContentInv'
  BY <1>1, <1>2, AcceptContent DEF DropElement
<1>3. CASE Message
  BY <1>2, <1>3, WatermarkContent, CheckpointContent DEF Message
<1>4. CASE Handler
  BY <1>4, InsertContent, AdvanceContent, ReturnContent, TimeoutContent, ForwardContent DEF Handler
<1>5. CASE Restart /\ UNCHANGED assigner
  BY <1>5, RestartContent
<1> QED
  BY <1>1, <1>3, <1>4, <1>5 DEF Next

\* Between two messages, the windows are complete unless an element came that is
\* before the first one of its key.
LEMMA CompleteUnlessEarlier ==
    ASSUME WindowInv, ContentInv,
           \A i \in DOMAIN accepted : window_start[accepted[i].key] <= accepted[i].ts
    PROVE  WindowsAreComplete
<1> SUFFICES ASSUME pc = "idle", ~ panicked
             PROVE  /\ \A w \in active_windows : HasItsElements(w, WindowAt(w))
                    /\ \A i \in DOMAIN outputs : HasItsElements(outputs[i].window, outputs[i].result)
                    /\ Cardinality(Closed) = Len(outputs)
                    /\ \A i \in DOMAIN accepted : \A index \in 0 .. MaxTimestamp :
                         InWindow(accepted[i].key, index, accepted[i].ts) =>
                             <<accepted[i].key, index>> \in active_windows \cup Closed
  BY DEF WindowsAreComplete
<1>1. /\ Contents(assigner, accepted, window_start, active_windows, buffer, outputs, {})
      /\ Closing(assigner, window_start, timeouts, active_windows, outputs, current_time)
  BY DEF ContentInv, LiveContent, Rest
<1>2. assigner \in Assigners /\ Starts(window_start) /\ accepted \in Seq(Elements)
  BY <1>1 DEF WindowInv, TriggerInv, Contents
<1>3. ASSUME NEW k \in DOMAIN window_start, NEW index \in Nat, NEW i \in DOMAIN accepted,
             accepted[i].key = k
      PROVE  InWindow(k, index, accepted[i].ts) <=>
                 GoesInto(assigner, window_start[k], index, accepted[i].ts)
  <2>1. PICK start \in 1 .. MaxTimestamp : start = window_start[k]
    BY <1>2 DEF Starts
  <2>2. PICK ts \in 1 .. MaxTimestamp : ts = accepted[i].ts
    BY <1>2, AcceptedType
  <2>3. start <= ts
    BY <1>3, <2>1, <2>2
  <2>4. GoesInto(assigner, start, index, ts) <=>
            /\ start + index * window_slide <= ts
            /\ ts < start + index * window_slide + window_length
    BY <1>2, <2>3, GoesWhereItLies
  <2> QED
    BY <2>1, <2>2, <2>4 DEF InWindow
<1>4. ASSUME NEW w \in Windows(window_start)
      PROVE  MembersOf(w) = Belonging(assigner, accepted, window_start, w)
  <2>1. w[1] \in DOMAIN window_start /\ w[2] \in Nat
    BY DEF Windows
  <2> QED
    BY <1>3, <2>1 DEF MembersOf, Belonging
<1>5. ASSUME NEW w \in Windows(window_start), NEW result,
             Lists(result, Belonging(assigner, accepted, window_start, w), accepted)
      PROVE  HasItsElements(w, result)
  BY <1>4, <1>5 DEF Lists, HasItsElements
<1>6. \A w : Inserted(assigner, accepted, window_start, {}, w) =
               Belonging(assigner, accepted, window_start, w)
  BY DEF Inserted
<1>7. ASSUME NEW w \in active_windows PROVE HasItsElements(w, WindowAt(w))
  <2>1. /\ w \in Windows(window_start) /\ WindowAt(w) = buffer[w]
        /\ Lists(buffer[w], Belonging(assigner, accepted, window_start, w), accepted)
    BY <1>1, <1>6 DEF Contents, WindowAt
  <2> QED
    BY <1>5, <2>1
<1>8. ASSUME NEW i \in DOMAIN outputs
      PROVE  HasItsElements(outputs[i].window, outputs[i].result)
  <2>1. /\ outputs[i].window \in Windows(window_start)
        /\ Lists(outputs[i].result,
                 Belonging(assigner, accepted, window_start, outputs[i].window), accepted)
    BY <1>1 DEF Contents, Closing
  <2> QED
    BY <1>5, <2>1
<1>9. Closed = ClosedBy(outputs)
  BY DEF Closed, ClosedBy
<1>10. Cardinality(Closed) = Len(outputs)
  <2>1. PICK S : outputs \in Seq(S)
    BY <1>1 DEF Closing
  <2>2. PICK n \in Nat : n = Len(outputs) /\ DOMAIN outputs = 1 .. n
    BY <2>1
  <2>3. PICK f : f = [i \in 1 .. n |-> outputs[i].window]
    OBVIOUS
  <2>4. /\ f \in [1 .. n -> Closed]
        /\ \A i, j \in 1 .. n : f[i] = f[j] => i = j
        /\ \A w \in Closed : \E i \in 1 .. n : f[i] = w
    BY <1>1, <2>2, <2>3 DEF Closed, Closing
  <2>5. f \in Bijection(1 .. n, Closed)
    BY <2>4 DEF Bijection, Injection, Surjection, IsInjective
  <2>6. IsFiniteSet(1 .. n) /\ Cardinality(1 .. n) = n
    BY FS_Interval
  <2> QED
    BY <2>2, <2>5, <2>6, FS_Bijection DEF ExistsBijection
<1>11. ASSUME NEW i \in DOMAIN accepted, NEW index \in 0 .. MaxTimestamp,
              InWindow(accepted[i].key, index, accepted[i].ts)
       PROVE  <<accepted[i].key, index>> \in active_windows \cup Closed
  <2>1. PICK k \in DOMAIN window_start : k = accepted[i].key
    BY <1>1 DEF Contents
  <2>2. PICK w : w = <<k, index>>
    OBVIOUS
  <2>3. index \in Nat /\ w[1] = k /\ w[2] = index
    BY <2>2, BoundsAssumption
  <2>4. i \in Belonging(assigner, accepted, window_start, w)
    BY <1>3, <1>11, <2>1, <2>3 DEF Belonging
  <2>5. Inserted(assigner, accepted, window_start, {}, <<k, index>>) # {}
    BY <1>6, <2>2, <2>4
  <2> QED
    BY <1>1, <1>9, <2>1, <2>3, <2>5 DEF Contents
<1> QED
  BY <1>7, <1>8, <1>10, <1>11

\* Both invariants hold throughout.
THEOREM ContentInvariant == Spec => [](WindowInv /\ ContentInv)
<1>1. WindowInv /\ ContentInv /\ [Next]_vars => (WindowInv /\ ContentInv)'
  BY WindowInvStep, ContentInvStep
<1> QED
  BY <1>1, InitWindowInv, InitContentInv, PTL DEF Spec

(* With overflow checks, every result has exactly the elements between the   *)
(* start and the end of its window, in order of arrival, no window is closed *)
(* twice, and every element that was not dropped is in all of its windows,   *)
(* open or closed, also after a restart (handle_element, handle_timeout).    *)
THEOREM WindowsComplete == OverflowChecks => (Spec => []WindowsAreComplete)
<1> SUFFICES ASSUME OverflowChecks PROVE Spec => []WindowsAreComplete
  OBVIOUS
<1>1. WindowInv /\ ContentInv => WindowsAreComplete
  <2> SUFFICES ASSUME WindowInv, ContentInv, ~ panicked PROVE WindowsAreComplete
    BY DEF WindowsAreComplete
  <2>1. \A i \in DOMAIN accepted : window_start[accepted[i].key] <= accepted[i].ts
    BY DEF ContentInv, LiveContent, Contents
  <2> QED
    BY <2>1, CompleteUnlessEarlier
<1> QED
  BY <1>1, ContentInvariant, PTL

(* The same in a build without overflow checks, as long as no element is     *)
(* before the first one of its key, so that no distance wraps around.        *)
THEOREM WindowsCompleteInOrder ==
    Spec => []((\A i \in DOMAIN accepted : window_start[accepted[i].key] <= accepted[i].ts)
                  => WindowsAreComplete)
<1>1. WindowInv /\ ContentInv =>
        ((\A i \in DOMAIN accepted : window_start[accepted[i].key] <= accepted[i].ts)
            => WindowsAreComplete)
  BY CompleteUnlessEarlier
<1> QED
  BY <1>1, ContentInvariant, PTL
=============================================================================
