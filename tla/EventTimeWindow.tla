--------------------------- MODULE EventTimeWindow ---------------------------
(* The event-time window operator (src/stream/operator/window) inside a node   *)
(* with one input channel, composed with the node's event timer: elements open *)
(* windows and schedule their triggers, a watermark moves the timer and the    *)
(* triggers that are due close windows. A handler runs to its end before the   *)
(* next message; its loops are modelled one iteration at a time.               *)
EXTENDS EventTimer

CONSTANTS
    ElementKeys,      \* what get_key of an element may return
    Assigners,        \* the arguments of EventTimeWindowAssigner::new there may be
    MaxTimestamp,     \* bound: elements have timestamps up to MaxTimestamp
    MaxElements,      \* bound: elements accepted
    MaxRestarts,      \* bound: crashes
    OverflowChecks,   \* whether the build panics on integer overflow
    U64               \* 2^64, scaled down: u64 arithmetic is modulo U64

VARIABLES assigner,           \* the arguments of this one
          window_start,       \* key -> timestamp
          active_windows,     \* a set of <<key, index>>
          buffer,             \* <<key, index>> -> the window's state
          current_watermark,  \* of the node and of its only channel
          pc,                 \* "idle" or what the running handler does next
          todo,               \* the element, or the timeouts, being handled
          accepted,           \* history: [key, ts] of elements not dropped
          outputs,            \* what was output
          forwarded,          \* the last watermark forwarded
          saved, restarts     \* the last checkpoint; crashes so far

windowVars == <<window_start, active_windows, buffer>>
history == <<accepted, outputs, forwarded>>
faults == <<saved, restarts>>
vars == <<assigner, timerVars, windowVars, current_watermark, pc, todo, history, faults>>

\* keyed: windows per key; kind: "appender" (AppenderWindow) or "incremental"
\* (IncrementalWindow).
keyed == assigner.keyed
Kind == assigner.kind
window_length == assigner.window_length
window_slide == assigner.window_slide
late_arrival_time == assigner.late_arrival_time

\* The checks of EventTimeWindowAssigner::new, and bounds that keep all sums
\* below U64 so that only a subtraction can overflow.
ASSUME BoundsAssumption == MaxTimestamp \in Nat \ {0} /\ U64 \in Nat
ASSUME WindowAssumption ==
    \A a \in Assigners :
        /\ a.window_slide \in Nat \ {0} /\ a.window_length \in Nat
        /\ a.window_length >= a.window_slide
        /\ a.window_length % a.window_slide = 0
        /\ a.late_arrival_time \in Nat
        /\ MaxTimestamp + a.window_length + a.late_arrival_time < U64
        /\ MaxTime >= MaxTimestamp + a.window_length + a.late_arrival_time
        /\ a.kind \in {"appender", "incremental"} /\ a.keyed \in BOOLEAN
ASSUME BuildAssumption == OverflowChecks \in BOOLEAN
ASSUME NoneAssumption == None \notin Seq(Nat)

Nothing == [i \in {} |-> None]

Init ==
    /\ assigner \in Assigners
    /\ current_time = 0 /\ timeouts = NoTimeouts /\ timer = NoTimeouts
    /\ advance = None /\ panicked = FALSE
    /\ window_start = Nothing /\ active_windows = {} /\ buffer = Nothing
    /\ current_watermark = 0
    /\ pc = "idle" /\ todo = <<>>
    /\ accepted = <<>> /\ outputs = <<>> /\ forwarded = 0
    /\ saved = None /\ restarts = 0

GetKey(k) == IF keyed THEN k ELSE 0

-----------------------------------------------------------------------------
\* The state of one window. An AppenderWindow has a vec; an IncrementalWindow an
\* accumulator, None until init is called with the first element. The user's
\* functions (materializer, init, agg) keep all elements.
EmptyWindow == IF Kind = "appender" THEN <<>> ELSE None
WindowAt(w) == IF w \in DOMAIN buffer THEN buffer[w] ELSE EmptyWindow
AppendElement(w, ts) == Append(WindowAt(w), ts)
AggregateElement(w, ts) == IF WindowAt(w) = None THEN <<ts>> ELSE Append(WindowAt(w), ts)
OnElement(w, ts) ==
    [v \in DOMAIN buffer \cup {w} |->
        IF v # w THEN buffer[v]
        ELSE IF Kind = "appender" THEN AppendElement(w, ts) ELSE AggregateElement(w, ts)]
HasResult(w) == WindowAt(w) # None
Clear(w) == [v \in DOMAIN buffer \ {w} |-> buffer[v]]

\* The first element of a key opens its first window; a later one goes into
\* all windows from floor to ceil.
PerWindow == window_length \div window_slide
Ceil(start, ts) == ((ts + U64 - start) % U64) \div window_slide
\* A mutant: one window too many.
FloorTooLow(ceil) == IF ceil >= PerWindow THEN ceil - PerWindow ELSE 0
Floor(ceil) == IF ceil >= PerWindow THEN ceil - PerWindow + 1 ELSE 0

\* A mutant: no early return for a late arrival.
NeverLate(ts) == FALSE
IsLate(ts) ==
    ts < IF current_time > late_arrival_time THEN current_time - late_arrival_time ELSE 0

\* The Element arm of the node: an element without timestamp is not dropped
\* there; the window takes 1 for its timestamp.
Timestamp(t) == IF t = None THEN 1 ELSE t
IsDropped(t) == (t # None /\ t <= current_watermark) \/ IsLate(Timestamp(t))
DropElement(t) == pc = "idle" /\ IsDropped(t) /\ UNCHANGED vars

\* handle_element up to its loop.
HandleElement(k, t) ==
    LET ts == Timestamp(t)
        key == GetKey(k)
        started == key \in DOMAIN window_start
        overflows == started /\ ts < window_start[key]
        ceil == IF started THEN Ceil(window_start[key], ts) ELSE 0
    IN  /\ pc = "idle" /\ Len(accepted) < MaxElements
        /\ ~ IsDropped(t)
        /\ accepted' = Append(accepted, [key |-> key, ts |-> ts])
        /\ IF overflows /\ OverflowChecks
           THEN panicked' = TRUE /\ UNCHANGED <<window_start, pc, todo>>
           ELSE /\ window_start' = IF started THEN window_start
                      ELSE [i \in DOMAIN window_start \cup {key} |->
                              IF i = key THEN ts ELSE window_start[i]]
                /\ pc' = "element"
                /\ todo' = [key |-> key, ts |-> ts, ceil |-> ceil, index |-> Floor(ceil)]
                /\ UNCHANGED panicked
        /\ UNCHANGED <<current_time, timeouts, timer, advance, active_windows, buffer,
                       current_watermark, outputs, forwarded, faults>>

\* new_window_trigger
End(key, index) == (window_start[key] + index * window_slide + window_length) % U64
Trigger(key, index) == (End(key, index) + late_arrival_time) % U64
WindowEvent(key, index) == [key |-> key, index |-> index, timestamp |-> End(key, index)]

\* A mutant: a trigger for every element.
AlwaysTrigger(w) == TRUE
NeedsTrigger(w) == w \notin active_windows

\* One iteration of the loop over the element's windows: `unreachable!' when
\* the trigger of a new window is not in the future.
InsertIntoWindow ==
    LET w == <<todo.key, todo.index>> IN
    /\ pc = "element"
    /\ buffer' = OnElement(w, todo.ts)
    /\ active_windows' = active_windows \cup {w}
    /\ IF ~ NeedsTrigger(w)
       THEN UNCHANGED <<timeouts, timer, panicked>>
       ELSE IF Expired(Trigger(todo.key, todo.index))
       THEN panicked' = TRUE /\ UNCHANGED <<timeouts, timer>>
       ELSE /\ ScheduleAt(Trigger(todo.key, todo.index), WindowEvent(todo.key, todo.index))
            /\ UNCHANGED panicked
    /\ IF todo.index = todo.ceil
       THEN pc' = "idle" /\ todo' = <<>>
       ELSE todo' = [todo EXCEPT !.index = @ + 1] /\ UNCHANGED pc
    /\ UNCHANGED <<current_time, advance, window_start, current_watermark, history, faults>>

\* A mutant: the watermark is forwarded before the timeouts are handled.
ForwardFirst(w) ==
    /\ pc = "idle"
    /\ w > current_watermark
    /\ current_watermark' = w
    /\ pc' = "advance"
    /\ AdvanceTo(w)
    /\ forwarded' = w
    /\ UNCHANGED <<windowVars, todo, accepted, outputs, faults>>
\* The Watermark arm of the node; the operator itself ignores watermarks.
HandleWatermark(w) ==
    /\ pc = "idle"
    /\ w > current_watermark
    /\ current_watermark' = w
    /\ pc' = "advance"
    /\ AdvanceTo(w)
    /\ UNCHANGED <<windowVars, todo, history, faults>>

AdvanceTimer ==
    /\ pc = "advance"
    /\ NextChunk \/ TickAndCollect
    /\ UNCHANGED <<windowVars, current_watermark, pc, todo, history, faults>>

Payloads(res) == [i \in DOMAIN res |-> res[i].payload]
TimerReturns ==
    /\ pc = "advance" /\ Returned
    /\ pc' = "timeouts"
    /\ todo' = Payloads(advance.res)
    /\ advance' = None
    /\ UNCHANGED <<current_time, timeouts, timer, panicked, windowVars,
                   current_watermark, history, faults>>

\* handle_timeout; an incremental window without elements has no result.
HandleTimeout ==
    /\ pc = "timeouts" /\ todo # <<>>
    /\ LET event == Head(todo)
           w == <<event.key, event.index>>
       IN  IF ~ HasResult(w)
           THEN panicked' = TRUE /\ UNCHANGED <<windowVars, outputs, todo>>
           ELSE /\ outputs' = Append(outputs, [window |-> w, result |-> WindowAt(w),
                                       timestamp |-> event.timestamp, after |-> forwarded])
                /\ buffer' = Clear(w)
                /\ active_windows' = active_windows \ {w}
                /\ todo' = Tail(todo)
                /\ UNCHANGED <<window_start, panicked>>
    /\ UNCHANGED <<current_time, timeouts, timer, advance, current_watermark, pc,
                   accepted, forwarded, faults>>

ForwardWatermark ==
    /\ pc = "timeouts" /\ todo = <<>>
    /\ forwarded' = current_watermark
    /\ pc' = "idle"
    /\ UNCHANGED <<timerVars, windowVars, current_watermark, todo,
                   accepted, outputs, faults>>

\* The Epoch arm: everything in the backend is saved, and the history with it,
\* since what came later is sent and output again.
Checkpoint ==
    /\ pc = "idle"
    /\ saved' = <<current_time, timeouts, windowVars, current_watermark, history>>
    /\ UNCHANGED <<timerVars, windowVars, current_watermark, pc, todo, history, restarts>>

\* A crash, at any point, and a restart from the checkpoint.
Restart ==
    /\ saved # None /\ restarts < MaxRestarts
    /\ restarts' = restarts + 1
    /\ InitTimer(saved[1], saved[2])
    /\ window_start' = saved[3][1] /\ active_windows' = saved[3][2] /\ buffer' = saved[3][3]
    /\ current_watermark' = saved[4]
    /\ accepted' = saved[5][1] /\ outputs' = saved[5][2] /\ forwarded' = saved[5][3]
    /\ pc' = "idle" /\ todo' = <<>>
    /\ UNCHANGED saved

Handler ==
    /\ ~ panicked
    /\ UNCHANGED assigner
    /\ \/ InsertIntoWindow \/ AdvanceTimer \/ TimerReturns
       \/ HandleTimeout \/ ForwardWatermark

Message ==
    /\ ~ panicked
    /\ UNCHANGED assigner
    /\ \/ \E k \in ElementKeys, t \in 1 .. MaxTimestamp \cup {None} :
            DropElement(t) \/ HandleElement(k, t)
       \/ \E w \in 1 .. MaxTime : HandleWatermark(w)
       \/ Checkpoint

Next == Message \/ Handler \/ (Restart /\ UNCHANGED assigner)

Spec == Init /\ [][Next]_vars

\* A handler that has started runs to its end.
FairSpec == Spec /\ WF_vars(Handler)

-----------------------------------------------------------------------------
InWindow(key, index, ts) ==
    LET start == window_start[key] + index * window_slide
    IN  start <= ts /\ ts < start + window_length
MembersOf(w) ==
    {i \in DOMAIN accepted : accepted[i].key = w[1] /\ InWindow(w[1], w[2], accepted[i].ts)}
HasItsElements(w, result) ==
    \E at \in [1 .. Len(result) -> MembersOf(w)] :
        /\ \A m, n \in DOMAIN at : m < n => at[m] < at[n]
        /\ \A i \in MembersOf(w) : \E n \in DOMAIN at : at[n] = i
        /\ result = [n \in DOMAIN at |-> accepted[at[n]].ts]
Closed == {outputs[i].window : i \in DOMAIN outputs}

\* The result of a window has exactly the elements between its start and its
\* end, in order of arrival; no window is closed twice; every element that was
\* not dropped is in all of its windows, whether they are open or closed, also
\* after a restart (handle_element, handle_timeout).
WindowsAreComplete ==
    pc = "idle" /\ ~ panicked =>
        /\ \A w \in active_windows : HasItsElements(w, WindowAt(w))
        /\ \A i \in DOMAIN outputs : HasItsElements(outputs[i].window, outputs[i].result)
        /\ Cardinality(Closed) = Len(outputs)
        /\ \A i \in DOMAIN accepted : \A index \in 0 .. MaxTimestamp :
             InWindow(accepted[i].key, index, accepted[i].ts) =>
                 <<accepted[i].key, index>> \in active_windows \cup Closed

\* Windows and triggers correspond: between two messages each open window has
\* one pending timeout, which is not due yet.
OneTriggerPerWindow ==
    pc = "idle" /\ ~ panicked =>
        /\ current_time = current_watermark
        /\ active_windows = {<<timeouts[id].payload.key, timeouts[id].payload.index>> :
                                id \in DOMAIN timeouts}
        /\ Cardinality(active_windows) = Cardinality(DOMAIN timeouts)

\* "I'm pretty sure this shouldn't happen" (handle_element's unreachable!): the
\* trigger of every window an element goes into is still in the future.
TriggersAreInTheFuture ==
    pc = "element" => ~ Expired(Trigger(todo.key, todo.index))

\* The node downstream drops elements behind a watermark: without late_arrival_time
\* no result is, since a window is closed before its watermark is forwarded.
ResultsAreOnTime ==
    late_arrival_time = 0 =>
        \A i \in DOMAIN outputs : outputs[i].timestamp > outputs[i].after

\* A window that the watermark has passed, by late_arrival_time, does not stay
\* open: it is closed, or a crash takes the watermark back (handle_timeout).
Overdue(key, index) ==
    /\ <<key, index>> \in active_windows
    /\ Trigger(key, index) <= current_watermark
PassedWindowsClose ==
    []<>(\A key \in DOMAIN window_start, index \in 0 .. MaxTimestamp :
            ~ Overdue(key, index) \/ panicked)
=============================================================================
