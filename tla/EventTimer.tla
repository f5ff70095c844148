----------------------------- MODULE EventTimer -----------------------------
(* The event timer of a node (src/timer/event_timer.rs). The pending timeouts *)
(* and the current time are in the state backend, and so in checkpoints; the  *)
(* wheel that says when the next one is due is not, and is filled again from  *)
(* them on a restart. advance_to is a loop: one action per iteration.         *)
EXTENDS Naturals, FiniteSets, SequencesExt

CONSTANTS
    MaxTimeouts,      \* bound: pending timeouts
    MaxTime,          \* bound: timestamps are 0 .. MaxTime
    U32Max,           \* std::u32::MAX, scaled down
    None              \* Option::None

VARIABLES current_time,   \* in the backend: None before the first init
          timeouts,       \* in the backend: id -> EventTimerEvent
          timer,          \* QuadWheelWithOverflow: id -> milliseconds left
          advance,        \* the call of advance_to that is under way, or None
          panicked        \* the node has panicked

timerVars == <<current_time, timeouts, timer, advance, panicked>>

ASSUME TimerAssumption ==
    /\ MaxTimeouts \in Nat /\ MaxTime \in Nat
    /\ U32Max \in Nat \ {0}
    /\ None \notin Nat

Ids == 1 .. MaxTimeouts
NoTimeouts == [id \in {} |-> None]
Due(e) == e.time_when_scheduled + e.timeout_millis

-----------------------------------------------------------------------------
\* The wheel, external: a delay of zero has expired; skip must not pass the
\* next timeout, how far it may go depends on the wheel's inner position.
InsertWithDelay(id, delay) ==
    [i \in DOMAIN timer \cup {id} |-> IF i = id THEN delay ELSE timer[i]]
NextDue == CHOOSE n \in {timer[i] : i \in DOMAIN timer} :
             \A i \in DOMAIN timer : n <= timer[i]
Skips == 1 .. (NextDue - 1)
Passed(n) == [i \in DOMAIN timer |-> timer[i] - n]
Ticked == {i \in DOMAIN timer : timer[i] = 1}

\* init: the time starts at 0 when the backend has none, then replay_events
\* puts every timeout of the backend into the wheel. One that is not in the
\* future panics: the delay is zero, or the subtraction overflows.
InitTimer(time, entries) ==
    LET now == IF time = None THEN 0 ELSE time IN
    /\ current_time' = now
    /\ timeouts' = entries
    /\ advance' = None
    /\ IF \A id \in DOMAIN entries : Due(entries[id]) > now
       THEN /\ timer' = [id \in DOMAIN entries |-> Due(entries[id]) - now]
            /\ panicked' = FALSE
       ELSE timer' = NoTimeouts /\ panicked' = TRUE

\* schedule_after; an entry due now is handed back and nothing is kept.
ScheduleAfter(delay, entry) ==
    /\ delay > 0
    /\ DOMAIN timeouts # Ids
    /\ LET id == CHOOSE i \in Ids : i \notin DOMAIN timeouts
           e == [time_when_scheduled |-> current_time,
                 timeout_millis |-> delay, payload |-> entry]
       IN  /\ timer' = InsertWithDelay(id, delay)
           /\ timeouts' = [i \in DOMAIN timeouts \cup {id} |->
                              IF i = id THEN e ELSE timeouts[i]]

\* schedule_at, for a time in the future; otherwise the entry is handed back.
Expired(time) == time <= current_time
ScheduleAt(time, entry) ==
    /\ ~ Expired(time)
    /\ ScheduleAfter(time - current_time, entry)

\* advance_to does nothing for a time before the current one. It goes in chunks
\* of at most u32::MAX; `due' is what the call is to return, noted at its start.
Chunk(n) == IF n > U32Max THEN U32Max ELSE n
AdvanceTo(ts) ==
    /\ advance = None
    /\ ts >= current_time
    /\ advance' = [time_left |-> Chunk(ts - current_time),
                   ahead |-> (ts - current_time) - Chunk(ts - current_time),
                   res |-> <<>>, ts |-> ts,
                   due |-> {id \in DOMAIN timeouts : Due(timeouts[id]) <= ts}]
    /\ UNCHANGED <<current_time, timeouts, timer, panicked>>
NextChunk ==
    /\ advance # None /\ advance.time_left = 0 /\ advance.ahead > 0
    /\ advance' = [advance EXCEPT !.time_left = Chunk(advance.ahead),
                                  !.ahead = @ - Chunk(@)]
    /\ UNCHANGED <<current_time, timeouts, timer, panicked>>

\* tick_and_collect
Working == advance # None /\ advance.time_left > 0
\* A mutant: the loop goes on without using up the time.
SkipEmptyForever == Working /\ timer = NoTimeouts /\ UNCHANGED timerVars
SkipEmpty ==
    /\ Working
    /\ timer = NoTimeouts
    /\ current_time' = current_time + advance.time_left
    /\ advance' = [advance EXCEPT !.time_left = 0]
    /\ UNCHANGED <<timeouts, timer, panicked>>

\* A mutant: the time that is skipped is not stored.
SkipUnstored(n) ==
    /\ Working
    /\ LET ms == IF n >= advance.time_left THEN advance.time_left ELSE n
       IN  /\ timer' = Passed(ms)
           /\ advance' = [advance EXCEPT !.time_left = @ - ms]
    /\ UNCHANGED <<current_time, timeouts, panicked>>
SkipMillis(n) ==
    /\ Working
    /\ LET ms == IF n >= advance.time_left THEN advance.time_left ELSE n
       IN  /\ timer' = Passed(ms)
           /\ current_time' = current_time + ms
           /\ advance' = [advance EXCEPT !.time_left = @ - ms]
    /\ UNCHANGED <<timeouts, panicked>>

\* A mutant: what is due later goes to the front.
TickNewestFirst(order) ==
    /\ Working
    /\ timer' = [i \in DOMAIN timer \ Ticked |-> timer[i] - 1]
    /\ timeouts' = [i \in DOMAIN timeouts \ Ticked |-> timeouts[i]]
    /\ current_time' = current_time + 1
    /\ advance' = [advance EXCEPT !.time_left = @ - 1,
                      !.res = [i \in DOMAIN order |-> timeouts[order[i]]] \o @]
    /\ UNCHANGED panicked

\* The wheel yields the timeouts of one tick in any order; take_entry removes
\* each from the backend. The model keeps the whole entry of a result.
Tick(order) ==
    /\ Working
    /\ timer' = [i \in DOMAIN timer \ Ticked |-> timer[i] - 1]
    /\ timeouts' = [i \in DOMAIN timeouts \ Ticked |-> timeouts[i]]
    /\ current_time' = current_time + 1
    /\ advance' = [advance EXCEPT !.time_left = @ - 1,
                      !.res = @ \o [i \in DOMAIN order |-> timeouts[order[i]]]]
    /\ UNCHANGED panicked

TickAndCollect ==
    \/ SkipEmpty
    \/ /\ timer # NoTimeouts
       /\ \/ \E n \in Skips : SkipMillis(n)
          \/ \E order \in SetToSeqs(Ticked) : Tick(order)

Returned == advance # None /\ advance.time_left = 0 /\ advance.ahead = 0

-----------------------------------------------------------------------------
\* The wheel and the backend are written separately ("can produce a lot of torn
\* writes"): at every iteration, and after every replay_events, the wheel has
\* exactly the timeouts of the backend, each with the time left until it is due.
WheelAgrees ==
    ~ panicked =>
        /\ DOMAIN timer = DOMAIN timeouts
        /\ \A id \in DOMAIN timer :
             timer[id] > 0 /\ current_time + timer[id] = Due(timeouts[id])

\* "advance_to(timestamp) returns the ordered set of functions that are
\* scheduled between now and timestamp": all of them, each once, by due time,
\* and the timer is left at the timestamp, with later timeouts only, however
\* the wheel skips and however the time is cut into chunks.
AdvanceReturnsDue ==
    Returned =>
        /\ current_time = advance.ts
        /\ \A id \in DOMAIN timeouts : Due(timeouts[id]) > advance.ts
        /\ Len(advance.res) = Cardinality(advance.due)
        /\ \A i, j \in DOMAIN advance.res :
             i < j => Due(advance.res[i]) <= Due(advance.res[j])
=============================================================================
