------------------------- MODULE MCEventTimeWindow -------------------------
(* A TLC instance of EventTimeWindow.                                        *)
EXTENDS EventTimeWindow

\* Sliding windows of all elements, and tumbling windows per key that wait for
\* late elements.
MCAssigners ==
    {[kind |-> "appender", keyed |-> FALSE, window_length |-> 2,
      window_slide |-> 1, late_arrival_time |-> 0],
     [kind |-> "incremental", keyed |-> TRUE, window_length |-> 2,
      window_slide |-> 2, late_arrival_time |-> 1]}
============================================================================
