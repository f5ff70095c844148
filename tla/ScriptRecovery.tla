--------------------------- MODULE ScriptRecovery ---------------------------
(* The pipeline of Recovery behind a sender that starts again from the first   *)
(* event after every restart, as src/test/recovery_tests.rs does: the nodes    *)
(* have to recognise what their checkpoint already has.                        *)
EXTENDS Recovery

CONSTANTS
    MaxTs,        \* bound: timestamps are 1 .. MaxTs
    MaxLog        \* bound: events sent

VARIABLES log,    \* the events, in the order in which they are always sent
          sent    \* how many of them have been sent since the last restart

vars == <<nodeVars, log, sent>>

ASSUME ScriptAssumption ==
    MaxTs \in Nat \ {0} /\ MaxLog \in Nat

Init == NodesInit /\ log = <<>> /\ sent = 0

Highest(kind, events) ==
    Max({0} \cup {events[k].ts : k \in {n \in DOMAIN events : events[n].kind = kind}})
LastEpoch == Cardinality({k \in DOMAIN log : log[k].kind = "epoch"})

\* As in the tests, an epoch comes only when a watermark covers all elements.
NewEvents ==
    {Element(Len(log) + 1, ts) : ts \in 1 .. MaxTs}
    \cup {Watermark(ts) : ts \in (Highest("watermark", log) + 1) .. MaxTs}
    \cup {Epoch(e) : e \in
            IF Highest("element", log) > Highest("watermark", log)
            THEN {} ELSE {LastEpoch + 1}}

SendNew ==
    /\ ~ failed
    /\ sent = Len(log) /\ Len(log) < MaxLog
    /\ \E event \in NewEvents :
         /\ log' = Append(log, event)
         /\ queue' = [queue EXCEPT ![1] = Append(@, event)]
    /\ sent' = sent + 1
    /\ UNCHANGED <<node, saving, dirs, file, sink_buffer, crashes, failed>>

SendAgain ==
    /\ ~ failed
    /\ sent < Len(log)
    /\ queue' = [queue EXCEPT ![1] = Append(@, log[sent + 1])]
    /\ sent' = sent + 1
    /\ UNCHANGED <<log, node, saving, dirs, file, sink_buffer, crashes, failed>>

Restart == RestartNodes /\ sent' = 0 /\ UNCHANGED log

Next ==
    \/ SendNew \/ SendAgain
    \/ \E i \in Nodes : NodeStep(i) /\ UNCHANGED <<log, sent>>
    \/ Restart

Spec == Init /\ [][Next]_vars

\* The sender goes on sending, and kompact runs every node that has messages.
FairSpec ==
    /\ Spec
    /\ WF_vars(SendAgain)
    /\ \A i \in Nodes : WF_vars(NodeStep(i) /\ UNCHANGED <<log, sent>>)

-----------------------------------------------------------------------------
IsOnTime(k) ==
    log[k].kind = "element" /\ log[k].ts > Highest("watermark", SubSeq(log, 1, k - 1))

\* Each node has processed every element that was on time once and in order,
\* however often the pipeline was restarted: what the checkpoint has, the
\* restored watermark drops; what it has not, comes again (handle_events,
\* restore_or_create).
StateIsExactlyOnce ==
    \A i \in Nodes : \E n \in 0 .. Len(log) :
        node[i].seen \in InOrderOf({k \in 1 .. n : IsOnTime(k)})

\* Every element that was on time reaches the sink in the end.
EverythingArrives ==
    []<>(\A k \in DOMAIN log : IsOnTime(k) => Contains(node[Sink].seen, k))
=============================================================================
