---------------------------- MODULE MarkedStream ----------------------------
(****************************************************************************)
(* What a Node promises the node downstream about the stream on their       *)
(* channel: watermarks and epochs go up, and an element that follows a      *)
(* watermark is later than it, so that the receiver never has to drop it.   *)
(****************************************************************************)
EXTENDS Integers, Sequences

CONSTANTS Event, EffectiveTs(_)

VARIABLE out

Follows(event) ==
    \A i \in 1..Len(out) :
        CASE event.kind = "Element" ->
               out[i].kind = "Watermark" => EffectiveTs(event) > out[i].val
          [] event.kind \in {"Watermark", "Epoch"} ->
               out[i].kind = event.kind => event.val > out[i].val
          [] OTHER -> TRUE

Init == out = <<>>

Emit(event) == Follows(event) /\ out' = Append(out, event)

Next == \E event \in Event : Emit(event)

Spec == Init /\ [][Next]_out
=============================================================================
