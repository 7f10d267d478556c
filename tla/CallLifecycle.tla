--------------------------- MODULE CallLifecycle ---------------------------
(***************************************************************************)
(* What a caller and a callee are promised of ONE call: it rings, perhaps  *)
(* is answered, and is over for good; and it does not ring for ever.       *)
(***************************************************************************)
VARIABLE phase

Init == phase = "none"

Ring == phase = "none" /\ phase' = "ringing"
TurnAway == phase = "none" /\ phase' = "over"           \* the callee is busy
Answer == phase = "ringing" /\ phase' = "answered"
HangUp == phase \in {"ringing", "answered"} /\ phase' = "over"

Next == Ring \/ TurnAway \/ Answer \/ HangUp

Spec == Init /\ [][Next]_phase

StopsRinging == phase = "ringing" ~> phase # "ringing"
=============================================================================
