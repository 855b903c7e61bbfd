------------------------------ MODULE EventSink ------------------------------
(***************************************************************************)
(* What an event queue promises its callers (spec.md 4.8): a best-effort  *)
(* sink.  An event handed to it is either dropped to the fallback at once *)
(* or accepted; an accepted event is delivered to the broker once, or     *)
(* superseded by a newer event of the same overwritable tag.  Nothing is  *)
(* delivered twice, and a dropped event is never delivered.              *)
(***************************************************************************)
EXTENDS Sequences

CONSTANTS Events

VARIABLES
  fate,   \* event -> "new" | "accepted" | "dropped" | "superseded" | "delivered"
  log     \* what the broker received, in order

Init == fate = [e \in Events |-> "new"] /\ log = << >>

Submit(e) ==
  /\ fate[e] = "new"
  /\ \E f \in {"accepted", "dropped"} : fate' = [fate EXCEPT ![e] = f]
  /\ UNCHANGED log

(* A newer event takes the place of an accepted one.                      *)
Replace(e, old) ==
  /\ fate[e] = "new" /\ fate[old] = "accepted"
  /\ fate' = [fate EXCEPT ![e] = "accepted", ![old] = "superseded"]
  /\ UNCHANGED log

Deliver(e) ==
  /\ fate[e] = "accepted"
  /\ fate' = [fate EXCEPT ![e] = "delivered"]
  /\ log' = Append(log, e)

Next == \E e \in Events : Submit(e) \/ Deliver(e) \/ \E old \in Events : Replace(e, old)

Spec == Init /\ [][Next]_<<fate, log>>

=============================================================================
