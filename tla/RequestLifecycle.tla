-------------------------- MODULE RequestLifecycle --------------------------
(***************************************************************************)
(* What the gridd transport promises a client about one request, without  *)
(* frames, gates or handlers (spec.md 3, 4.4 and 6).                       *)
(*                                                                         *)
(* A frame is received and queued.  It is then either dropped without any *)
(* reply (the decoder rejected it), refused at once with one final reply, *)
(* or started.  A started request may send interim replies; it ends with  *)
(* exactly one final reply, after which nothing more is sent for it.      *)
(***************************************************************************)
EXTENDS Naturals, Sequences

CONSTANT Ids            \* the requests, numbered in the order they arrive

VARIABLES
  st,                   \* Ids -> "none" | "queued" | "running" | "answered" | "dropped"
  replies               \* the replies sent, in order: [id, final]

vars == <<st, replies>>

States == {"none", "queued", "running", "answered", "dropped"}

TypeOK ==
  /\ st \in [Ids -> States]
  /\ replies \in Seq([id : Ids, final : BOOLEAN])

Init ==
  /\ st = [i \in Ids |-> "none"]
  /\ replies = << >>

Move(i, from, to) == st[i] = from /\ st' = [st EXCEPT ![i] = to]

Send(i, final) == replies' = Append(replies, [id |-> i, final |-> final])

Receive(i) == Move(i, "none", "queued") /\ UNCHANGED replies

Drop(i) == Move(i, "queued", "dropped") /\ UNCHANGED replies

Refuse(i) == Move(i, "queued", "answered") /\ Send(i, TRUE)

Start(i) == Move(i, "queued", "running") /\ UNCHANGED replies

Interim(i) == st[i] = "running" /\ Send(i, FALSE) /\ UNCHANGED st

Answer(i) == Move(i, "running", "answered") /\ Send(i, TRUE)

Next ==
  \E i \in Ids :
    Receive(i) \/ Drop(i) \/ Refuse(i) \/ Start(i) \/ Interim(i) \/ Answer(i)

Spec == Init /\ [][Next]_vars

=============================================================================
