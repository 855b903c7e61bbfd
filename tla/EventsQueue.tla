----------------------------- MODULE EventsQueue -----------------------------
(***************************************************************************)
(* The event queue interface (src/events/oio_events_queue.c): the factory *)
(* oio_events_queue_factory__create and _parse_and_create_multi building  *)
(* one queue, or a fanout over one sub-queue per token of the connection  *)
(* string; then producer threads calling oio_events_queue__send,          *)
(* __send_overwritable and __flush_overwritable while the brokers stall   *)
(* and recover.                                                           *)
(*                                                                         *)
(* The connectors (beanstalkd, kafka, kafka-sync), the fanout and the     *)
(* fallback sink are not under src/: they are modelled from spec.md 4.8 - *)
(* a connector is a FIFO towards its broker with a stall flag, a fanout   *)
(* routes each event to one of its children, an overwritable backend     *)
(* keeps the last event of each tag until it is flushed.                  *)
(***************************************************************************)
EXTENDS Integers, Sequences, FiniteSets

CONSTANTS
  Configs,            \* connection strings, as their sequence of tokens
  Sync,               \* the sync flag given to the factory
  FallbackInstalled,  \* event_fallback_installed()
  OverwritableKinds,  \* connectors whose vtable has send/flush_overwritable
  StallPolicy,        \* the fanout's is_stalled: "any" or "all" children
  Producers,          \* threads sending events
  Script,             \* producer -> the calls it makes, in order
  NoTag, NoEvent,
  MaxStalls           \* bound: broker stalls over a behaviour

Range(s) == {s[i] : i \in DOMAIN s}
Calls == UNION {Range(Script[p]) : p \in Producers}
Events == {c.ev : c \in Calls} \ {NoEvent}
Tags == {c.tag : c \in Calls} \ {NoTag}
Ids == UNION {DOMAIN c : c \in Configs}  \* a sub-queue is named by its token

(* The connector chosen for a token without separator (204-215).          *)
ConnectorKind(tok) ==
  CASE tok = "beanstalkd" -> "beanstalkd"
    [] tok = "kafka"      -> IF Sync THEN "kafka_sync" ELSE "kafka"
    [] OTHER              -> "none"

VARIABLES
  cfg, fpc, ftok,  \* the factory: its input, "start" | "multi" | "cleanup" | "running" | "failed", next token
  subs,            \* sub-queues created, in token order (the queue itself when single)
  kind,            \* the connector kind of the queue, or "fanout"
  live,            \* queues allocated and not destroyed
  destroyed,       \* queue -> times oio_events_queue__destroy ran on it
  ppc, ip,         \* producer: "idle" | "calling", index of its next call
  q,               \* queue -> events accepted, towards the broker
  pending,         \* tag -> the event an overwritable backend holds back
  stalled, stalls, \* broker stall flags, stalls so far
  dropped,         \* events handed to the fallback sink
  superseded,      \* overwritable events replaced by a newer one
  log              \* what the brokers received, in order

vars == <<cfg, fpc, ftok, subs, kind, live, destroyed, ppc, ip, q, pending,
          stalled, stalls, dropped, superseded, log>>
factoryVars == <<cfg, fpc, ftok, subs, kind, live, destroyed>>
sendVars == <<ppc, ip, q, pending, stalled, stalls, dropped, superseded, log>>

Init ==
  /\ cfg \in Configs /\ fpc = "start" /\ ftok = 1
  /\ subs = << >> /\ kind = "none" /\ live = {} /\ destroyed = [i \in Ids |-> 0]
  /\ ppc = [p \in Producers |-> "idle"] /\ ip = [p \in Producers |-> 1]
  /\ q = [i \in Ids |-> << >>] /\ pending = [t \in Tags |-> NoEvent]
  /\ stalled = [i \in Ids |-> FALSE] /\ stalls = 0
  /\ dropped = {} /\ superseded = {} /\ log = << >>

-----------------------------------------------------------------------------
(* oio_events_queue_factory__create on a string without separator: the   *)
(* connector of its prefix, whose creation may fail.                      *)
FactoryCreate ==
  /\ fpc = "start" /\ Len(cfg) = 1
  /\ \E ok \in BOOLEAN :
       IF ok /\ ConnectorKind(cfg[1]) # "none"
       THEN /\ fpc' = "running" /\ subs' = <<1>> /\ live' = {1}
            /\ kind' = ConnectorKind(cfg[1])
       ELSE /\ fpc' = "failed" /\ UNCHANGED <<subs, live, kind>>
  /\ UNCHANGED <<cfg, ftok, destroyed>> /\ UNCHANGED sendVars

(* A separator: _parse_and_create_multi over the tokens.                  *)
FactoryMulti ==
  /\ fpc = "start" /\ Len(cfg) > 1
  /\ fpc' = "multi"
  /\ UNCHANGED <<cfg, ftok, subs, kind, live, destroyed>> /\ UNCHANGED sendVars

(* 156-160: the recursive creation of the sub-queue of one token; the    *)
(* loop stops at the first error.                                         *)
CreateSub ==
  /\ fpc = "multi" /\ ftok <= Len(cfg)
  /\ \E ok \in BOOLEAN :
       IF ok /\ ConnectorKind(cfg[ftok]) # "none"
       THEN /\ subs' = Append(subs, ftok) /\ live' = live \cup {ftok}
            /\ ftok' = ftok + 1 /\ UNCHANGED fpc
       ELSE /\ fpc' = "cleanup" /\ UNCHANGED <<subs, live, ftok>>
  /\ UNCHANGED <<cfg, kind, destroyed>> /\ UNCHANGED sendVars

(* 162-170: all tokens done; the fanout over the sub-queues.              *)
CreateFanout ==
  /\ fpc = "multi" /\ ftok > Len(cfg)
  /\ \E ok \in BOOLEAN :
       IF ok THEN fpc' = "running" /\ kind' = "fanout"
             ELSE fpc' = "cleanup" /\ UNCHANGED kind
  /\ UNCHANGED <<cfg, ftok, subs, live, destroyed>> /\ UNCHANGED sendVars

(* Mutant: the array freed without its free function.                     *)
CleanupWithoutFreeFunc ==
  /\ fpc = "cleanup" /\ fpc' = "failed"
  /\ UNCHANGED <<cfg, ftok, subs, kind, live, destroyed>> /\ UNCHANGED sendVars

(* 172-175: on error every sub-queue created is destroyed with the array. *)
Cleanup ==
  /\ fpc = "cleanup" /\ fpc' = "failed"
  /\ live' = live \ Range(subs)
  /\ destroyed' = [i \in Ids |-> IF i \in Range(subs) THEN destroyed[i] + 1 ELSE destroyed[i]]
  /\ UNCHANGED <<cfg, ftok, subs, kind>> /\ UNCHANGED sendVars

-----------------------------------------------------------------------------
Call(p) == Script[p][ip[p]]

(* is_stalled of the queue: its connector's, or the fanout's policy.       *)
IsStalled ==
  IF kind = "fanout"
  THEN IF StallPolicy = "any" THEN \E i \in Range(subs) : stalled[i]
                              ELSE \A i \in Range(subs) : stalled[i]
  ELSE stalled[subs[1]]

(* VTABLE_HAS(send_overwritable) && tag && *tag                           *)
Overwrites(c) == kind \in OverwritableKinds /\ c.tag # NoTag

Ready(p) == fpc = "running" /\ ppc[p] = "idle" /\ ip[p] <= Len(Script[p])
Next(p) == ip' = [ip EXCEPT ![p] = @ + 1]

(* 51-55 (and 82-86 for an overwritable send that cannot overwrite): with *)
(* a fallback and a stalled queue the event is dropped, FALSE returned.   *)
CheckStalled(p) ==
  /\ Ready(p)
  /\ Call(p).op = "send" \/ (Call(p).op = "overwritable" /\ ~Overwrites(Call(p)))
  /\ IF FallbackInstalled /\ IsStalled
     THEN /\ dropped' = dropped \cup {Call(p).ev} /\ Next(p)
          /\ UNCHANGED ppc
     ELSE /\ ppc' = [ppc EXCEPT ![p] = "calling"]
          /\ UNCHANGED <<dropped, ip>>
  /\ UNCHANGED factoryVars /\ UNCHANGED <<q, pending, stalled, stalls, superseded, log>>

(* Mutant: the fanout hands the event to every child.                     *)
BackendSendEveryChild(p) ==
  /\ ppc[p] = "calling"
  /\ q' = [i \in Ids |-> IF i \in Range(subs) THEN Append(q[i], Call(p).ev) ELSE q[i]]
  /\ ppc' = [ppc EXCEPT ![p] = "idle"] /\ Next(p)
  /\ UNCHANGED factoryVars /\ UNCHANGED <<pending, stalled, stalls, dropped, superseded, log>>

(* 56 (and 87): EVTQ_CALL(send), whatever the queue's state is by now; a  *)
(* fanout routes the event to one child.                                  *)
BackendSend(p) ==
  /\ ppc[p] = "calling"
  /\ \E i \in Range(subs) : q' = [q EXCEPT ![i] = Append(@, Call(p).ev)]
  /\ ppc' = [ppc EXCEPT ![p] = "idle"] /\ Next(p)
  /\ UNCHANGED factoryVars /\ UNCHANGED <<pending, stalled, stalls, dropped, superseded, log>>

(* 77-79: the backend keeps the newest event of the tag, with no stall    *)
(* check.                                                                 *)
SendOverwritable(p) ==
  /\ Ready(p) /\ Call(p).op = "overwritable" /\ Overwrites(Call(p))
  /\ LET t == Call(p).tag IN
       /\ pending' = [pending EXCEPT ![t] = Call(p).ev]
       /\ superseded' = IF pending[t] = NoEvent THEN superseded ELSE superseded \cup {pending[t]}
  /\ Next(p)
  /\ UNCHANGED factoryVars /\ UNCHANGED <<ppc, q, stalled, stalls, dropped, log>>

(* 60-70: a flush with capability and tag releases the held event to the  *)
(* broker queue; otherwise only the tag is freed.                          *)
FlushOverwritable(p) ==
  /\ Ready(p) /\ Call(p).op = "flush"
  /\ LET t == Call(p).tag IN
       IF Overwrites(Call(p)) /\ pending[t] # NoEvent
       THEN /\ q' = [q EXCEPT ![subs[1]] = Append(@, pending[t])]
            /\ pending' = [pending EXCEPT ![t] = NoEvent]
       ELSE UNCHANGED <<q, pending>>
  /\ Next(p)
  /\ UNCHANGED factoryVars /\ UNCHANGED <<ppc, stalled, stalls, dropped, superseded, log>>

(* The broker of a queue stalls or recovers; an unstalled one takes the  *)
(* head of its queue.                                                     *)
Stall(i) ==
  /\ fpc = "running" /\ i \in Range(subs) /\ ~stalled[i] /\ stalls < MaxStalls
  /\ stalled' = [stalled EXCEPT ![i] = TRUE] /\ stalls' = stalls + 1
  /\ UNCHANGED factoryVars /\ UNCHANGED <<ppc, ip, q, pending, dropped, superseded, log>>

Recover(i) ==
  /\ stalled[i]
  /\ stalled' = [stalled EXCEPT ![i] = FALSE]
  /\ UNCHANGED factoryVars /\ UNCHANGED <<ppc, ip, q, pending, stalls, dropped, superseded, log>>

Deliver(i) ==
  /\ i \in live /\ ~stalled[i] /\ q[i] # << >>
  /\ log' = Append(log, Head(q[i])) /\ q' = [q EXCEPT ![i] = Tail(@)]
  /\ UNCHANGED factoryVars /\ UNCHANGED <<ppc, ip, pending, stalled, stalls, dropped, superseded>>

Step ==
  \/ FactoryCreate \/ FactoryMulti \/ CreateSub \/ CreateFanout \/ Cleanup
  \/ \E p \in Producers :
       CheckStalled(p) \/ BackendSend(p) \/ SendOverwritable(p) \/ FlushOverwritable(p)
  \/ \E i \in Ids : Stall(i) \/ Recover(i) \/ Deliver(i)

Spec == Init /\ [][Step]_vars

-----------------------------------------------------------------------------
(* The factory either fails with nothing of its own left allocated, or    *)
(* runs with every sub-queue it created alive; no queue is destroyed      *)
(* twice.  _parse_and_create_multi frees the array of sub-queues with     *)
(* oio_events_queue__destroy as free function only on error.              *)
FactoryCleansUp ==
  /\ fpc = "failed" => live = {}
  /\ fpc = "running" => live = Range(subs)
  /\ \A i \in Ids : destroyed[i] <= 1

(* The fate of each event as the sink of spec.md 4.8 sees it.             *)
Fate(e) ==
  CASE e \in Range(log)   -> "delivered"
    [] e \in dropped      -> "dropped"
    [] e \in superseded   -> "superseded"
    [] \/ \E i \in Ids : e \in Range(q[i])
       \/ \E t \in Tags : pending[t] = e -> "accepted"
    [] OTHER              -> "new"

SINK == INSTANCE EventSink WITH fate <- [e \in Events |-> Fate(e)], log <- log

(* The queue, its fanout and the overwritable path implement the best-    *)
(* effort sink: each event sent is dropped to the fallback or accepted,   *)
(* an accepted one is delivered at most once or superseded by a newer     *)
(* event of its tag, and a dropped one is never delivered.                *)
SinkRefined == SINK!Spec

=============================================================================
