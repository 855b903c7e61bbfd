----------------------------- MODULE EventsStats -----------------------------
(***************************************************************************)
(* The process-wide registry of event queues (src/events/                  *)
(* oio_events_queue.c): oio_events_stats_register, _unregister and        *)
(* _to_prometheus, each a critical section under                          *)
(* _registered_events_queues_lock, so each is one atomic step.            *)
(*                                                                         *)
(* The registry is a pointer to a reference-counted GHashTable: "null"    *)
(* before the first registration, "live" while allocated, "freed" once    *)
(* the last reference was dropped (the pointer is left as it was).  A     *)
(* call that reaches a freed table is a use after free: its outcome is    *)
(* undefined, so the model records it in `fault` and stops there.         *)
(***************************************************************************)
EXTENDS Integers, FiniteSets

CONSTANTS
  Owners,     \* services that register the queue of one event type
  OwnerKey,   \* the event type each owner registers
  Queues,     \* event queues
  NoQueue,    \* no queue registered for an event type
  Scrapers,   \* threads serving the Prometheus statistics
  MaxCycles   \* bound: register/unregister cycles of one owner

ASSUME NoQueue \notin Queues

VARIABLES
  table,    \* _registered_events_queues: "null" | "live" | "freed"
  refs,     \* the GHashTable reference count
  entries,  \* its content: event type -> queue
  life,     \* owner: "idle" | "registered"
  cycles,   \* registrations made by each owner
  scraped,  \* the event types of each scraper's last output
  fault     \* a call used the freed table

vars == <<table, refs, entries, life, cycles, scraped, fault>>

Keys == {OwnerKey[o] : o \in Owners}

Init ==
  /\ table = "null" /\ refs = 0
  /\ entries = [k \in Keys |-> NoQueue]
  /\ life = [o \in Owners |-> "idle"]
  /\ cycles = [o \in Owners |-> 0]
  /\ scraped = [s \in Scrapers |-> {}]
  /\ fault = FALSE

(* The registry's own state is left as it was; the caller's bookkeeping  *)
(* (an owner now registered or not) is the caller's.                      *)
UseAfterFree ==
  /\ fault' = TRUE
  /\ UNCHANGED <<table, refs, entries, scraped>>

(* Mutant: the new table is also given an extra reference.               *)
StatsRegisterRefOnCreate(key, q) ==
  IF table = "freed" THEN UseAfterFree
  ELSE /\ refs' = refs + 1 + (IF table = "null" THEN 1 ELSE 0)
       /\ table' = "live"
       /\ entries' = [IF table = "null" THEN [k \in Keys |-> NoQueue] ELSE entries
                        EXCEPT ![key] = q]
       /\ UNCHANGED fault

(* oio_events_stats_register: lazy creation or g_hash_table_ref, then    *)
(* g_hash_table_replace.                                                  *)
StatsRegister(key, q) ==
  IF table = "freed" THEN UseAfterFree
  ELSE /\ refs' = refs + 1
       /\ table' = "live"
       /\ entries' = [IF table = "null" THEN [k \in Keys |-> NoQueue] ELSE entries
                        EXCEPT ![key] = q]
       /\ UNCHANGED fault

(* oio_events_stats_unregister: g_hash_table_remove then                  *)
(* g_hash_table_unref, which frees the table with the last reference.     *)
(* On a NULL table both calls fail their g_return_if_fail and return.     *)
StatsUnregister(key) ==
  CASE table = "freed" -> UseAfterFree
    [] table = "null"  -> UNCHANGED vars
    [] OTHER ->
         /\ refs' = refs - 1
         /\ table' = IF refs = 1 THEN "freed" ELSE "live"
         /\ entries' = [entries EXCEPT ![key] = NoQueue]
         /\ UNCHANGED fault

(* oio_events_stats_to_prometheus: two lines per entry of a non-NULL      *)
(* table; only the event types listed are kept.                           *)
StatsToPrometheus(s) ==
  CASE table = "freed" -> UseAfterFree
    [] table = "null"  -> /\ scraped' = [scraped EXCEPT ![s] = {}]
                          /\ UNCHANGED <<table, refs, entries, life, cycles, fault>>
    [] OTHER ->
         /\ scraped' = [scraped EXCEPT ![s] = {k \in Keys : entries[k] # NoQueue}]
         /\ UNCHANGED <<table, refs, entries, life, cycles, fault>>

-----------------------------------------------------------------------------
Register(o) ==
  /\ ~fault /\ life[o] = "idle" /\ cycles[o] < MaxCycles
  /\ \E q \in Queues : StatsRegister(OwnerKey[o], q)
  /\ life' = [life EXCEPT ![o] = "registered"]
  /\ cycles' = [cycles EXCEPT ![o] = @ + 1]
  /\ UNCHANGED scraped

Unregister(o) ==
  /\ ~fault /\ life[o] = "registered"
  /\ StatsUnregister(OwnerKey[o])
  /\ life' = [life EXCEPT ![o] = "idle"]
  /\ UNCHANGED <<cycles, scraped>>

Scrape(s) == ~fault /\ StatsToPrometheus(s) /\ UNCHANGED <<life, cycles>>

Next ==
  \/ \E o \in Owners : Register(o) \/ Unregister(o)
  \/ \E s \in Scrapers : Scrape(s)

Spec == Init /\ [][Next]_vars

-----------------------------------------------------------------------------
Active == {o \in Owners : life[o] = "registered"}

(* The reference count of the table is the number of active               *)
(* registrations, its entries are exactly their event types, and once the *)
(* last of them is released the table is gone.                            *)
RefcountMatchesRegistrations ==
  /\ table = "live" => /\ refs = Cardinality(Active)
                       /\ {k \in Keys : entries[k] # NoQueue} = {OwnerKey[o] : o \in Active}
  /\ Active = {} => table # "live"

(* No registration, unregistration or scrape ever runs on a table that    *)
(* the last unregistration freed.                                         *)
NoUseAfterFree == ~fault

=============================================================================
