# TLA+ models of the oio-sds request transport and event plane

This directory holds TLA+ models of the code under `src/`, with the TLC
configurations that check them:

- `src/server/transport_gridd.c`: the gridd binary RPC transport;
- `src/events/oio_events_queue.c`: the event-queue front end and the stats
  registry;
- `src/proxy/meta2v2_remote.c`: the meta2 request packers.

`PROJECT.json` lists the following, and this file explains them:

- the components;
- the runs;
- the mutants that show each property can fail;
- the map from every modelled definition to the source lines it translates;
- the findings;
- the hazards.

## 1. The system

### Parts and how they interact

**Frame reader.** This is `transport_gridd_notify_input` with `gba_read`, `_l4v_size` and `detect_http`.

- Each connection's worker turns the slabs received from the socket into frames. A frame is a 4-byte big-endian size followed by that many bytes.
- It drops empty frames.
- It closes the connection on a frame over `server_request_max_size`.
- It bounces HTTP requests with `418`.
- It prechecks the server-wide memory budget. Once a frame is complete it reserves the frame's size, hands the frame to the dispatcher, and releases the reservation.
- Workers run in parallel, one per connection at a time. They share only the memory budget.

**Dispatcher and reply context.** This covers `transport_gridd_dispatcher_add_requests`, `_client_manage_l4v`, `_client_call_handler`, `_client_reply_fixed` and `metaXServer_reply_simple`.

- `_client_manage_l4v` decodes the frame. If decoding fails, it logs a 400 and closes the connection.
- `_client_call_handler` then applies three gates in order:
  1. the queue delay (`GATEWAY_TIMEOUT`, bucket "overloaded");
  2. the handler lookup (`NOT_FOUND`, bucket "unexpected");
  3. the I/O-health gate for handlers not marked local (`UNAVAILABLE`, bucket "ioerror").
- If all three pass, it calls the handler with a reply context: `send_reply` and `send_error`.
- `final_sent` tracks whether a final reply went out. If the handler did not send one, the transport sends "BUG: no reply sent" (500) and closes the connection.
- The request counters are bumped once per request.

**I/O health.** `grid_daemon_notify_io_status` is called by a probe thread. `grid_daemon_is_io_ok` is read by the gate.

**Built-in handlers.** These are PING, STATS, VERSION, HANDLERS, GETCFG, SETCFG, REDIRECT and LEAN (`gridd_get_common_requests`).

**Event queue interface.** `oio_events_queue__send` and related functions delegate to a backend through a vtable. A stalled backend drops to the fallback sink when one is installed. The factory parses the connection string, which may be sharded over several endpoints, into a backend or a fanout.

**Stats registry.** This is `oio_events_stats_register`, `oio_events_stats_unregister` and `oio_events_stats_to_prometheus`: a mutex-guarded, reference-counted hash table mapping an event type to its queue.

**Prometheus conversion and STATS.** `dispatch_STATS` reads the server statistics and converts them with `network_server_stats_to_prometheus` (FORMAT=prometheus) or `_convert_stats_to_text`. Any worker thread may run it; the reply body is kept in a function-level `static`.

**Proxy packers.** Each `m2v2_remote_pack_*` encodes one meta2 request: a message name, fields and an optional body. `m2v2_remote_execute_DESTROY_many` sends a DESTROY to every service of a target array at once, then aggregates the answers, ignoring NOT_FOUND and stopping at the first other error. A listing request may be answered by several replies (pages, and REDIRECT_SHARD replies); `m2v2_list_result_extract` is the gridd client's callback that folds each reply into one `list_result_s`.

### Hard behaviours
- **Frame reassembly.** A frame may be split at any slab boundary. Each branch of the reader reads from the head slab and pushes the rest back.
- **The memory budget.**
  - The precheck and the reservation are separated by the body read.
  - Other workers reserve memory in between.
  - Every path after the handler must release the reservation.
- **One final reply per request.** The flag is computed from the code before mapping. TEMP replies may precede the final one. Handlers may also return without replying.
- **The I/O gate.** It is read concurrently with the probe's writes.
- **A stall between check and send.** `send` reads `is_stalled` and then calls the backend; `send_overwritable` with a tag skips the check.
- **Partial failure of the factory.** The token loop stops at the first failing sub-queue, and only then must those already created be destroyed.
- **Shared static in STATS.** Two workers write the same `body` before attaching it.
- **Late answers in DESTROY_many.** A timed-out request may still destroy its base.
- **A result reused across replies.** The list result is updated reply by reply: beans accumulate, the markers are replaced (a missing one clears it), and a redirect leaves everything alone.
- **Partial registration.** `add_requests` stops at the first duplicate NAME, with the earlier entries inserted.
- **The registry's lifetime.** The table is created lazily and freed with the last reference, but the pointer is never cleared.

### Correctness properties, by component
| component | property | module |
|---|---|---|
| frame reader | the dispatcher receives, in order, the non-empty frames of the byte stream, for any slab partition | FrameReader `FramesIntact` |
| frame reader | the memory reserved equals the sum of the frames being handled; the budget is never exceeded | FrameReader `MemoryAccounted`, `TypeOK` |
| frame reader | a fully received stream is processed to the end or the connection is closed | FrameReader `AllFramesDelivered` |
| frame reader | 418 only for a client whose bytes contain " HTTP/1." | FrameReader `TeapotOnlyForHttp` (violated) |
| dispatcher | exactly one final reply per decoded request; nothing after it | GriddRequest `ExactlyOneFinalReply` |
| reply context | `send_error` replies are final errors | GriddRequest `ErrorRepliesAreFinalErrors` |
| counters | the `all` counter equals the final replies of finished requests | GriddRequest `CountersMatchFinalReplies` |
| spec | every frame gets a final reply; PING passes the I/O gate; deadline from arrival | GriddRequest (violated) |
| stats registry | refcount equals active registrations; table gone with the last one | EventsStats `RefcountMatchesRegistrations` |
| stats registry | no call ever touches a freed table | EventsStats `NoUseAfterFree` (violated) |
| Prometheus conversion | every statistic name gives exactly the line spec.md 4.7 maps it to | PromStats `PrometheusMatchesSpec` |
| STATS | each reply carries the body its own worker built | PromStats `ReplyCarriesOwnBody` (violated) |
| proxy packers | no two operations pack to the same message | M2Remote `PackedOperationsDistinct` |
| DESTROY_many | success only when every target base is gone | M2Remote `DestroySucceedsOnlyIfGone` |
| list result | after the last reply: beans of every page, flags and markers of the last non-redirect page, properties of the first reply carrying any | M2Remote `ListResultOfLastPage` |
| dispatcher | registration matches spec.md 4.2, duplicates within a list included | GriddRequest `RegistrationMatchesSpec` |
| transport | every request follows the abstract life cycle: received, then dropped, refused with one final reply, or started; interim replies only while running; one final reply | GriddRequest `LifecycleRefined` (refinement of RequestLifecycle) |
| event factory | on failure nothing is left allocated; nothing is destroyed twice | EventsQueue `FactoryCleansUp` |
| event queue | the queue implements the best-effort sink of spec.md 4.8 | EventsQueue `SinkRefined` (refinement of EventSink) |

## 2. Modules

### GriddRequest and RequestLifecycle (`GriddRequest.tla`, `RequestLifecycle.tla`, `MC_GriddRequest.tla`)

**State.**

| variable | models |
|---|---|
| `now` | the monotonic clock |
| `lastIoError`, `lastIoSuccess` | the dispatcher fields |
| `inbox` | frames received per connection, abstracted to their decoded NAME, TIMEOUT, arrival time and whether the decoder accepts them |
| `phase` | per connection: idle, in a handler, or closed |
| `cur` | the `req_ctx_s`: arrival and parse times, deadline, `final_sent` |
| `wire` | every reply sent: id, status, and the path that produced it |
| `stats` | the counters |
| `sent`, `done`, `decoded` | bookkeeping for the properties |

**Actions.**

| action | source |
|---|---|
| `DecodeError` | the decode-failure branch of `_client_manage_l4v` |
| `RefuseQueued`, `RefuseUnknown`, `RefuseIo` | the three gates |
| `InvokeHandler` | the handler call |
| `RunOkHandler`, `RunSetCfg`, `RunRedirect` | the built-in handlers |
| `AppSendTemp`, `AppSendReply`, `AppSendError`, `AppReturn` | an application handler making a bounded series of reply-context calls, then returning any rc |
| `Finish` | the tail of `_client_manage_l4v`: the synthetic reply, the counter, the connection closed when rc is FALSE |
| `NotifyIoStatus` | the probe |
| `Tick` | the clock |
| `Arrive` | a client sending a frame |

**Helper operators.**

- **Handler contract.** An application handler makes its reply-context calls only while no final reply was sent (`AppCall`). The `EXTRA_ASSERT`s of the reply context state this contract, but they are compiled out of release builds. So `ExactlyOneFinalReply` and `LifecycleRefined` hold for handlers that keep the contract, which covers handlers that return after TEMP replies only or after none.
- **No request name.** The branch at 799-802 (a 400 reply with no counter update) cannot be reached. `_request_get_name` returns `hashstr_create("")` for a missing or empty NAME, never NULL. Such a request goes through the lookup and gets NOT_FOUND, which is what `RefuseUnknown` models for an unregistered name.
- `AddRequests` is recursive. It builds the dispatcher the way `add_requests` does, stopping at the first duplicate.
- `RegisterSpec` is the reference for it, written from spec.md 4.2 without recursion: the first entry whose NAME is already registered or repeats an earlier entry is the error, and the entries before it are registered. `RegistrationMatchesSpec` compares the two on every list of up to three descriptors over the request names, starting from the dispatcher of the common requests.
- `ErrorCode` is the override and canonicalisation of `_send_error`.
- `Reply` is the network-code mapping of `metaXServer_reply_simple`.
- `Deadline` is computed from the parse time.
- `IsIoOk` is `grid_daemon_is_io_ok`.

**Refinement.** `RequestLifecycle.tla` is the abstract specification of one request, written from spec.md 3 and 4.4. Each request is in one of five states: none, queued, running, answered or dropped. There is also the sequence of replies, each final or interim. Its actions are:

- `Receive`;
- `Drop`, which sends no reply;
- `Refuse`, which sends one final reply without running the handler;
- `Start`;
- `Interim`, allowed only while the request is running;
- `Answer`, which sends the one final reply.

GriddRequest maps its state onto it with `Lifecycle(id)`:

| abstract state | GriddRequest condition |
|---|---|
| none | beyond `sent` |
| answered | a final reply is on the wire |
| dropped | done without a final reply |
| running | decoded |
| queued | otherwise |

The replies are the wire, each reply marked final or interim. `LifecycleRefined` checks `LIFE!Spec` as a property. Every step of the transport is therefore one of the abstract steps, or a stutter:

- a gate refusal;
- a built-in handler's reply;
- a TEMP reply;
- a handler's final reply, or the synthetic one when it returned without replying;
- `Finish` after a final reply, which is a stutter.

### FrameReader (`FrameReader.tla`, `MC_FrameReader.tla`)

**State.**

| variable | models |
|---|---|
| `stream` | the bytes a client sends |
| `pending` | the bytes not yet received |
| `input` | the slab sequence |
| `buf` | `gba_l4v` |
| `pc` | per connection: read, reserve, handle, or closed |
| `reserved`, `memUsed` | the memory budget |
| `delivered` | the payloads handed to `_client_manage_l4v` |
| `emitted` | the reader's own replies: 418 and "Memory exhausted" |

**Actions.**

- `Receive` adds a slab of any length, up to `MaxSlabs` queued.
- One action per branch of the loop body:
  - `DropEmptySlab`
  - `ReadHeader`
  - `SkipEmptyFrame`
  - `RejectTooBig`
  - `ProbeHttp`
  - `RejectNoMemory`
  - `ReadBody`
- `Reserve` is the reservation, which is a separate step because other workers interleave with it.
- `FinishFrame` releases the reservation. It then resets the buffer, or closes the connection when no reply was sent.

**Bytes and sizes.** Bytes range over `0..ByteMax`, with 0 standing for NUL. The 4-byte header is decoded in base `ByteMax+1`. The algorithm is byte-exact while the sizes are scaled down: the 1 GiB HTTP threshold, the size cap and the readahead keep their order. The bytes `detect_http` reads beyond the buffer are a nondeterministic `junk` choice, because they are undefined.

**Reference.** `FramesOf` is a recursive reference definition of the frames of a byte stream.

### EventsStats (`EventsStats.tla`, `MC_EventsStats.tla`)

**State.**

| variable | models |
|---|---|
| `table` | the registry pointer: null, live or freed |
| `refs` | the table's reference count |
| `entries` | the table's content |
| `life`, `cycles` | the owners' lifecycle |
| `scraped` | the last scrape output |
| `fault` | set when a call used the freed table; the model stops there, because the outcome is undefined |

**Actions.**

- `StatsRegister`, `StatsUnregister` and `StatsToPrometheus` are the three functions. Each is atomic because it runs under the mutex.
- `Register`, `Unregister` and `Scrape` are their callers: services registering the queue of their event type, and the metrics handler.
- A call that reaches the freed table sets `fault`. The caller's own bookkeeping still moves on. So both uses after free are reachable: a registration (`g_hash_table_ref` at 274) and a scrape (the walk at 335).

### PromStats (`PromStats.tla`, `MC_PromStats.tla`)

A statistic's name is a sequence of atoms (words and the separators " " and "."). `GStrSplit` is `g_strsplit` over it, with its `max` argument, so the parsing of the code is kept while names stay small.

- `StatLines(st)` is one turn of the loop at `transport_gridd.c:951-1051`: the CASE follows the `goto error` / `goto next` branches in order. `NeedsSeconds`, `ReqSuffix`, `CommonLabels` and `PromLine` are the pieces that build the line. Number formatting is abstracted: a line records whether its value is divided into seconds.
- `StatWarned` keeps the test at 970-972 as written. No run checks it, because the warning is logging.
- `ToPrometheus` and `ConvertStatsToText` are the two encodings.
- State: `pc`, `body` (the static), `request`, `built` (the buffer a worker's own conversion produced) and `reply`.
- Actions: `StatsCollect(w)` is lines 1090-1101, up to the store into the static. `StatsSend(w)` is `add_body` and the final reply.
- `SpecLines` is the reference, written from the metric table of spec.md 4.7 by patterns over the name.

### M2Remote (`M2Remote.tla`, `MC_M2Remote.tla`)

- One operator per packer gives the message it builds: its name, a set of fields and a body. A NULL string adds no field (`Str`). Flags are stored byte-swapped (`Htonl`), and `ListFlags` builds the list flags of `_pack_list_params`.
- `Calls` enumerates every packer over small argument sets. `Pack` picks one, so `PackedOperationsDistinct` is checked in a state.
- `ExecuteDestroyMany` is the start of `m2v2_remote_execute_DESTROY_many`. It can fail as a whole (`INTERNAL_ERROR`, or `CREATE_FAILED` for a client), or it can start one client per target.
- `Process(i)` is a meta2 service answering, and `Timeout(i)` is the client giving up. A timed-out request may still be delivered late.
- `ExecuteDestroy` and `ExecDone` are `m2v2_remote_execute_DESTROY`: one client to one target, and the client's error is returned as it is. Here a NOT_FOUND is an error. The same `Process` and `Timeout` apply, late delivery included.
- `ClientsLoop` is the wait, ending with `Aggregate`. `Aggregate` is the loop at 605-616: it skips NOT_FOUND and CONTAINER_NOTFOUND and stops at the first other error.
- Listing: `StartListing` packs a LIST, LIST_BY_CHUNKID or SHOW_SHARDING and initialises the result (`NoResult`, `m2v2_list_result_init`). The service answers with one of the reply sequences of `ListReplies`. `ListReply` applies `ListResultExtract` (lines 97-144) to the next reply, and a FALSE return (a body that does not decode) fails the request. `ListDone` ends the listing with `m2v2_list_result_clean`, which resets the result.

### EventsQueue and EventSink (`EventsQueue.tla`, `EventSink.tla`, `MC_EventsQueue.tla`)

**Factory.** `FactoryCreate` is a string without separator: the connector is chosen by prefix and its creation may fail. With a separator:

- `FactoryMulti` enters `_parse_and_create_multi`;
- `CreateSub` creates one token's sub-queue, stopping at the first error;
- `CreateFanout` wraps the sub-queues in a fanout, and may fail;
- `Cleanup` destroys the sub-queues through the array's free function on error.

**Interface.** Producer threads run a script of calls.

- `CheckStalled` is lines 51-55 (and 82-86): with a fallback and a stalled queue the event is dropped. Otherwise the thread moves on to `BackendSend`, the backend call, which is a separate step, so a stall can happen in between.
- `SendOverwritable` is the backend's per-tag slot: a newer event supersedes the one held. There is no stall check.
- `FlushOverwritable` hands the held event to the broker.

**Backends.** These are modelled from spec.md 4.8, because they are not under `src/`: a FIFO per broker, `Stall`/`Recover` (bounded by `MaxStalls`), `Deliver`, and a fanout that routes each event to one child.

**Refinement.** `EventSink` is the abstract sink: an event is submitted (accepted or dropped), replaced, or delivered. `EventsQueue` maps its state to the sink with `Fate(e)`, and `SinkRefined` checks `SINK!Spec` as a property.

## 3. Runs

| run | cfg | expect | what it shows |
|---|---|---|---|
| request_pass | MC_GriddRequest.cfg | pass | exactly one final reply, final error codes, counters = final replies, registration as spec.md 4.2 says, the transport refines RequestLifecycle; 344k states, about 2 minutes |
| ping_io_gate | MC_GriddRequest_ping.cfg | violation | PING after an I/O error gets UNAVAILABLE |
| deadline_arrival | MC_GriddRequest_deadline.cfg | violation | a request queued one tick has deadline parse + cap, not arrival + cap |
| malformed_no_reply | MC_GriddRequest_malformed.cfg | violation | a frame the decoder rejects gets no reply |
| frames_pass | MC_FrameReader.cfg | pass | reassembly is independent of slab boundaries; memory balances; streams are processed to the end; 412k states |
| http_overread | MC_FrameReader_http.cfg | violation | a 5-byte frame with an HTTP-verb size is bounced on the 4 bytes past its end |
| stats_registry_pass | MC_EventsStats.cfg | pass | refcount and entries match the registrations; the table is released with the last one |
| stats_registry_uaf | MC_EventsStats_uaf.cfg | violation | register, unregister, register: the new registration takes a reference on the freed table (a scrape after the free reaches it the same way) |
| prom_pass | MC_PromStats.cfg | pass | the conversion agrees with spec.md 4.7 on about 24k names, and STATS replies carry it |
| prom_stats_race | MC_PromStats_race.cfg | violation | collect, collect, send: worker 1's reply carries worker 2's buffer (code bug at `transport_gridd.c:1093`) |
| proxy_pass | MC_M2Remote.cfg | pass | packers are injective over the operations; DESTROY_many reports OK only when every base is gone; a paged listing ends with the result of its pages; single and multi-target DESTROY; 139k states |
| events_pass | MC_EventsQueue.cfg | pass | factory cleanup, and the queue refines the best-effort sink; 13k states |

Each property of a passing run has a mutant in `PROJECT.json`. A mutant is a plausible bug in the mapped definition, and TLC finds the property violated with it in place:

- a TEMP reply marking the request final;
- the override applied after canonicalisation;
- a refusal path that skips `_notify_request`;
- the request context not cleared;
- a missing buffer reset;
- a release made only when a reply was sent;
- `gba_read` one byte short;
- a reservation that ignores the budget;
- an extra reference on table creation;
- lag counters not converted to seconds;
- UPDATE packed as OVERWRITE;
- an aggregation that does not stop at the first error;
- the sub-queue array freed without its free function;
- a fanout sending to every child;
- a list result that keeps the previous marker when a reply has none;
- duplicates looked up only among the names registered before the call;
- a reply context that lets a handler send after its final reply.

## 4. Bounds

**GriddRequest:** one connection, 2 frames, clock 1..3, queue delay 1, run cap 2, I/O window 2, 2 reply-context calls per handler.

- The timeout values {0, 1} cover both "no TIMEOUT" and a TIMEOUT that tightens the deadline.
- The names cover the three kinds of built-in handler and one application handler. A non-local built-in (PING) and an unregistered name are also included.
- The application codes cover:
  - OK and a 4xx through `send_reply`;
  - a network code, OK and a 4xx through `send_error`, with and without an override.
- Two frames are enough for a request to follow another on the same connection after an rc of TRUE, and for one to arrive after the connection closed.
- A clock of 3 lets a request wait past the queue delay and lets the probe go stale.

**FrameReader:** two connections, each given one of five streams, and up to 2 slabs queued per connection.

- The five streams:
  - a request followed by an empty frame and the start of another;
  - a 2-byte request;
  - an HTTP request line;
  - a frame over the cap;
  - a large binary frame.
- The memory budget is 2, so the 1- and 2-byte requests of two connections cannot both be reserved. This forces both the precheck refusal and the reservation refusal after a precheck passed.
- Every action fires under these bounds.

**EventsStats:** two owners with distinct event types, two queues, one scraper, 2 register/unregister cycles per owner. That is enough for the table to be freed and for a later call to reach it.

**PromStats:** the names of one to four words over a vocabulary that holds every keyword of the conversion, plus five-part names, about 24k in all. These reach every branch and g_strsplit's `max`. Snapshots are the singletons and pairs of six curated statistics, with both formats and one worker. The race run has two workers, which is the least that can race.

**M2Remote:** two beans, NULL or a value for each optional string, and target arrays of zero to two services (a service repeated included). One DESTROY_many call. Four reply sequences for a listing:

- one truncated page with a marker and properties;
- a redirect, then a page;
- a truncated page with a marker, then a complete page without one, which is where a kept marker would show;
- a page whose body does not decode.

**Registration:** every list of zero to three descriptors over the five request names, 156 lists, so a name repeated in the list, a name already common (PING) and a list with both orders are all covered.

**EventsQueue:** four connection strings:

- a single kafka queue, which can overwrite;
- a single beanstalkd queue;
- a fanout over two endpoints;
- a multi string whose second token is not recognised, which fails after one sub-queue was created.

Two producers run five calls: a plain send, two overwritable sends to one tag, one with an empty tag, and a flush. There are at most 2 stalls, with a fallback installed and the "all children" policy.

## 5. Fairness

Only FrameReader states liveness. `Fairness` is weak fairness on each connection's loop turns, `FinishFrame` included. This is justified because:

- `notify_input` loops while the connection has input and a worker serves it;
- handlers run synchronously and return.

`Receive` is not fair, since a client may stop sending. This is why `AllFramesDelivered` is conditioned on the whole stream having arrived.

PromStats' `Spec` has weak fairness on `StatsSend`, because a handler that built its body sends it without waiting. No liveness property is checked there. EventsQueue and M2Remote state safety only: a broker may stay stalled, and a meta2 service may never answer.

## 6. Not modelled, and why

- **Access log and statsd.** They only format text; no state is read back.
- **Message contents, bodies and headers.** These are data; the ASN.1 codec is external.
- **Queue backends and the fallback sink.** They are not under `src/`.
- **Event JSON construction.** It is formatting.
- **Packer URL, deadline and header fields.** Every packer adds them the same way, so they do not tell two operations apart. The packers that no proxy handler calls with distinguishing arguments are listed in `PROJECT.json`.
- **The warnings of the Prometheus conversion.** The always-true `||` at `transport_gridd.c:970` only loses a log line.
- **The queue getters, `set_buffering` and `start`.** They forward to the backend and change no state of the interface.
- **`m2v2_boolean_truncated_extract` and `m2v2_offset_extract`.** Each copies one field of the reply into the caller's variable.
- **Network-class codes passed to `send_reply`** (`transport_gridd.c:639`). `final_sent` would stay FALSE while the client receives a final PROXY_ERROR, and then the synthetic reply would follow. No handler under `src/` passes such a code, so the reply codes the model enumerates contain none.
- **The 64-bit sum `now + to`** (`transport_gridd.c:688`). A TIMEOUT near 2^63 overflows it into a deadline in the past. The model's clock and TIMEOUT values are small integers, far from that edge.
- **The unlocked reads of `last_io_error` and `last_io_success`** (`transport_gridd.c:1182-1191`). There is a single writer, and its timestamps are monotonic. So any mix of values read during one call reflects a state some instant of the call had. The model reads both values in one step.
- **`(gboolean)` of a `gsize`** (`transport_gridd.c:579`). `_client_reply_fixed` sends only fixed replies with no body, so the size is never a multiple of 2^32 and the cast never reads FALSE.

## 7. Plan for the next steps

1. **The I/O gate with separate reads.** Split the probe's notification into taking the time and storing it, in a module of its own.
2. **Liveness of the request path.** Every decoded request is answered, under weak fairness of each connection's worker.
