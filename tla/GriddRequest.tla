---------------------------- MODULE GriddRequest ----------------------------
(***************************************************************************)
(* Request handling of the gridd transport (src/server/transport_gridd.c): *)
(* the dispatcher built from request descriptors, _client_manage_l4v, the  *)
(* prologue and gates of _client_call_handler (queue delay, handler lookup,*)
(* I/O-health gate), the reply context handed to handlers (send_reply,     *)
(* send_error), the synthetic "BUG: no reply sent" reply and the request   *)
(* counters.  Connections run their requests sequentially; the I/O probe   *)
(* (grid_daemon_notify_io_status) and the clock run concurrently.          *)
(*                                                                         *)
(* A frame is abstracted to the decoded request it carries: its NAME, its  *)
(* TIMEOUT field and whether the ASN.1 decoder accepts it.  Reply bodies,  *)
(* headers, subject tags and the access-log text are data and left out;   *)
(* a reply is its status code, the request it answers and the path that    *)
(* produced it.                                                            *)
(***************************************************************************)
EXTENDS Integers, Sequences, FiniteSets, TLC

CONSTANTS
  Conns,            \* client connections
  AppRequests,      \* descriptors registered by the service after the common ones
  RequestNames,     \* NAMEs clients put in requests (registered or not)
  TimeoutValues,    \* TIMEOUT fields; a value <= 0 stands for absent/unparsable
  AppReplyCodes,    \* codes an application handler passes to send_reply
  AppErrorCodes,    \* codes of the GError an application handler passes to send_error
  MaxRunTime,       \* sqlx_request_max_run_time
  MaxQueueDelay,    \* meta_queue_max_delay
  IoWindow,         \* G_TIME_SPAN_MINUTE: staleness bound of the I/O probe
  MaxTime,          \* bound of the monotonic clock
  MaxRequests,      \* bound of the frames clients send
  MaxHandlerSteps   \* bound of the reply-context calls of one handler

ASSUME MaxRunTime \in Nat /\ MaxQueueDelay \in Nat /\ IoWindow \in Nat \ {0}
ASSUME MaxTime \in Nat \ {0} /\ MaxRequests \in Nat /\ MaxHandlerSteps \in Nat

-----------------------------------------------------------------------------
(* Status codes, one representative per class the transport tells apart.   *)
CodeNetError    == 7
CodeTemp        == 100
CodeOk          == 200
CodeRedirect    == 301
CodeBadRequest  == 400
CodeNotFound    == 404
CodeInternal    == 500
CodeProxyError  == 502
CodeUnavailable == 503
CodeGatewayTimeout == 504

IsNetworkError(c) == c < 100
IsTemp(c)         == 100 <= c /\ c < 200
IsOk(c)           == 200 <= c /\ c < 300
IsFinal(c)        == c >= 200

(* OLDEST(now, delay): now - delay, saturated at 0.                       *)
Oldest(t, d) == IF t > d THEN t - d ELSE 0

MinOf(a, b) == IF a <= b THEN a ELSE b

-----------------------------------------------------------------------------
(* The dispatcher.  A descriptor is [name, kind, local]: kind selects the  *)
(* handler's behaviour, local marks hdata == &_local_variable.             *)
Descr(n, k, l) == [name |-> n, kind |-> k, local |-> l]

(* gridd_get_common_requests: PING and STATS carry no marker.              *)
CommonRequests ==
  << Descr("REQ_PING", "ok", FALSE),     Descr("REQ_STATS", "ok", FALSE),
     Descr("REQ_VERSION", "ok", TRUE),   Descr("REQ_HANDLERS", "ok", TRUE),
     Descr("REQ_GETCFG", "ok", TRUE),    Descr("REQ_SETCFG", "setcfg", TRUE),
     Descr("REQ_REDIRECT", "redirect", TRUE), Descr("REQ_LEAN", "ok", TRUE) >>

(* Mutant: a NAME is only looked up among those registered before the    *)
(* call, so a list that repeats a NAME is accepted.                        *)
AddRequestsNoSelfCheck(tree, descr) ==
  LET RECURSIVE Add(_, _)
      Add(t, d) ==
        IF d = << >> THEN [tree |-> t, err |-> FALSE]
        ELSE IF Head(d).name \in DOMAIN tree THEN [tree |-> t, err |-> TRUE]
        ELSE Add(t @@ (Head(d).name :> Head(d)), Tail(d))
  IN  Add(tree, descr)

(* transport_gridd_dispatcher_add_requests: insert the descriptors in      *)
(* order, stop with an error at the first NAME already in the tree; the    *)
(* ones inserted before it stay.                                           *)
RECURSIVE AddRequests(_, _)
AddRequests(tree, descr) ==
  IF descr = << >> THEN [tree |-> tree, err |-> FALSE]
  ELSE IF Head(descr).name \in DOMAIN tree THEN [tree |-> tree, err |-> TRUE]
  ELSE AddRequests(tree @@ (Head(descr).name :> Head(descr)), Tail(descr))

(* transport_gridd_build_empty_dispatcher ignores the error it may get.    *)
EmptyDispatcher == AddRequests([n \in {} |-> Descr(n, "ok", TRUE)], CommonRequests).tree

Dispatcher == AddRequests(EmptyDispatcher, AppRequests).tree

Buckets == {"all", "overloaded", "unexpected", "ioerror"} \cup DOMAIN Dispatcher

-----------------------------------------------------------------------------
VARIABLES
  now,            \* oio_ext_monotonic_time()
  lastIoError,    \* disp->last_io_error
  lastIoSuccess,  \* disp->last_io_success
  inbox,          \* frames received on each connection, not yet handled
  phase,          \* "idle" | "handler" | "closed" per connection
  cur,            \* the req_ctx_s of the request a connection is handling
  wire,           \* every reply sent, in order
  stats,          \* the oio_stats counters fed by _notify_request
  sent,           \* frames sent so far (ids)
  done,           \* ids of the frames whose handling ended
  decoded         \* ids of the frames the decoder accepted

vars == <<now, lastIoError, lastIoSuccess, inbox, phase, cur, wire, stats,
          sent, done, decoded>>

Frames == [id: 1..MaxRequests, name: RequestNames, decodes: BOOLEAN,
           timeout: TimeoutValues, tvStart: 0..MaxTime]

NoReq == [id |-> 0, name |-> "", timeout |-> 0, tvStart |-> 0, tvParsed |-> 0,
          deadline |-> 0, finalSent |-> FALSE, steps |-> 0]

Reply(r, code, via) ==
  \* metaXServer_reply_simple: a network-class code goes out as PROXY_ERROR
  [id |-> r.id, name |-> r.name, via |-> via,
   status |-> IF IsNetworkError(code) THEN CodeProxyError ELSE code]

-----------------------------------------------------------------------------
(* The deadline computed in _client_call_handler from the parse time.      *)
Deadline(parsed, to) ==
  IF to > 0 THEN MinOf(parsed + MaxRunTime, parsed + to) ELSE parsed + MaxRunTime

(* grid_daemon_is_io_ok                                                    *)
IsIoOk ==
  \/ lastIoError = 0 /\ lastIoSuccess = 0
  \/ /\ ~(lastIoError > lastIoSuccess)
     /\ lastIoSuccess > Oldest(now, IoWindow)

ErrorCodeOverrideLast(code, ecode) ==
  \* variant: the override applied after the canonicalisation
  IF code # 0 THEN code
  ELSE IF IsNetworkError(ecode) THEN CodeProxyError
  ELSE IF IsOk(ecode) \/ IsTemp(ecode) THEN CodeInternal ELSE ecode

(* The code send_error finally replies with: the override, then the       *)
(* canonicalisation of network, OK and TEMP codes.                        *)
ErrorCode(code, ecode) ==
  LET e == IF code # 0 THEN code ELSE ecode
  IN  IF IsNetworkError(e) THEN CodeProxyError
      ELSE IF IsOk(e) \/ IsTemp(e) THEN CodeInternal ELSE e

RefuseWithoutNotify(c, r, code, bucket) ==
  \* variant: the refusal path forgets _notify_request
  /\ wire' = Append(wire, Reply(r, code, "fixed"))
  /\ done' = done \cup {r.id}
  /\ UNCHANGED <<phase, cur, stats>>

(* _client_reply_fixed followed by _notify_request, in one of the refusal *)
(* paths of _client_call_handler: the code is final and non-empty, so     *)
(* _client_manage_l4v returns TRUE and the connection goes on.            *)
RefuseWith(c, r, code, bucket) ==
  /\ wire' = Append(wire, Reply(r, code, "fixed"))
  /\ stats' = [stats EXCEPT ![bucket] = @ + 1, !["all"] = @ + 1]
  /\ done' = done \cup {r.id}
  /\ UNCHANGED <<phase, cur>>

-----------------------------------------------------------------------------
Init ==
  /\ now = 1
  /\ lastIoError = 0
  /\ lastIoSuccess = 0
  /\ inbox = [c \in Conns |-> << >>]
  /\ phase = [c \in Conns |-> "idle"]
  /\ cur = [c \in Conns |-> NoReq]
  /\ wire = << >>
  /\ stats = [b \in Buckets |-> 0]
  /\ sent = 0
  /\ done = {}
  /\ decoded = {}

(* The monotonic clock advances.                                          *)
Tick ==
  /\ now < MaxTime
  /\ now' = now + 1
  /\ UNCHANGED <<lastIoError, lastIoSuccess, inbox, phase, cur, wire, stats,
                 sent, done, decoded>>

(* grid_daemon_notify_io_status(disp, ok, msg), called by the I/O probe.  *)
NotifyIoStatus(ok) ==
  /\ IF ok THEN lastIoSuccess' = now /\ UNCHANGED lastIoError
           ELSE lastIoError' = now /\ UNCHANGED lastIoSuccess
  /\ UNCHANGED <<now, inbox, phase, cur, wire, stats, sent, done, decoded>>

(* A client sends one more frame on an open connection.                   *)
Arrive(c) ==
  /\ phase[c] # "closed"
  /\ sent < MaxRequests
  /\ \E n \in RequestNames, ok \in BOOLEAN, to \in TimeoutValues :
       inbox' = [inbox EXCEPT ![c] = Append(@, [id |-> sent + 1, name |-> n,
                   decodes |-> ok, timeout |-> to, tvStart |-> now])]
  /\ sent' = sent + 1
  /\ UNCHANGED <<now, lastIoError, lastIoSuccess, phase, cur, wire, stats,
                 done, decoded>>

(* _client_manage_l4v, the decoder fails: an access line with code 400 is *)
(* logged, no reply is sent and FALSE makes the transport close.          *)
DecodeError(c) ==
  /\ phase[c] = "idle" /\ inbox[c] # << >>
  /\ ~Head(inbox[c]).decodes
  /\ inbox' = [inbox EXCEPT ![c] = Tail(@)]
  /\ phase' = [phase EXCEPT ![c] = "closed"]
  /\ done' = done \cup {Head(inbox[c]).id}
  /\ UNCHANGED <<now, lastIoError, lastIoSuccess, cur, wire, stats, sent, decoded>>

(* The request is decoded; _client_call_handler computes its deadline and *)
(* its request context, then checks the gates in order.                   *)
Parsed(c) ==
  LET f == Head(inbox[c])
  IN  [id |-> f.id, name |-> f.name, timeout |-> f.timeout, tvStart |-> f.tvStart,
       tvParsed |-> now, deadline |-> Deadline(now, f.timeout),
       finalSent |-> FALSE, steps |-> 0]

(* The branch at 799-802 (no request name: a 400 reply, no counter) is    *)
(* dead code: _request_get_name (294-302) returns hashstr_create("") for a *)
(* missing or empty NAME, never NULL.  Such a request takes the lookup and *)
(* gets NOT_FOUND, as an unregistered NAME of RequestNames does.           *)
Decoded(c) ==
  /\ phase[c] = "idle" /\ inbox[c] # << >>
  /\ Head(inbox[c]).decodes
  /\ inbox' = [inbox EXCEPT ![c] = Tail(@)]
  /\ decoded' = decoded \cup {Head(inbox[c]).id}

QueuedTooLong(r) == r.tvStart < Oldest(r.tvParsed, MaxQueueDelay)

RefuseQueued(c) ==
  /\ Decoded(c)
  /\ QueuedTooLong(Parsed(c))
  /\ RefuseWith(c, Parsed(c), CodeGatewayTimeout, "overloaded")
  /\ UNCHANGED <<now, lastIoError, lastIoSuccess, sent>>

RefuseUnknown(c) ==
  /\ Decoded(c)
  /\ ~QueuedTooLong(Parsed(c))
  /\ Parsed(c).name \notin DOMAIN Dispatcher
  /\ RefuseWith(c, Parsed(c), CodeNotFound, "unexpected")
  /\ UNCHANGED <<now, lastIoError, lastIoSuccess, sent>>

RefuseIo(c) ==
  /\ Decoded(c)
  /\ ~QueuedTooLong(Parsed(c))
  /\ Parsed(c).name \in DOMAIN Dispatcher
  /\ ~Dispatcher[Parsed(c).name].local
  /\ ~IsIoOk
  /\ RefuseWith(c, Parsed(c), CodeUnavailable, "ioerror")
  /\ UNCHANGED <<now, lastIoError, lastIoSuccess, sent>>

InvokeHandler(c) ==
  /\ Decoded(c)
  /\ ~QueuedTooLong(Parsed(c))
  /\ Parsed(c).name \in DOMAIN Dispatcher
  /\ Dispatcher[Parsed(c).name].local \/ IsIoOk
  /\ phase' = [phase EXCEPT ![c] = "handler"]
  /\ cur' = [cur EXCEPT ![c] = Parsed(c)]
  /\ UNCHANGED <<now, lastIoError, lastIoSuccess, wire, stats, sent, done>>

-----------------------------------------------------------------------------
AfterReplyAlwaysFinal(r, code) ==
  \* variant: final_sent set by any reply, TEMP ones included
  [r EXCEPT !.finalSent = TRUE, !.steps = @ + 1]

(* The reply context: _send_reply and _send_error of _client_call_handler. *)
(* final_sent is set from the code the handler passed, before mapping.    *)
AfterReply(r, code) == [r EXCEPT !.finalSent = IsFinal(code), !.steps = @ + 1]

(* The handler returned rc: _notify_request, then _client_manage_l4v sends *)
(* the synthetic reply if no final one was sent, which forces rc = FALSE. *)
(* A FALSE rc closes the connection (transport_gridd_notify_input).       *)
FinishKeepingContext(c, r, w, rc) ==
  \* variant: the request context is not cleared once the handler returned
  LET synth == ~r.finalSent
  IN  /\ wire' = IF synth THEN Append(w, Reply(r, CodeInternal, "fixed")) ELSE w
      /\ stats' = [stats EXCEPT ![r.name] = @ + 1, !["all"] = @ + 1]
      /\ phase' = [phase EXCEPT ![c] = IF rc /\ ~synth THEN "idle" ELSE "closed"]
      /\ cur' = cur
      /\ done' = done \cup {r.id}

Finish(c, r, w, rc) ==
  LET synth == ~r.finalSent
  IN  /\ wire' = IF synth THEN Append(w, Reply(r, CodeInternal, "fixed")) ELSE w
      /\ stats' = [stats EXCEPT ![r.name] = @ + 1, !["all"] = @ + 1]
      /\ phase' = [phase EXCEPT ![c] = IF rc /\ ~synth THEN "idle" ELSE "closed"]
      /\ cur' = [cur EXCEPT ![c] = NoReq]
      /\ done' = done \cup {r.id}

HandlerKind(c) == Dispatcher[cur[c].name].kind

(* dispatch_PING, _STATS, _VERSION, _LISTHANDLERS, _GETCFG, _LEAN: one    *)
(* final OK reply, return TRUE.                                           *)
RunOkHandler(c) ==
  /\ phase[c] = "handler" /\ HandlerKind(c) = "ok"
  /\ Finish(c, AfterReply(cur[c], CodeOk),
            Append(wire, Reply(cur[c], CodeOk, "reply")), TRUE)
  /\ UNCHANGED <<now, lastIoError, lastIoSuccess, inbox, sent, decoded>>

(* dispatch_SETCFG: a body that is not a non-empty JSON object gets       *)
(* send_error(0, BADREQ), otherwise an OK reply; return TRUE.             *)
RunSetCfg(c) ==
  /\ phase[c] = "handler" /\ HandlerKind(c) = "setcfg"
  /\ \E valid \in BOOLEAN :
       LET code == IF valid THEN CodeOk ELSE ErrorCode(0, CodeBadRequest)
           via  == IF valid THEN "reply" ELSE "error"
       IN  Finish(c, AfterReply(cur[c], code), Append(wire, Reply(cur[c], code, via)), TRUE)
  /\ UNCHANGED <<now, lastIoError, lastIoSuccess, inbox, sent, decoded>>

(* dispatch_REDIRECT: send_error(0, NEWERROR(CODE_REDIRECT, endpoint)).   *)
RunRedirect(c) ==
  /\ phase[c] = "handler" /\ HandlerKind(c) = "redirect"
  /\ LET code == ErrorCode(0, CodeRedirect)
     IN  Finish(c, AfterReply(cur[c], code), Append(wire, Reply(cur[c], code, "error")), TRUE)
  /\ UNCHANGED <<now, lastIoError, lastIoSuccess, inbox, sent, decoded>>

(* An application handler: a bounded series of reply-context calls, each   *)
(* made while no final reply was sent, then its return.  The condition is *)
(* the handler contract the EXTRA_ASSERTs of the context state; they are  *)
(* compiled out of release builds, so it is assumed, not enforced.        *)
AppCallAfterFinal(c) ==
  \* variant: the reply context does not check that a final reply was sent
  /\ phase[c] = "handler" /\ HandlerKind(c) = "app"
  /\ cur[c].steps < MaxHandlerSteps

AppCall(c) ==
  /\ phase[c] = "handler" /\ HandlerKind(c) = "app"
  /\ ~cur[c].finalSent
  /\ cur[c].steps < MaxHandlerSteps

AppSendTemp(c) ==
  /\ AppCall(c)
  /\ cur' = [cur EXCEPT ![c] = AfterReply(@, CodeTemp)]
  /\ wire' = Append(wire, Reply(cur[c], CodeTemp, "reply"))
  /\ UNCHANGED <<now, lastIoError, lastIoSuccess, inbox, phase, stats, sent, done, decoded>>

AppSendReply(c) ==
  /\ AppCall(c)
  /\ \E code \in AppReplyCodes :
       /\ cur' = [cur EXCEPT ![c] = AfterReply(@, code)]
       /\ wire' = Append(wire, Reply(cur[c], code, "reply"))
  /\ UNCHANGED <<now, lastIoError, lastIoSuccess, inbox, phase, stats, sent, done, decoded>>

AppSendError(c) ==
  /\ AppCall(c)
  /\ \E code \in {0} \cup AppReplyCodes, ecode \in AppErrorCodes :
       LET sent_code == ErrorCode(code, ecode)
       IN  /\ cur' = [cur EXCEPT ![c] = AfterReply(@, sent_code)]
           /\ wire' = Append(wire, Reply(cur[c], sent_code, "error"))
  /\ UNCHANGED <<now, lastIoError, lastIoSuccess, inbox, phase, stats, sent, done, decoded>>

AppReturn(c) ==
  /\ phase[c] = "handler" /\ HandlerKind(c) = "app"
  /\ \E rc \in BOOLEAN : Finish(c, cur[c], wire, rc)
  /\ UNCHANGED <<now, lastIoError, lastIoSuccess, inbox, sent, decoded>>

-----------------------------------------------------------------------------
Serve(c) ==
  \/ DecodeError(c) \/ RefuseQueued(c) \/ RefuseUnknown(c) \/ RefuseIo(c)
  \/ InvokeHandler(c) \/ RunOkHandler(c) \/ RunSetCfg(c) \/ RunRedirect(c)
  \/ AppReturn(c)

Next ==
  \/ Tick
  \/ \E ok \in BOOLEAN : NotifyIoStatus(ok)
  \/ \E c \in Conns :
       \/ Arrive(c) \/ Serve(c)
       \/ AppSendTemp(c) \/ AppSendReply(c) \/ AppSendError(c)

Spec == Init /\ [][Next]_vars

-----------------------------------------------------------------------------
TypeOK ==
  /\ now \in 1..MaxTime
  /\ lastIoError \in 0..MaxTime /\ lastIoSuccess \in 0..MaxTime
  /\ inbox \in [Conns -> Seq(Frames)]
  /\ phase \in [Conns -> {"idle", "handler", "closed"}]
  /\ \A c \in Conns : phase[c] = "handler" <=> cur[c] # NoReq
  /\ wire \in Seq([id: 1..MaxRequests, name: RequestNames, via: {"fixed", "reply", "error"},
                   status: Int])
  /\ stats \in [Buckets -> 0..MaxRequests]
  /\ sent \in 0..MaxRequests
  /\ decoded \subseteq 1..sent /\ done \subseteq 1..sent

FinalsOf(id) == {i \in DOMAIN wire : wire[i].id = id /\ IsFinal(wire[i].status)}

(* Every decoded request whose handling ended got exactly one reply with a *)
(* final status, and nothing was sent for it after that reply: whether the *)
(* handler returns after TEMP replies only, after none, or after its final *)
(* one, the handler replies and the synthetic "BUG: no reply sent" of      *)
(* _client_manage_l4v never both reach the client, and a request is never  *)
(* left unanswered.  Handlers are assumed to keep the reply contract (no   *)
(* call after a final reply, see AppCall).                                 *)
ExactlyOneFinalReply ==
  /\ \A id \in decoded \cap done : Cardinality(FinalsOf(id)) = 1
  /\ \A i, j \in DOMAIN wire :
       (i < j /\ wire[i].id = wire[j].id /\ IsFinal(wire[i].status)) => FALSE

(* A reply produced by send_error always carries a final error status:    *)
(* the override code and the canonicalisation never let an OK, TEMP or    *)
(* network code through.                                                  *)
ErrorRepliesAreFinalErrors ==
  \A i \in DOMAIN wire :
    wire[i].via = "error" =>
      IsFinal(wire[i].status) /\ ~IsOk(wire[i].status) /\ ~IsNetworkError(wire[i].status)

(* The "all" request counter equals the number of final replies sent for  *)
(* finished requests: _notify_request runs exactly once per decoded       *)
(* request, on every path.                                                *)
CountersMatchFinalReplies ==
  stats["all"] = Cardinality({i \in DOMAIN wire : IsFinal(wire[i].status) /\ wire[i].id \in done})

-----------------------------------------------------------------------------
(* Refinement of RequestLifecycle.  A frame not yet received is "none"; one *)
(* with a final reply on the wire is "answered"; one whose handling ended   *)
(* without any is "dropped"; a decoded one is "running"; otherwise it waits *)
(* in the inbox.  The replies are the wire, each marked final or interim.   *)
Lifecycle(id) ==
  CASE id > sent          -> "none"
    [] FinalsOf(id) # {}  -> "answered"
    [] id \in done        -> "dropped"
    [] id \in decoded     -> "running"
    [] OTHER              -> "queued"

LIFE == INSTANCE RequestLifecycle WITH
          Ids <- 1..MaxRequests,
          st <- [id \in 1..MaxRequests |-> Lifecycle(id)],
          replies <- [k \in DOMAIN wire |-> [id |-> wire[k].id, final |-> IsFinal(wire[k].status)]]

(* Whatever the gates, the handler kind and the handler's calls, the       *)
(* transport behaves as the request life cycle: a refused request is      *)
(* answered in the same step, a handler's interim replies come between its *)
(* start and its one final reply (its own or the synthetic one of         *)
(* _client_manage_l4v), and a dropped frame never gets a reply.           *)
LifecycleRefined == LIFE!Spec

-----------------------------------------------------------------------------
(* spec.md 4.2 register: each entry in turn is checked against the NAMEs  *)
(* registered so far and inserted; a duplicate NAME is an error, and the  *)
(* entries before it are registered.                                       *)
RegisterSpec(tree, descr) ==
  LET Dup(i) == descr[i].name \in DOMAIN tree \cup {descr[j].name : j \in 1..(i - 1)}
      bad == {i \in DOMAIN descr : Dup(i)}
      k == IF bad = {} THEN Len(descr) + 1 ELSE CHOOSE i \in bad : \A j \in bad : i <= j
      ok == {descr[j].name : j \in 1..(k - 1)}
  IN  [tree |-> [n \in DOMAIN tree \cup ok |->
                   IF n \in DOMAIN tree THEN tree[n]
                   ELSE descr[CHOOSE j \in 1..(k - 1) : descr[j].name = n]],
       err |-> bad # {}]

DescrLists ==
  UNION {[1..k -> {Descr(n, "app", FALSE) : n \in RequestNames}] : k \in 0..3}

(* The dispatcher registers what spec.md 4.2 says for every list of up to  *)
(* three descriptors, duplicates within the list or with the common       *)
(* requests included, and reports the error exactly then; a request       *)
(* being served was resolved through that registration.                   *)
RegistrationMatchesSpec ==
  /\ \A d \in DescrLists : AddRequests(EmptyDispatcher, d) = RegisterSpec(EmptyDispatcher, d)
  /\ \A c \in Conns :
       phase[c] = "handler" =>
         Dispatcher[cur[c].name] = RegisterSpec(EmptyDispatcher, AppRequests).tree[cur[c].name]

-----------------------------------------------------------------------------
(* Statements of spec.md that the code does not meet (violation runs).    *)

(* spec.md 3: every accepted frame gets exactly one final reply.          *)
EveryFrameGetsFinalReply ==
  \A id \in done : Cardinality(FinalsOf(id)) = 1

(* spec.md 2/3: PING bypasses the I/O-health gate and stays answerable    *)
(* during degraded I/O.                                                   *)
PingAnsweredDuringIoErrors ==
  \A i \in DOMAIN wire : wire[i].name = "REQ_PING" => wire[i].status # CodeUnavailable

(* spec.md 4.4: deadline = arrival + min(TIMEOUT, max run time).          *)
DeadlineFromArrival ==
  \A c \in Conns :
    phase[c] = "handler" =>
      cur[c].deadline = cur[c].tvStart +
        (IF cur[c].timeout > 0 THEN MinOf(cur[c].timeout, MaxRunTime) ELSE MaxRunTime)

=============================================================================
