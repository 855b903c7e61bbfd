------------------------------ MODULE M2Remote ------------------------------
(***************************************************************************)
(* The meta2 request packers of the proxy (src/proxy/meta2v2_remote.c)    *)
(* and m2v2_remote_execute_DESTROY_many, which sends one DESTROY to the    *)
(* services of every replica of a base and aggregates their answers.       *)
(*                                                                         *)
(* A packed request is abstracted to what the service reads from it: the *)
(* message name, the body, and the set of its <<field, value>> pairs.      *)
(* The URL and the deadline, which every packer adds the same way, are    *)
(* left out.  A string argument is NoValue (NULL) or Value.               *)
(***************************************************************************)
EXTENDS Integers, Sequences, FiniteSets

CONSTANTS
  NoValue, Value,   \* a NULL and a non-NULL string argument
  Beans,            \* bean lists a caller may pass (marshalled as the body)
  FlagBit,          \* M2V2_FLAG_* of meta2_macros.h: flag -> its bit
  TargetArrays,     \* non-NULL target arrays DESTROY_many may be called with
  ListReplies       \* sequences of replies a meta2 service may send to a listing

Opt == {NoValue, Value}
NoBody == "none"

(* metautils_message_add_field_str: a NULL value adds nothing.             *)
Str(f, v) == IF v = NoValue THEN {} ELSE {<<f, v>>}
One(f, b) == IF b THEN {<<f, "1">>} ELSE {}

Msg(name, body, fields) == [name |-> name, body |-> body, fields |-> fields]

(* g_htonl on a little-endian host: the four bytes of a guint32 swapped.  *)
Htonl(x) ==
  LET B(i) == (x \div (2 ^ (8 * i))) % 256
  IN  ((B(0) * 256 + B(1)) * 256 + B(2)) * 256 + B(3)

Flags(x) == {<<"FLAGS", Htonl(x)>>}

Repli(a) == Str("REPLI_DESTS", a.dests) \cup Str("REPLI_ID", a.repl)
            \cup Str("REPLI_PROJECT_ID", a.proj)

(* Mutant: UPDATE tagged as an OVERWRITE.                                  *)
PackUpdateAsOverwrite(a) == Msg("M2V2_PUT", a.beans, {<<"OVERWRITE", "1">>})

-----------------------------------------------------------------------------
PackCREATE(a) ==
  Msg("M2V2_CREATE", IF a.props THEN "props" ELSE NoBody,
      Str("REGION", a.region) \cup Str("STGPOLICY", a.stgpol) \cup Str("VERPOLICY", a.verpol))
PackDESTROY(a) ==
  Msg("M2V2_DESTROY", NoBody, One("FORCE", "force" \in a.flags) \cup One("EVENT", "event" \in a.flags))
PackPUT(a) ==
  Msg("M2V2_PUT", a.beans, Str("FORCE_VERSIONING", a.fv) \cup Repli(a))
PackOVERWRITE(a) == Msg("M2V2_PUT", a.beans, {<<"OVERWRITE", "1">>})
PackUPDATE(a) == Msg("M2V2_PUT", a.beans, {<<"UPDATE", "1">>})
PackCHANGE_POLICY(a) == Msg("M2V2_PUT", a.beans, {<<"CHANGE_POLICY", "1">>})
PackRESTORE_DRAINED(a) == Msg("M2V2_PUT", a.beans, {<<"RESTORE_DRAINED", "1">>})
PackPOLICY_TRANSITION(a) ==
  Msg("M2V2_POLICY_TRANSITION", NoBody, Str("CHANGE_POLICY", a.pol) \cup One("SKIP_DATA_MOVE", a.skip))
PackDEL(a) ==
  Msg("M2V2_DEL", NoBody,
      One("BYPASS_GOVERNANCE", a.bypass) \cup One("DELETE_MARKER", a.marker)
      \cup One("DRYRUN", a.dryrun) \cup One("SLO_MANIFEST", a.slo)
      \cup Str("FORCE_VERSIONING", a.fv) \cup Repli(a))
PackRAW_ADD(a) ==
  Msg("M2V2_RAW_ADD", a.beans, One("FORCE", a.force) \cup One("FROZEN", a.frozen))
PackRAW_SUBST(a) ==
  Msg("M2V2_RAW_SUBST", NoBody, {<<"NEW", a.beans>>, <<"OLD", a.old>>} \cup One("FROZEN", a.frozen))
PackGET(a) == Msg("M2V2_GET", NoBody, Flags(a.flags))
PackPROP_SET(a) == Msg("M2V2_PROP_SET", a.beans, Flags(a.flags) \cup Repli(a))
PackTOUCHB(a) == Msg("M2V1_TOUCH_CONTAINER", NoBody, Flags(a.flags) \cup One("RECOMPUTE", a.recompute))
PackCLEAN_SHARDING(a) ==
  Msg("M2V2_CLEAN_SHARDING", a.beans, One("LOCAL", a.local) \cup One("URGENT", a.urgent))
PackPREPARE_SHARDING(a) == Msg("M2V2_PREPARE_SHARDING", a.beans, Str("SHARDING_ACTION", a.action))
PackAPPLY_LIFECYCLE(a) ==
  Msg("M2V2_APPLY_LIFECYCLE", IF a.params THEN "params" ELSE NoBody, Str("ACTION_TYPE", a.action))

(* _pack_list_params: the list flags (NORECURSION is set when recursion is *)
(* NOT wanted), then the string fields and MAX_KEYS when positive.        *)
ListFlags(p) ==
  LET set == {f \in {"ALLVERSION", "HEADERS", "NODELETED", "ALLPROPS", "MPUMARKER_ONLY"} : p[f]}
             \cup (IF p.RECURSION THEN {} ELSE {"NORECURSION"})
  IN  LET RECURSIVE Or(_)
          Or(S) == IF S = {} THEN 0 ELSE LET f == CHOOSE g \in S : TRUE IN FlagBit[f] + Or(S \ {f})
      IN  Or(set)
PackListParams(p) ==
  Flags(ListFlags(p)) \cup Str("PREFIX", p.prefix) \cup Str("MARKER", p.marker)
  \cup (IF p.maxkeys > 0 THEN {<<"MAX_KEYS", p.maxkeys>>} ELSE {})
PackLIST(a) == Msg("M2V2_LIST", NoBody, PackListParams(a))
PackLIST_BY_CHUNKID(a) == Msg("M2V2_LCHUNK", NoBody, PackListParams(a) \cup Str("KEY", a.key))
PackLIST_BY_HEADERHASH(a) == Msg("M2V2_LHHASH", NoBody, PackListParams(a) \cup {<<"KEY", a.key>>})
PackLIST_BY_HEADERID(a) == Msg("M2V2_LHID", NoBody, PackListParams(a) \cup {<<"KEY", a.key>>})
PackSHOW_SHARDING(a) == Msg("M2V2_SHOW_SHARDING", NoBody, PackListParams(a))

(* The packers that only name the message, with at most a body or one     *)
(* string field.                                                           *)
PackAPPEND(a) == Msg("M2V2_APPEND", a.beans, {})
PackRAW_DEL(a) == Msg("M2V2_RAW_DEL", a.beans, {})
PackPURGEC(a) == Msg("M2V2_PURGE_CONTENT", NoBody, Str("MAXVERS", a.maxvers))
PackPURGEB(a) == Msg("M2V2_PURGE_CONTAINER", NoBody, Str("MAXVERS", a.maxvers))
PackTRUNC(a) == Msg("M2V2_TRUNC", NoBody, {<<"CONTENTLENGTH", a.size>>})
PackFIND_SHARDS(a) == Msg("M2V2_FIND_SHARDS", IF a.params THEN "params" ELSE NoBody, Str("SHARDING_STRATEGY", a.action))
PackCHECKPOINT(a) == Msg("M2V2_CHECKPOINT", NoBody, Str("SUFFIX", a.maxvers))
PackNamed(a) == Msg(a.name, NoBody, {})
PackCONTAINER_DRAIN(a) == Msg("M2V2_CONTAINER_DRAIN", NoBody, Str("LIMIT", a.limit))
PackPROP_DEL(a) == Msg("M2V2_PROP_DEL", <<"strv", a.names>>, Repli(a))
PackMERGE_SHARDING(a) == Msg("M2V2_MERGE_SHARDING", a.beans, {})
PackUPDATE_SHARD(a) == Msg("M2V2_UPDATE_SHARD", <<"strv", a.queries>>, {})
PackREPLACE_SHARDING(a) == Msg("M2V2_REPLACE_SHARDING", a.beans, {})
(* metautils_message_set_BODY of the raw parameters, when given.          *)
PackGET_SHARDS_IN_RANGE(a) ==
  Msg("M2V2_SHARDS_IN_RANGE", IF a.params THEN "params" ELSE NoBody, {})
PackCREATE_LIFECYCLE_VIEWS(a) ==
  Msg("M2V2_CREATE_LIFECYCLE_VIEWS", IF a.params THEN "params" ELSE NoBody, {})

-----------------------------------------------------------------------------
(* Every call of a packer over small argument sets, tagged with the       *)
(* operation the caller asked for.                                        *)
B == BOOLEAN
Calls ==
  LET R(op, P(_), args) == {[op |-> op, args |-> a, msg |-> P(a)] : a \in args}
      Put == [beans : Beans, fv : Opt, dests : Opt, repl : Opt, proj : Opt]
      Lst == [ALLVERSION : B, HEADERS : B, NODELETED : B, ALLPROPS : B, MPUMARKER_ONLY : B,
              RECURSION : B, prefix : Opt, marker : {NoValue}, maxkeys : {0, 5}, key : {Value}]
  IN  R("CREATE", PackCREATE, [props : B, region : Opt, stgpol : Opt, verpol : Opt])
      \cup R("DESTROY", PackDESTROY, [flags : SUBSET {"force", "event"}])
      \cup R("PUT", PackPUT, Put)
      \cup R("OVERWRITE", PackOVERWRITE, [beans : Beans])
      \cup R("UPDATE", PackUPDATE, [beans : Beans])
      \cup R("CHANGE_POLICY", PackCHANGE_POLICY, [beans : Beans])
      \cup R("RESTORE_DRAINED", PackRESTORE_DRAINED, [beans : Beans])
      \cup R("POLICY_TRANSITION", PackPOLICY_TRANSITION, [pol : Opt, skip : B])
      \cup R("DEL", PackDEL, [bypass : B, marker : B, dryrun : B, slo : B, fv : Opt,
                              dests : Opt, repl : {NoValue}, proj : {NoValue}])
      \cup R("RAW_ADD", PackRAW_ADD, [beans : Beans, force : B, frozen : B])
      \cup R("RAW_SUBST", PackRAW_SUBST, [beans : Beans, old : Beans, frozen : B])
      \cup R("GET", PackGET, [flags : {0, 1, 256}])
      \cup R("PROP_SET", PackPROP_SET, [flags : {0, 1}, beans : Beans, dests : Opt,
                                        repl : Opt, proj : {NoValue}])
      \cup R("TOUCHB", PackTOUCHB, [flags : {0, 1}, recompute : B])
      \cup R("CLEAN_SHARDING", PackCLEAN_SHARDING, [beans : Beans, local : B, urgent : B])
      \cup R("PREPARE_SHARDING", PackPREPARE_SHARDING, [beans : Beans, action : Opt])
      \cup R("APPLY_LIFECYCLE", PackAPPLY_LIFECYCLE, [params : B, action : Opt])
      \cup R("LIST", PackLIST, Lst)
      \cup R("LIST_BY_CHUNKID", PackLIST_BY_CHUNKID, Lst)
      \cup R("SHOW_SHARDING", PackSHOW_SHARDING, Lst)
      \cup R("APPEND", PackAPPEND, [beans : Beans])
      \cup R("RAW_DEL", PackRAW_DEL, [beans : Beans])
      \cup R("PURGEC", PackPURGEC, [maxvers : Opt])
      \cup R("PURGEB", PackPURGEB, [maxvers : Opt])
      \cup R("TRUNC", PackTRUNC, [size : {0, 1}])
      \cup R("FIND_SHARDS", PackFIND_SHARDS, [params : B, action : Opt])
      \cup R("CHECKPOINT", PackCHECKPOINT, [maxvers : Opt])
      \cup R("CONTAINER_DRAIN", PackCONTAINER_DRAIN, [limit : Opt])
      \cup R("PROP_DEL", PackPROP_DEL, [names : {"n1"}, dests : Opt, repl : Opt, proj : {NoValue}])
      \cup R("MERGE_SHARDING", PackMERGE_SHARDING, [beans : Beans])
      \cup R("UPDATE_SHARD", PackUPDATE_SHARD, [queries : {"n1"}])
      \cup R("REPLACE_SHARDING", PackREPLACE_SHARDING, [beans : Beans])
      \cup R("GET_SHARDS_IN_RANGE", PackGET_SHARDS_IN_RANGE, [params : B])
      \cup R("CREATE_LIFECYCLE_VIEWS", PackCREATE_LIFECYCLE_VIEWS, [params : B])
      \cup {[op |-> n, args |-> [name |-> n], msg |-> PackNamed([name |-> n])] :
               n \in {"M2V2_FLUSH", "M2V2_DEDUP", "M2V2_PROP_GET", "M2V2_ISEMPTY",
                      "M2V1_TOUCH_CONTENT", "M2V2_CONTENT_DRAIN", "M2V2_LOCK_SHARDING",
                      "M2V2_ABORT_SHARDING"}}

-----------------------------------------------------------------------------
(* m2v2_remote_execute_DESTROY_many: one gridd client per entry of the    *)
(* target array, all started at once; each gets an answer from its       *)
(* service or times out, and a timed-out request may still be processed. *)
VARIABLES
  phase,     \* "idle" | "packed" | "exec" | "running" | "listing" | "done"
  request,   \* the last call of a packer
  targets,   \* the target array of the call
  base,      \* service -> whether it still holds the base
  answer,    \* entry -> the client's outcome, "pending" until then
  inflight,  \* entries whose request timed out but may still arrive
  result,    \* the GError returned ("OK" for NULL)
  replies,   \* the replies of the listing being received
  ri,        \* index of the next one
  lres       \* the list_result_s the callback fills

vars == <<phase, request, targets, base, answer, inflight, result, replies, ri, lres>>
listVars == <<replies, ri, lres>>

Services == UNION {{ts[i] : i \in DOMAIN ts} : ts \in TargetArrays}
Ignored == {"NOT_FOUND", "CONTAINER_NOTFOUND"}

ListOps == {"LIST", "LIST_BY_CHUNKID", "SHOW_SHARDING"}

(* m2v2_list_result_init                                                   *)
NoResult == [beans |-> {}, truncated |-> FALSE, marker |-> NoValue,
             vmarker |-> NoValue, props |-> {}]

(* Mutant: a reply without NEXTMARKER keeps the marker of an earlier one.  *)
KeepMarkerExtract(out, r) ==
  LET page == [out EXCEPT !.beans = @ \cup r.beans, !.truncated = r.truncated,
                          !.marker = IF r.marker = NoValue THEN @ ELSE r.marker,
                          !.vmarker = r.vmarker]
      o1 == IF r.status = "REDIRECT_SHARD" THEN out ELSE page
  IN  IF r.status # "REDIRECT_SHARD" /\ ~r.decodes THEN [ok |-> FALSE, out |-> out]
      ELSE [ok |-> TRUE, out |-> IF o1.props = {} THEN [o1 EXCEPT !.props = r.props] ELSE o1]

(* m2v2_list_result_extract, called on each reply: unless it redirects to *)
(* a shard, its beans are added (or FALSE if the body does not decode),   *)
(* and TRUNCATED and both markers are overwritten, a missing marker       *)
(* clearing the old one (oio_str_reuse); the properties are taken from    *)
(* the first reply that carries any.  Beans are a set: their order is out *)
(* of the model.                                                           *)
ListResultExtract(out, r) ==
  LET page == [out EXCEPT !.beans = @ \cup r.beans, !.truncated = r.truncated,
                          !.marker = r.marker, !.vmarker = r.vmarker]
      o1 == IF r.status = "REDIRECT_SHARD" THEN out ELSE page
  IN  IF r.status # "REDIRECT_SHARD" /\ ~r.decodes THEN [ok |-> FALSE, out |-> out]
      ELSE [ok |-> TRUE, out |-> IF o1.props = {} THEN [o1 EXCEPT !.props = r.props] ELSE o1]

Init ==
  /\ phase = "idle" /\ request = CHOOSE c \in Calls : c.op = "DESTROY"
  /\ targets = << >> /\ answer = << >> /\ inflight = {}
  /\ base \in [Services -> {"present", "absent"}]
  /\ result = "none"
  /\ replies = << >> /\ ri = 1 /\ lres = NoResult

(* The proxy packs a request; one that is not a DESTROY goes to a single  *)
(* service through gridd_client_exec, out of this model.                  *)
Pack ==
  /\ phase = "idle"
  /\ \E c \in Calls : request' = c
  /\ phase' = "packed"
  /\ UNCHANGED <<targets, base, answer, inflight, result>> /\ UNCHANGED listVars

SendOther ==
  /\ phase = "packed" /\ request.op \notin {"DESTROY"} \cup ListOps
  /\ phase' = "idle"
  /\ UNCHANGED <<request, targets, base, answer, inflight, result>> /\ UNCHANGED listVars

(* A listing is sent with m2v2_list_result_extract as the reply callback,  *)
(* on a result fresh from m2v2_list_result_init.                           *)
StartListing ==
  /\ phase = "packed" /\ request.op \in ListOps
  /\ \E rs \in ListReplies : replies' = rs
  /\ ri' = 1 /\ lres' = NoResult /\ phase' = "listing"
  /\ UNCHANGED <<request, targets, base, answer, inflight, result>>

(* The gridd client hands one reply to the callback; a FALSE return fails *)
(* the request.                                                            *)
ListReply ==
  /\ phase = "listing" /\ ri <= Len(replies)
  /\ LET x == ListResultExtract(lres, replies[ri])
     IN  IF x.ok THEN lres' = x.out /\ ri' = ri + 1 /\ UNCHANGED <<phase, result>>
                 ELSE phase' = "idle" /\ result' = "DECODE_FAILED" /\ UNCHANGED <<lres, ri>>
  /\ UNCHANGED <<request, targets, base, answer, inflight, replies>>

(* The listing is over; m2v2_list_result_clean frees the beans and the     *)
(* properties, clears both markers and resets TRUNCATED.                   *)
ListDone ==
  /\ phase = "listing" /\ ri > Len(replies)
  /\ phase' = "idle" /\ lres' = NoResult
  /\ UNCHANGED <<request, targets, base, answer, inflight, result, replies, ri>>

(* m2v2_remote_execute_DESTROY: one gridd_client_exec to a single target. *)
ExecuteDestroy ==
  /\ phase = "packed" /\ request.op = "DESTROY"
  /\ \E t \in Services : targets' = <<t>> /\ answer' = <<"pending">>
  /\ phase' = "exec"
  /\ UNCHANGED <<request, base, inflight, result>> /\ UNCHANGED listVars

(* gridd_client_exec returns the client's error as it is: a NOT_FOUND is  *)
(* an error here, unlike in DESTROY_many.                                  *)
ExecDone ==
  /\ phase = "exec" /\ answer[1] # "pending"
  /\ result' = answer[1] /\ phase' = "done"
  /\ UNCHANGED <<request, targets, base, answer, inflight>> /\ UNCHANGED listVars

(* 592-604 with the request packed at 596: a NULL array, a failed         *)
(* gridd_client_create_many, or the clients started.                      *)
ExecuteDestroyMany ==
  /\ phase = "packed" /\ request.op = "DESTROY"
  /\ \/ /\ result' = "INTERNAL_ERROR" /\ phase' = "done"
        /\ UNCHANGED <<targets, answer>>
     \/ \E ts \in TargetArrays :
          \/ /\ result' = "CREATE_FAILED" /\ phase' = "done"
             /\ UNCHANGED <<targets, answer>>
          \/ /\ targets' = ts /\ answer' = [i \in DOMAIN ts |-> "pending"]
             /\ phase' = "running" /\ UNCHANGED result
  /\ UNCHANGED <<request, base, inflight>> /\ UNCHANGED listVars

(* The service of entry i processes the DESTROY (the meta2 side).          *)
Process(i) ==
  /\ phase \in {"exec", "running", "done"} /\ i \in DOMAIN targets
  /\ answer[i] = "pending" \/ i \in inflight
  /\ LET t == targets[i] IN
       \E code \in IF base[t] = "present" THEN {"OK", "INTERNAL"} ELSE Ignored :
         /\ base' = IF code = "OK" THEN [base EXCEPT ![t] = "absent"] ELSE base
         /\ answer' = IF answer[i] = "pending" THEN [answer EXCEPT ![i] = code] ELSE answer
  /\ inflight' = inflight \ {i}
  /\ UNCHANGED <<phase, request, targets, result>> /\ UNCHANGED listVars

(* The client of entry i times out, or loses its connection.              *)
Timeout(i) ==
  /\ phase \in {"exec", "running"} /\ i \in DOMAIN targets /\ answer[i] = "pending"
  /\ answer' = [answer EXCEPT ![i] = "NETWORK"]
  /\ \E lost \in BOOLEAN : inflight' = IF lost THEN inflight ELSE inflight \cup {i}
  /\ UNCHANGED <<phase, request, targets, base, result>> /\ UNCHANGED listVars

(* Mutant: the loop does not stop at the first error.                      *)
AggregateWithoutStop(ans) ==
  LET RECURSIVE Agg(_, _)
      Agg(err, i) == IF i > Len(ans) THEN err
                     ELSE Agg(IF ans[i] \in Ignored \cup {"OK"} THEN "OK" ELSE ans[i], i + 1)
  IN  Agg("OK", 1)

(* 606-615: the first error that is not a NOT_FOUND, in array order.      *)
Aggregate(ans) ==
  LET RECURSIVE Agg(_, _)
      Agg(err, i) == IF err # "OK" \/ i > Len(ans) THEN err
                     ELSE Agg(IF ans[i] \in Ignored \cup {"OK"} THEN "OK" ELSE ans[i], i + 1)
  IN  Agg("OK", 1)

(* gridd_clients_loop returns once every client is done, or fails; then   *)
(* the aggregation, skipped when the loop itself failed.                  *)
ClientsLoop ==
  /\ phase = "running"
  /\ \/ /\ \A i \in DOMAIN answer : answer[i] # "pending"
        /\ result' = Aggregate(answer)
     \/ result' = "LOOP_FAILED"
  /\ phase' = "done"
  /\ UNCHANGED <<request, targets, base, answer, inflight>> /\ UNCHANGED listVars

Next ==
  \/ Pack \/ SendOther \/ ExecuteDestroyMany \/ ClientsLoop \/ ExecuteDestroy \/ ExecDone
  \/ StartListing \/ ListReply \/ ListDone
  \/ \E i \in DOMAIN targets : Process(i) \/ Timeout(i)

Spec == Init /\ [][Next]_vars

-----------------------------------------------------------------------------
(* No two different calls of the packers give the same request, so the    *)
(* service can tell what was asked: the five packers sharing M2V2_PUT     *)
(* differ by their fields, and the list flags (NORECURSION negated, the   *)
(* word byte-swapped) keep every combination of list parameters apart.    *)
PackedOperationsDistinct ==
  phase = "packed" => \A c \in Calls : c.msg = request.msg => c = request

(* When DESTROY_many reports success, no service of the target array still *)
(* holds the base, whatever the order and fate (answer, timeout, late     *)
(* delivery) of the replies.                                              *)
DestroySucceedsOnlyIfGone ==
  phase = "done" /\ result = "OK" => \A i \in DOMAIN targets : base[targets[i]] = "absent"

(* A listing whose replies were all accepted returns the continuation of  *)
(* the last page the service sent: TRUNCATED and both markers of the last *)
(* reply that was not a shard redirection, never a marker left over from  *)
(* an earlier page, with the beans of every page and the properties of    *)
(* the first reply carrying some.                                          *)
ListResultOfLastPage ==
  phase = "listing" /\ ri > Len(replies) =>
    LET pages == SelectSeq(replies, LAMBDA r : r.status # "REDIRECT_SHARD")
        last == IF pages = << >> THEN NoResult ELSE pages[Len(pages)]
        withProps == SelectSeq(replies, LAMBDA r : r.props # {})
    IN  /\ lres.beans = UNION {pages[i].beans : i \in DOMAIN pages}
        /\ lres.truncated = last.truncated
        /\ lres.marker = last.marker /\ lres.vmarker = last.vmarker
        /\ lres.props = IF withProps = << >> THEN {} ELSE withProps[1].props

=============================================================================
