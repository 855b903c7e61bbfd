---------------------------- MODULE MC_M2Remote ----------------------------
EXTENDS M2Remote

CONSTANTS s1, s2

(* Distinct single bits, as the M2V2_FLAG_* of meta2_macros.h.            *)
MCFlagBit == [ALLVERSION |-> 2, HEADERS |-> 8, NODELETED |-> 1, ALLPROPS |-> 32,
              MPUMARKER_ONLY |-> 4096, NORECURSION |-> 4]

(* The replicas of a base: one or two services, a service listed twice.   *)
MCTargetArrays == {<< >>, <<s1>>, <<s1, s2>>, <<s2, s1>>, <<s1, s1>>}
(* Replies to a listing: one page; a shard redirection then the page; two *)
(* pages, the first truncated with a marker, the last one complete; a     *)
(* page whose body does not decode.                                        *)
Page(ok, bs, t, m, pr) == [status |-> "OK", decodes |-> ok, beans |-> bs, truncated |-> t,
                           marker |-> m, vmarker |-> m, props |-> pr]
Redirect(pr) == [status |-> "REDIRECT_SHARD", decodes |-> FALSE, beans |-> {}, truncated |-> FALSE,
                 marker |-> NoValue, vmarker |-> NoValue, props |-> pr]
MCListReplies ==
  { << Page(TRUE, {"b1"}, TRUE, Value, {<<"k", "v1">>}) >>,
    << Redirect({<<"k", "v1">>}), Page(TRUE, {"b1"}, FALSE, NoValue, {<<"k", "v2">>}) >>,
    << Page(TRUE, {"b1"}, TRUE, Value, {}), Page(TRUE, {"b2"}, FALSE, NoValue, {<<"k", "v2">>}) >>,
    << Page(FALSE, {}, FALSE, NoValue, {}) >> }
=============================================================================
