------------------------------ MODULE PromStats ------------------------------
(***************************************************************************)
(* The STATS handler of the gridd transport (src/server/transport_gridd.c):*)
(* dispatch_STATS, run by any worker thread, with its two encodings of the *)
(* statistics: network_server_stats_to_prometheus and                     *)
(* _convert_stats_to_text.                                                *)
(*                                                                         *)
(* A statistic's name is a sequence of atoms: words and the separators    *)
(* " " and "."; GStrSplit is g_strsplit over it, so the conversion keeps  *)
(* the parsing of the code while names stay small.  A Prometheus line is *)
(* a record (metric, labels, whether the value is divided into seconds).  *)
(***************************************************************************)
EXTENDS Integers, Sequences, FiniteSets

CONSTANTS
  Workers,      \* worker threads of the server's pool
  Snapshots,    \* arrays network_server_stat_getall may return
  StatNames,    \* names the conversion is checked on, one by one
  Formats,      \* values of the FORMAT field: "prometheus", others, absent
  ServiceId,    \* oio_server_service_id, or NoServiceId
  NoServiceId,
  Volume,       \* oio_server_volume
  Namespace     \* oio_server_namespace

Seps == {" ", "."}

(* g_strsplit(s, sep, max): at most max pieces, the last one keeping the  *)
(* rest; an empty string gives no piece at all.                            *)
RECURSIVE GStrSplit(_, _, _)
GStrSplit(s, sep, max) ==
  IF s = << >> THEN << >>
  ELSE IF max = 1 \/ \A i \in DOMAIN s : s[i] # sep THEN << s >>
  ELSE LET i == CHOOSE j \in DOMAIN s :
                  s[j] = sep /\ \A q \in 1..(j - 1) : s[q] # sep
       IN  << SubSeq(s, 1, i - 1) >> \o GStrSplit(SubSeq(s, i + 1, Len(s)), sep, max - 1)

Is(piece, w) == piece = << w >>

(* The labels every line carries, service_id only when configured.        *)
CommonLabels ==
  (IF ServiceId = NoServiceId THEN << >> ELSE << <<"service_id", ServiceId>> >>)
  \o << <<"volume", Volume>>, <<"namespace", Namespace>> >>

PromLine(suffix, extra, seconds, st) ==
  [metric |-> "meta_" \o suffix, labels |-> CommonLabels \o extra,
   seconds |-> seconds, value |-> st.value]

ReqSuffix == [hits |-> "requests_total", time |-> "requests_duration_second_total",
              lag |-> "requests_lag_second_total"]

(* Mutant: a lag counter reported without the conversion to seconds.     *)
NeedsSecondsLagMissed(kind) == kind = "time"

(* needs_seconds: time and lag counters are microseconds.                  *)
NeedsSeconds(kind) == kind \in {"time", "lag"}

(* One turn of the loop of network_server_stats_to_prometheus: the lines  *)
(* it appends (none or one) for the statistic st.                          *)
StatLines(st) ==
  LET stat == GStrSplit(st.which, " ", 3)
      tags == GStrSplit(stat[2], ".", 4)
      counter == Is(stat[1], "counter")
      req == counter /\ Len(tags) >= 1 /\ Is(tags[1], "req")
      kind == IF \E x \in DOMAIN ReqSuffix : Is(tags[2], x)
              THEN CHOOSE x \in DOMAIN ReqSuffix : Is(tags[2], x) ELSE "none"
  IN  CASE Len(stat) # 2 -> << >>
        [] req /\ Len(tags) # 3 -> << >>
        [] req /\ kind # "none" ->
             << PromLine(ReqSuffix[kind], << <<"method", tags[3]>> >>, NeedsSeconds(kind), st) >>
        [] counter /\ Len(tags) = 2 /\ Is(tags[1], "cnx") ->
             << PromLine("connections_total", << <<"type", tags[2]>> >>, FALSE, st) >>
        [] Is(stat[1], "gauge") /\ stat[2] = <<"thread", ".", "active">> ->
             << PromLine("threads_active", << >>, FALSE, st) >>
        [] Is(stat[1], "gauge") /\ stat[2] = <<"cnx", ".", "client">> ->
             << PromLine("connections_active", << >>, FALSE, st) >>
        [] OTHER -> << >>

(* Whether that turn logs "not supported" (the error label).  The test of *)
(* line 970-972 is kept as written: its || makes every two-part req.*     *)
(* name a silent skip.                                                     *)
StatWarned(st) ==
  LET stat == GStrSplit(st.which, " ", 3)
      tags == GStrSplit(stat[2], ".", 4)
      req2 == Len(stat) = 2 /\ Is(stat[1], "counter") /\ Len(tags) = 2 /\ Is(tags[1], "req")
  IN  /\ StatLines(st) = << >>
      /\ ~(req2 /\ (~Is(tags[2], "hits") \/ ~Is(tags[2], "time")))

RECURSIVE ToPrometheus(_)
ToPrometheus(stats) ==
  IF stats = << >> THEN << >> ELSE StatLines(Head(stats)) \o ToPrometheus(Tail(stats))

(* _convert_stats_to_text: "name value" per statistic, then the volume    *)
(* and service_id trailers when they are configured.                      *)
ConvertStatsToText(stats) ==
  [i \in DOMAIN stats |-> <<stats[i].which, stats[i].value>>]
  \o << <<"config volume", Volume>> >>
  \o (IF ServiceId = NoServiceId THEN << >> ELSE << <<"config service_id", ServiceId>> >>)

-----------------------------------------------------------------------------
VARIABLES
  pc,       \* worker: "idle" | "built" | "done"
  body,     \* the function-level static of dispatch_STATS
  request,  \* per worker: the FORMAT and the statistics it read
  built,    \* per worker: the buffer its own conversion produced
  reply     \* per worker: the body attached to its reply

vars == <<pc, body, request, built, reply>>

NoBody == [owner |-> "none", data |-> << >>]

Init ==
  /\ pc = [w \in Workers |-> "idle"]
  /\ body = NoBody
  /\ request = [w \in Workers |-> [format |-> "none", stats |-> << >>]]
  /\ built = [w \in Workers |-> NoBody]
  /\ reply = [w \in Workers |-> NoBody]

(* dispatch_STATS up to the conversion: the FORMAT field, the statistics, *)
(* and the new buffer stored into the static.  A worker takes STATS      *)
(* requests one after another.                                            *)
StatsCollect(w) ==
  /\ pc[w] \in {"idle", "done"}
  /\ \E f \in Formats, s \in Snapshots :
       LET b == [owner |-> w,
                 data |-> IF f = "prometheus" THEN ToPrometheus(s) ELSE ConvertStatsToText(s)]
       IN  /\ body' = b
           /\ built' = [built EXCEPT ![w] = b]
           /\ request' = [request EXCEPT ![w] = [format |-> f, stats |-> s]]
  /\ pc' = [pc EXCEPT ![w] = "built"]
  /\ reply' = [reply EXCEPT ![w] = NoBody]

(* no_access, add_body(body) with whatever the static holds now, and the  *)
(* final reply.                                                           *)
StatsSend(w) ==
  /\ pc[w] = "built"
  /\ reply' = [reply EXCEPT ![w] = body]
  /\ pc' = [pc EXCEPT ![w] = "done"]
  /\ UNCHANGED <<body, request, built>>

Next == \E w \in Workers : StatsCollect(w) \/ StatsSend(w)

Spec == Init /\ [][Next]_vars /\ \A w \in Workers : WF_vars(StatsSend(w))

-----------------------------------------------------------------------------
(* The mapping of spec.md 4.7, written from the name of the statistic:    *)
(* "counter req.<hits|time|lag>.<method>", "counter cnx.<type>",          *)
(* "gauge thread.active", "gauge cnx.client"; anything else gives no line.*)
SpecLines(st) ==
  LET k == st.which
      L(m, extra, sec) == << [metric |-> m, labels |-> CommonLabels \o extra,
                              seconds |-> sec, value |-> st.value] >>
      ReqName == [hits |-> "meta_requests_total",
                  time |-> "meta_requests_duration_second_total",
                  lag  |-> "meta_requests_lag_second_total"]
  IN  CASE Len(k) = 7 /\ SubSeq(k, 1, 4) = <<"counter", " ", "req", ".">>
             /\ k[5] \in DOMAIN ReqName /\ k[6] = "." /\ k[7] \notin Seps ->
             L(ReqName[k[5]], << <<"method", <<k[7]>> >> >>, k[5] # "hits")
        [] Len(k) = 5 /\ SubSeq(k, 1, 4) = <<"counter", " ", "cnx", ".">> /\ k[5] \notin Seps ->
             L("meta_connections_total", << <<"type", <<k[5]>> >> >>, FALSE)
        [] k = <<"gauge", " ", "thread", ".", "active">> -> L("meta_threads_active", << >>, FALSE)
        [] k = <<"gauge", " ", "cnx", ".", "client">> -> L("meta_connections_active", << >>, FALSE)
        [] OTHER -> << >>

RECURSIVE SpecPrometheus(_)
SpecPrometheus(stats) ==
  IF stats = << >> THEN << >> ELSE SpecLines(Head(stats)) \o SpecPrometheus(Tail(stats))

(* A STATS request with FORMAT=prometheus is answered with exactly the    *)
(* lines spec.md 4.7 maps its statistics to, in their order: the parsing  *)
(* of network_server_stats_to_prometheus (g_strsplit, the req/cnx/gauge   *)
(* branches, needs_seconds) agrees with the mapping for every name.       *)
PrometheusMatchesSpec ==
  /\ \A k \in StatNames :
       StatLines([which |-> k, value |-> 7]) = SpecLines([which |-> k, value |-> 7])
  /\ \A w \in Workers :
       pc[w] = "done" /\ request[w].format = "prometheus"
         => reply[w].data = SpecPrometheus(request[w].stats)

(* Every STATS reply carries the buffer its own worker built: the static  *)
(* body of dispatch_STATS is not overwritten by a concurrent STATS        *)
(* between the conversion and add_body.                                   *)
ReplyCarriesOwnBody ==
  \A w \in Workers : pc[w] = "done" => reply[w] = built[w]

=============================================================================
