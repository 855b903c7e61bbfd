---------------------------- MODULE MC_PromStats ----------------------------
EXTENDS PromStats

(* Names of statistics: a kind word, then words joined by " " or ".".     *)
Words == {"req", "hits", "time", "lag", "cnx", "client", "thread", "active", "PING"}

Alt(ws, ss) == [i \in 1..(2 * Len(ws) - 1) |->
                  IF i % 2 = 1 THEN ws[(i + 1) \div 2] ELSE ss[i \div 2]]

NamesOf(n) == {Alt(<<k>> \o ws, ss) : k \in {"counter", "gauge"},
                                     ws \in [1..(n - 1) -> Words],
                                     ss \in [1..(n - 1) -> Seps]}

Stat(k) == [which |-> k, value |-> 7]

(* Longer names on the req branch, where g_strsplit's bound of 4 matters. *)
LongNames == {Alt(<<"counter", "req", "hits", "PING", w>>, <<" ", ".", ".", ".">>) : w \in {"PING", "lag"}}

Curated == {<<"counter", " ", "req", ".", "lag", ".", "PING">>,
            <<"counter", " ", "req", ".", "hits">>,
            <<"counter", " ", "cnx", ".", "client">>,
            <<"gauge", " ", "thread", ".", "active">>}

MCStatNames == NamesOf(1) \cup NamesOf(2) \cup NamesOf(3) \cup NamesOf(4) \cup LongNames

Curated2 == Curated \cup {<<"counter", " ", "req", ".", "time", ".", "PING">>,
                         <<"gauge", " ", "cnx", ".", "client">>}

MCSnapshots == {<< Stat(k) >> : k \in Curated2} \cup {<< Stat(a), Stat(b) >> : a, b \in Curated2}

(* For concurrent workers: the pairs of curated statistics only.          *)
MCRaceSnapshots == {<< Stat(a), Stat(b) >> : a, b \in Curated}
====
