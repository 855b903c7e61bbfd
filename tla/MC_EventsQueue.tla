---------------------------- MODULE MC_EventsQueue ----------------------------
EXTENDS EventsQueue

CONSTANTS p1, p2, e1, e2, e3, e4, t1

(* Two producers: p1 sends a plain event then an overwritable one, p2    *)
(* overwrites the same tag, sends with an empty tag, and flushes.         *)
MCScript ==
  [p \in {p1, p2} |->
     IF p = p1
     THEN << [op |-> "send", tag |-> NoTag, ev |-> e1],
             [op |-> "overwritable", tag |-> t1, ev |-> e2] >>
     ELSE << [op |-> "overwritable", tag |-> t1, ev |-> e3],
             [op |-> "overwritable", tag |-> NoTag, ev |-> e4],
             [op |-> "flush", tag |-> t1, ev |-> NoEvent] >>]

(* A kafka queue alone, a fanout over two endpoints, one whose second     *)
(* token is not recognised, one with a single beanstalkd endpoint.        *)
MCConfigs == { <<"kafka">>, <<"beanstalkd">>, <<"beanstalkd", "kafka">>, <<"kafka", "bad">> }

=============================================================================
