--------------------------- MODULE MC_FrameReader ---------------------------
EXTENDS FrameReader

(* Scaled sizes: bytes are 0..2, so a header encodes sizes 0..80.         *)
Header(p) == << p \div 27, (p \div 9) % 3, (p \div 3) % 3, p % 3 >>
Frame(p) == Header(p) \o [i \in 1..p |-> 1]

(* A request, an empty keep-alive frame and the start of the next one; a  *)
(* lone request competing for memory; an HTTP request line; a frame over  *)
(* the size cap; a large binary frame that passes the bouncer but not the *)
(* memory budget.                                                         *)
MCStreams ==
  { Frame(1) \o Frame(0) \o << 0 >>,
    Frame(2),
    Header(54) \o << 1, 2, 2 >>,
    Header(61) \o << 1 >>,
    Header(45) \o << 1 >> }

MCMarker == << 2, 2 >>

(* An HTTP verb-sized header followed by a single byte.                   *)
MCShortHttp == { Header(54) \o << 2 >> }
=============================================================================
