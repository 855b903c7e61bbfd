----------------------------- MODULE FrameReader -----------------------------
(***************************************************************************)
(* The frame reader of the gridd transport: transport_gridd_notify_input   *)
(* (src/server/transport_gridd.c) assembling length-prefixed frames from   *)
(* the slabs a connection receives, with its size cap, HTTP bouncer and    *)
(* the server-wide memory budget shared by all connections.                *)
(*                                                                         *)
(* Bytes are values of 0..ByteMax (0 is NUL); the 4-byte big-endian        *)
(* header is decoded in base ByteMax+1, so the byte-level algorithm is     *)
(* kept while sizes stay small.  The handling of a complete frame          *)
(* (_client_manage_l4v, modelled in GriddRequest) is the pair of steps     *)
(* Reserve/FinishFrame: it may report that no reply could be sent.       *)
(***************************************************************************)
EXTENDS Integers, Sequences, FiniteSets, TLC

CONSTANTS
  Conns,           \* client connections
  Streams,         \* byte sequences a client may send on a connection
  ByteMax,         \* largest byte value of the scaled byte alphabet
  MaxRequestSize,  \* server_request_max_size
  HttpThreshold,   \* 1024 * 1024 * 1024
  HttpReadahead,   \* OIO_SERVER_HTTP_READAHEAD
  HttpVerbSizes,   \* the sizes detect_http treats as HTTP verbs
  HttpMarker,      \* " HTTP/1."
  MaxMemory,       \* server.request.max_memory
  MaxSlabs         \* bound: slabs queued on a connection before a turn

Bytes == 0..ByteMax
Base == ByteMax + 1

ASSUME ByteMax \in Nat \ {0}
ASSUME HttpReadahead > 4 /\ HttpThreshold + 4 >= HttpReadahead
ASSUME HttpMarker \in Seq(Bytes \ {0}) /\ HttpMarker # << >>
ASSUME Streams \subseteq Seq(Bytes)

MinOf(a, b) == IF a <= b THEN a ELSE b

(* _l4v_size: the first four bytes, big-endian.                           *)
L4vSize(b) == ((b[1] * Base + b[2]) * Base + b[3]) * Base + b[4]

(* g_strstr_len(h, len(h), m): the first match of m, the scan stopping at *)
(* the first NUL byte of h.                                               *)
StrStrLen(h, m) ==
  \E p \in 1..(Len(h) - Len(m) + 1) :
    /\ SubSeq(h, p, p + Len(m) - 1) = m
    /\ \A q \in 1..p : h[q] # 0

-----------------------------------------------------------------------------
VARIABLES
  stream,     \* what the client sends on each connection (fixed)
  pending,    \* bytes of the stream not yet received
  input,      \* clt->input: received slabs, in order
  buf,        \* ctx->gba_l4v
  pc,         \* "read" | "reserve" | "handle" | "closed"
  reserved,   \* bytes reserved for the frame being handled
  memUsed,    \* memory reserved server-wide
  delivered,  \* payloads handed to _client_manage_l4v
  emitted     \* raw replies of the reader itself: "teapot", "exhausted"

vars == <<stream, pending, input, buf, pc, reserved, memUsed, delivered, emitted>>

(* Mutant: a read bound one byte short of max.                           *)
ReadCountShort(b, ds, max) ==
  IF max <= Len(b) + 1 THEN 0 ELSE MinOf(max - Len(b) - 1, Len(ds))

(* gba_read(gba, ds, max): how many bytes it moves from the slab.          *)
ReadCount(b, ds, max) == IF max <= Len(b) THEN 0 ELSE MinOf(max - Len(b), Len(ds))

(* gba_read from the head slab, then data_slab_sequence_unshift of the    *)
(* rest: the new buffer and the new input.                                *)
ReadHead(c, max) ==
  LET ds == Head(input[c])
      n  == ReadCount(buf[c], ds, max)
  IN  [gba |-> buf[c] \o SubSeq(ds, 1, n),
       input |-> << SubSeq(ds, n + 1, Len(ds)) >> \o Tail(input[c])]

ReadInto(c, max) ==
  /\ buf' = [buf EXCEPT ![c] = ReadHead(c, max).gba]
  /\ input' = [input EXCEPT ![c] = ReadHead(c, max).input]

(* network_server_has_free_memory: the precheck, nothing reserved.        *)
HasFreeMemory(size) == memUsed + size <= MaxMemory

(* Mutant: the reservation does not check the budget.                     *)
RequestMemoryUnchecked(size) == TRUE

(* network_server_request_memory: whether the reservation is granted.     *)
RequestMemory(size) == memUsed + size <= MaxMemory

(* detect_http: for a verb-like size, look for the marker in the          *)
(* MIN(len, READAHEAD) bytes that follow the header.  Those run 4 bytes   *)
(* past the end of the buffer; what is read there is whatever the heap     *)
(* holds: junk.                                                           *)
DetectHttp(size, b, junk) ==
  /\ size \in HttpVerbSizes
  /\ StrStrLen(SubSeq(b \o junk, 5, 4 + MinOf(Len(b), HttpReadahead)), HttpMarker)

-----------------------------------------------------------------------------
Init ==
  /\ stream \in [Conns -> Streams]
  /\ pending = stream
  /\ input = [c \in Conns |-> << >>]
  /\ buf = [c \in Conns |-> << >>]
  /\ pc = [c \in Conns |-> "read"]
  /\ reserved = [c \in Conns |-> 0]
  /\ memUsed = 0
  /\ delivered = [c \in Conns |-> << >>]
  /\ emitted = [c \in Conns |-> << >>]

HasData(c) == \E i \in DOMAIN input[c] : input[c][i] # << >>

(* The network layer reads some of the client's bytes into a new slab.    *)
Receive(c) ==
  /\ pc[c] = "read"
  /\ Len(input[c]) < MaxSlabs
  /\ \E k \in 1..Len(pending[c]) :
       /\ input' = [input EXCEPT ![c] = Append(@, SubSeq(pending[c], 1, k))]
       /\ pending' = [pending EXCEPT ![c] = SubSeq(@, k + 1, Len(@))]
  /\ UNCHANGED <<stream, buf, pc, reserved, memUsed, delivered, emitted>>

(* One turn of the loop of transport_gridd_notify_input.                  *)
LoopTurn(c) == pc[c] = "read" /\ HasData(c)

Size(c) == L4vSize(buf[c])

Close(c) == pc' = [pc EXCEPT ![c] = "closed"]

DropEmptySlab(c) ==
  /\ LoopTurn(c) /\ Head(input[c]) = << >>
  /\ input' = [input EXCEPT ![c] = Tail(@)]
  /\ UNCHANGED <<stream, pending, buf, pc, reserved, memUsed, delivered, emitted>>

ReadHeader(c) ==
  /\ LoopTurn(c) /\ Head(input[c]) # << >>
  /\ Len(buf[c]) < 4
  /\ ReadInto(c, 4)
  /\ UNCHANGED <<stream, pending, pc, reserved, memUsed, delivered, emitted>>

(* A frame is ready to be sized: a non-empty head slab, a full header.    *)
Sized(c) == LoopTurn(c) /\ Head(input[c]) # << >> /\ Len(buf[c]) >= 4

SkipEmptyFrame(c) ==
  /\ Sized(c) /\ Size(c) = 0
  /\ buf' = [buf EXCEPT ![c] = << >>]
  /\ UNCHANGED <<stream, pending, input, pc, reserved, memUsed, delivered, emitted>>

RejectTooBig(c) ==
  /\ Sized(c) /\ Size(c) > MaxRequestSize
  /\ buf' = [buf EXCEPT ![c] = << >>]
  /\ Close(c)
  /\ UNCHANGED <<stream, pending, input, reserved, memUsed, delivered, emitted>>

ProbeHttp(c) ==
  /\ Sized(c) /\ Size(c) > 0 /\ Size(c) <= MaxRequestSize
  /\ Len(buf[c]) < HttpReadahead /\ Size(c) > HttpThreshold
  /\ ReadInto(c, HttpReadahead)
  /\ \E junk \in [1..4 -> Bytes] :
       IF DetectHttp(Size(c), buf'[c], junk)
       THEN /\ emitted' = [emitted EXCEPT ![c] = Append(@, "teapot")]
            /\ Close(c)
       ELSE UNCHANGED <<emitted, pc>>
  /\ UNCHANGED <<stream, pending, reserved, memUsed, delivered>>

(* Past the size cap and the HTTP bouncer.                                *)
Admitted(c) ==
  /\ Sized(c) /\ Size(c) > 0 /\ Size(c) <= MaxRequestSize
  /\ ~(Len(buf[c]) < HttpReadahead /\ Size(c) > HttpThreshold)

RejectNoMemory(c) ==
  /\ Admitted(c) /\ ~HasFreeMemory(Size(c))
  /\ emitted' = [emitted EXCEPT ![c] = Append(@, "exhausted")]
  /\ buf' = [buf EXCEPT ![c] = << >>]
  /\ Close(c)
  /\ UNCHANGED <<stream, pending, input, reserved, memUsed, delivered>>

(* gba_read up to the end of the frame; once it is complete the worker    *)
(* goes on to reserve its memory.                                         *)
ReadBody(c) ==
  /\ Admitted(c) /\ HasFreeMemory(Size(c))
  /\ LET gba == ReadHead(c, Size(c) + 4).gba
     IN  /\ buf' = [buf EXCEPT ![c] = gba]
         /\ input' = [input EXCEPT ![c] = ReadHead(c, Size(c) + 4).input]
         /\ pc' = [pc EXCEPT ![c] = IF Len(gba) >= Size(c) + 4 THEN "reserve" ELSE "read"]
  /\ UNCHANGED <<stream, pending, reserved, memUsed, delivered, emitted>>

(* The reservation, made after the precheck: workers of other connections *)
(* may have reserved memory in between.  Granted, the frame goes to        *)
(* _client_manage_l4v; refused, "Memory exhausted" and the connection is  *)
(* closed.                                                                *)
Reserve(c) ==
  /\ pc[c] = "reserve"
  /\ \/ /\ RequestMemory(Size(c))
        /\ memUsed' = memUsed + Size(c)
        /\ reserved' = [reserved EXCEPT ![c] = Size(c)]
        /\ pc' = [pc EXCEPT ![c] = "handle"]
        /\ delivered' = [delivered EXCEPT ![c] = Append(@, SubSeq(buf[c], 5, Size(c) + 4))]
        /\ UNCHANGED <<buf, emitted>>
     \/ /\ ~RequestMemory(Size(c))
        /\ buf' = [buf EXCEPT ![c] = << >>]
        /\ emitted' = [emitted EXCEPT ![c] = Append(@, "exhausted")]
        /\ Close(c)
        /\ UNCHANGED <<reserved, memUsed, delivered>>
  /\ UNCHANGED <<stream, pending, input>>

(* Mutant: the buffer is not reset after the frame was handled.          *)
FinishFrameKeepBuffer(c) ==
  /\ pc[c] = "handle"
  /\ memUsed' = memUsed - reserved[c]
  /\ reserved' = [reserved EXCEPT ![c] = 0]
  /\ \E replySent \in BOOLEAN :
       pc' = [pc EXCEPT ![c] = IF replySent THEN "read" ELSE "closed"]
  /\ UNCHANGED <<stream, pending, input, buf, delivered, emitted>>

(* Mutant: the reservation is released only when a reply was sent.       *)
FinishFrameReleaseOnReply(c) ==
  /\ pc[c] = "handle"
  /\ buf' = [buf EXCEPT ![c] = << >>]
  /\ \E replySent \in BOOLEAN :
       /\ pc' = [pc EXCEPT ![c] = IF replySent THEN "read" ELSE "closed"]
       /\ memUsed' = IF replySent THEN memUsed - reserved[c] ELSE memUsed
       /\ reserved' = [reserved EXCEPT ![c] = IF replySent THEN 0 ELSE @]
  /\ UNCHANGED <<stream, pending, input, delivered, emitted>>

(* _client_manage_l4v returned: release the reservation; no reply sent    *)
(* closes the connection, otherwise the buffer is reset.                  *)
FinishFrame(c) ==
  /\ pc[c] = "handle"
  /\ memUsed' = memUsed - reserved[c]
  /\ reserved' = [reserved EXCEPT ![c] = 0]
  /\ buf' = [buf EXCEPT ![c] = << >>]
  /\ \E replySent \in BOOLEAN :
       pc' = [pc EXCEPT ![c] = IF replySent THEN "read" ELSE "closed"]
  /\ UNCHANGED <<stream, pending, input, delivered, emitted>>

-----------------------------------------------------------------------------
Turn(c) ==
  \/ DropEmptySlab(c) \/ ReadHeader(c) \/ SkipEmptyFrame(c) \/ RejectTooBig(c)
  \/ ProbeHttp(c) \/ RejectNoMemory(c) \/ ReadBody(c) \/ Reserve(c)
  \/ FinishFrame(c)

Next == \E c \in Conns : Receive(c) \/ Turn(c)

(* A worker runs notify_input while the connection has input, and every   *)
(* handler returns.                                                       *)
Fairness == \A c \in Conns : WF_vars(Turn(c))

Spec == Init /\ [][Next]_vars /\ Fairness

-----------------------------------------------------------------------------
(* The reference: the non-empty frames of a byte stream, in order.        *)
RECURSIVE FramesOf(_)
FramesOf(s) ==
  IF Len(s) < 4 \/ Len(s) < 4 + L4vSize(s) THEN << >>
  ELSE LET size == L4vSize(s)
           rest == FramesOf(SubSeq(s, size + 5, Len(s)))
       IN  IF size = 0 THEN rest ELSE << SubSeq(s, 5, size + 4) >> \o rest

TypeOK ==
  /\ pending \in [Conns -> Seq(Bytes)] /\ input \in [Conns -> Seq(Seq(Bytes))]
  /\ buf \in [Conns -> Seq(Bytes)]
  /\ pc \in [Conns -> {"read", "reserve", "handle", "closed"}]
  /\ reserved \in [Conns -> 0..MaxMemory] /\ memUsed \in 0..MaxMemory
  /\ delivered \in [Conns -> Seq(Seq(Bytes))]
  /\ emitted \in [Conns -> Seq({"teapot", "exhausted"})]

(* Whatever the slab boundaries, the payloads handed to the dispatcher    *)
(* are, in order, the non-empty frames of what the client sent.           *)
FramesIntact ==
  \A c \in Conns :
    LET f == FramesOf(stream[c])
    IN  Len(delivered[c]) <= Len(f) /\ delivered[c] = SubSeq(f, 1, Len(delivered[c]))

(* The server-wide reservation is exactly the sum of the sizes of the     *)
(* frames being handled: nothing leaks, nothing is released twice.        *)
MemoryAccounted ==
  /\ memUsed = LET Sum[S \in SUBSET Conns] ==
                     IF S = {} THEN 0
                     ELSE LET x == CHOOSE x \in S : TRUE IN reserved[x] + Sum[S \ {x}]
               IN  Sum[Conns]
  /\ \A c \in Conns : reserved[c] > 0 => pc[c] = "handle"

(* Once the client has sent everything, the connection ends up either    *)
(* closed or having delivered every complete frame and waiting for more.   *)
AllFramesDelivered ==
  \A c \in Conns :
    pending[c] = << >> ~>
      (pc[c] = "closed" \/ (pc[c] = "read" /\ delivered[c] = FramesOf(stream[c])))

(* The 418 reply goes only to a client whose bytes carry the marker.      *)
TeapotOnlyForHttp ==
  \A c \in Conns :
    (\E i \in DOMAIN emitted[c] : emitted[c][i] = "teapot") =>
      StrStrLen(SubSeq(buf[c], 5, Len(buf[c])), HttpMarker)

=============================================================================
