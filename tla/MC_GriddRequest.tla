-------------------------- MODULE MC_GriddRequest --------------------------
(* Model-checking instance of GriddRequest: the common handlers, one       *)
(* application handler without the local marker, and an unknown NAME.     *)
EXTENDS GriddRequest

MCAppRequests == << Descr("REQ_APP", "app", FALSE) >>

MCRequestNames == {"REQ_PING", "REQ_SETCFG", "REQ_REDIRECT", "REQ_APP", "REQ_NONE"}

(* Well-behaved application handlers reply with final non-network codes. *)
MCAppReplyCodes == {CodeOk, CodeBadRequest}

MCAppErrorCodes == {CodeNetError, CodeOk, CodeNotFound}
(* A single NAME for the runs that follow one request path.             *)
MCPingOnly == {"REQ_PING"}

MCAppOnly == {"REQ_APP"}
=============================================================================
