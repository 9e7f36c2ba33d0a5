----------------------------- MODULE HttpClient -----------------------------
(***************************************************************************)
(* The HTTP path every call of the connector takes: the SDK's BaseHttpClient *)
(* (uhttp), which caches the bodies of successful GETs, and doRequest of    *)
(* the Workato client, which decides what the caller learns of an answer.   *)
(* An answer is abstracted to its kind; the kinds are the classes of status *)
(* code and body that the two functions tell apart.                         *)
(***************************************************************************)
EXTENDS Naturals

\* The kinds of answer a request can get.
\*   "ok"         200, the body decodes
\*   "truncated"  200, the body breaks off while it is read
\*   "garbled"    200, the whole body is read but does not decode
\*   "retryable"  408, 429 or 5xx: the driver turns it into Unavailable
\*   "denied"     401, 403, 409 or another unexpected status
\*   "refused"    400 or 404
\*   "none"       no response: connection error or timeout
Kinds == {"ok", "truncated", "garbled", "retryable", "denied", "refused", "none"}

\* (mutant) 400 and 404 are dropped as well.
doRequest_OnlyTransport(kind) == IF kind = "none" THEN "error" ELSE "nil"

\* doRequest returns an error only without a response or on 400 and 404; every
\* other error of the driver is dropped.
doRequest(kind) == IF kind \in {"refused", "none"} THEN "error" ELSE "nil"

\* WithResponse fills the result only from a body that is read and decodes;
\* otherwise the caller's zero value, an empty list, stays.
Decoded(kind, data) == IF kind = "ok" THEN data ELSE {}

\* (mutant) Nothing is stored.
Stored_Never(kind) == FALSE

\* The driver stores every 200 it could read, whether or not it decodes.
Stored(kind) == kind \in {"ok", "garbled"}

\* The answers for which the driver reports a grpc status that the syncer and
\* the task runner are meant to retry.
Retryable(kind) == kind \in {"truncated", "retryable"}

\* What a write may have done in the workspace when its answer is of this kind.
Effects(kind) ==
  CASE kind \in {"ok", "truncated", "garbled"} -> {TRUE}
    [] kind \in {"denied", "refused"}          -> {FALSE}
    [] OTHER                                   -> BOOLEAN
=============================================================================
