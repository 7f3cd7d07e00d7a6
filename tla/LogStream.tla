------------------------------ MODULE LogStream ------------------------------
(***************************************************************************)
(* stream_execution_container_log (client.py): opening a log stream, which  *)
(* retries the whole request around the layers of HttpRequest.  A streamed  *)
(* response holds its connection until it is closed, so every response that *)
(* a layer supersedes must be closed, and the one accepted must not be.     *)
(* Requests other than streamed ones are as in HttpRequest.                 *)
(***************************************************************************)
EXTENDS HttpRequest

CONSTANT MaxOpens  \* _MAX_STREAM_OPEN_ATTEMPTS

ASSUME MaxOpensOK == MaxOpens \in Nat \ {0}

VARIABLES
  opens,  \* attempt: requests made so far to open the stream
  conns,  \* streamed responses whose connection is not closed
  live,   \* the response in hand is one of them
  stage   \* "opening", "open", "read", "raised"; "plain" for other requests

stream == <<opens, conns, live, stage>>
streamVars == <<vars, stream>>

Streamed == method = "stream"

StreamInit == /\ Init
              /\ opens = 1 /\ conns = 0 /\ live = FALSE
              /\ stage = IF Streamed THEN "opening" ELSE "plain"

Arrive == /\ conns' = IF Streamed THEN conns + 1 ELSE conns
          /\ live' = Streamed
          /\ UNCHANGED <<opens, stage>>

CloseKept == UNCHANGED stream  \* mutant: the 401 stays open while auth refreshes
Close == /\ conns' = IF live THEN conns - 1 ELSE conns
         /\ live' = FALSE
         /\ UNCHANGED <<opens, stage>>

(* The layers below.  Redirects are closed in the step that receives them.   *)
RequestStep ==
  \/ (\E a \in Responses : Answer(a)) /\ Arrive
  \/ (\E delay \in RateDelays : RepeatLimited(delay)) /\ Close
  \/ RefreshAuth /\ Close
  \/ /\ \/ TakeSlot \/ Refuse
        \/ \E a \in Failures : NoAnswer(a)
        \/ \E get \in BOOLEAN : Follow(get)
        \/ CrossOrigin
        \/ \E delay \in TransientDelays : ReplayTransient(delay)
        \/ LeaveTransient \/ LeaveRate \/ Return
     /\ UNCHANGED stream

-----------------------------------------------------------------------------
(* One attempt is over. *)

Attempted == stage = "opening" /\ pc = "done"

(* 500, 502, 503, 504; a connection or TLS error or a timeout.  An exception  *)
(* of redirects, RetryError and the statuses below 500 are final.            *)
RetryableStatus == outcome \in {"5xx", "503"}
RetryableFailure == outcome = "raised"
FinalFailure == \/ outcome = "exhausted"
                \/ outcome = "raised" /\ answer = "fatal"
                \/ outcome \in {"4xx", "401", "429"}

OpenAgain ==
  /\ Attempted /\ (RetryableStatus \/ RetryableFailure)
  /\ opens < MaxOpens
  /\ opens' = opens + 1
  /\ conns' = IF live THEN conns - 1 ELSE conns
  /\ live' = FALSE
  /\ pc' = "slot" /\ phase' = "first" /\ round' = 0 /\ backoff' = 1 /\ held' = {}
  /\ hops' = 0 /\ current' = "asked" /\ answer' = "ok"
  /\ attempts' = MaxAttempts - 1 /\ sends' = MaxSends /\ left' = MaxElapsed
  /\ slot' = TRUE /\ heard' = FALSE /\ outcome' = "none"
  /\ UNCHANGED <<method, applied, stage>>

GiveUpOpening ==
  /\ Attempted
  /\ FinalFailure \/ ((RetryableStatus \/ RetryableFailure) /\ opens = MaxOpens)
  /\ stage' = "raised"
  /\ conns' = IF live THEN conns - 1 ELSE conns
  /\ live' = FALSE
  /\ UNCHANGED <<vars, opens>>

(* The accepted stream loses its read timeout; if that cannot be done, it is *)
(* closed and an error raised.                                               *)
Accept == /\ Attempted /\ outcome = "ok"
          /\ \/ stage' = "open" /\ UNCHANGED <<vars, opens, conns, live>>
             \/ /\ stage' = "raised"
                /\ conns' = conns - 1 /\ live' = FALSE
                /\ UNCHANGED <<vars, opens>>

(* iter_execution_container_log_lines: the stream ends, drops, or its reader *)
(* stops early.                                                              *)
EndStream == /\ stage = "open"
             /\ stage' = "read"
             /\ conns' = conns - 1 /\ live' = FALSE
             /\ UNCHANGED <<vars, opens>>

Over == pc = "done" /\ stage # "opening"

StreamSteps == RequestStep \/ OpenAgain \/ GiveUpOpening \/ Accept

Finished == Over /\ stage # "open" /\ UNCHANGED streamVars

StreamNext == StreamSteps \/ EndStream \/ Finished

(* As in HttpRequest; how long a stream is read is its reader's choice.      *)
StreamSpec == StreamInit /\ [][StreamNext]_streamVars /\ WF_streamVars(StreamSteps)

-----------------------------------------------------------------------------
(* Through retries, refreshes, redirects and failures no more than one       *)
(* connection is held, the one of the response in hand; a failed open leaves *)
(* none, and an opened stream is handed over alive.                          *)
OneConnection ==
  /\ conns = IF live THEN 1 ELSE 0
  /\ stage \in {"raised", "read"} => conns = 0
  /\ stage = "open" => live /\ outcome = "ok"

=============================================================================
