---------------------------- MODULE HttpRequest ----------------------------
(***************************************************************************)
(* One logical request of TangleApiClient._make_request (client.py): the    *)
(* redirect, transient-retry, rate-limit and auth-refresh layers, which all *)
(* draw on one budget of attempts, sends and time, against a server that    *)
(* may apply the request, refuse it, redirect it, fail, or not answer.      *)
(*                                                                          *)
(* Time is the time left to the budget's deadline.  An answer is named by   *)
(* the class of statuses the layers tell apart.                             *)
(***************************************************************************)
EXTENDS Integers

CONSTANTS
  Methods,       \* bound: the requests considered, a subset of MethodKinds
  MaxAttempts,   \* _MAX_GET_RETRIES + 1
  MaxSends,      \* _MAX_PHYSICAL_SENDS
  MaxRedirects,  \* _MAX_REDIRECTS
  MaxRounds,     \* _MAX_RATE_LIMIT_RETRIES
  MaxElapsed,    \* _MAX_RETRY_ELAPSED_SECONDS
  MaxBackoff,    \* _MAX_GET_RETRY_BACKOFF_SECONDS
  MaxRetryAfter, \* _MAX_RETRY_AFTER_SECONDS
  RetryAfters,   \* the values of the Retry-After headers servers send
  SendTime,      \* bound: the longest one send, or one refresh, takes
  SlotTime,      \* bound: the longest wait for a slot of the rate limiter
  SeeOther       \* servers may redirect a mutation they have applied

\* A GET, a GET whose answer is streamed, or a request that changes something.
MethodKinds == {"get", "stream", "mutation"}

ASSUME ConstantsOK ==
  /\ Methods \subseteq MethodKinds /\ Methods # {}
  /\ MaxAttempts \in Nat \ {0} /\ MaxSends \in Nat \ {0}
  /\ MaxRedirects \in Nat /\ MaxRounds \in Nat
  /\ MaxElapsed \in Nat \ {0} /\ MaxBackoff \in Nat \ {0}
  /\ MaxRetryAfter \in Nat /\ RetryAfters \subseteq Nat
  /\ SendTime \in Nat /\ SlotTime \in Nat
  /\ SeeOther \in BOOLEAN

VARIABLES
  method,    \* what the caller asked for, which no step changes
  pc,        \* "slot", "send", "transient", "rate", "auth", "done"
  phase,     \* "first", or "refreshed" after the 401 auth refresh
  round,     \* rate_limit_round
  backoff,   \* backoff of the transient layer
  hops,      \* redirects followed in this attempt
  current,   \* "asked", or "get" once a redirect has changed the method
  answer,    \* what the layer below passes up
  held,      \* the last_response of each layer: "transient", "rate"
  attempts,  \* budget.attempts
  sends,     \* budget.sends
  left,      \* time to budget.deadline
  slot,      \* budget.first_slot_taken
  applied,   \* how often the server has applied the mutation
  heard,     \* a response other than a redirect has arrived
  outcome    \* what the caller gets

budget == <<attempts, sends, left, slot>>
layers == <<method, phase, round, backoff, held>>
vars == <<pc, layers, hops, current, answer, budget, applied, heard, outcome>>

Responses == {"ok", "4xx", "401", "429", "5xx", "503"}
Failures == {"transport", "fatal"}   \* retryable, or not: TLS, redirects
Answers == Responses \cup Failures \cup {"exhausted"}

Mutates == method = "mutation" /\ current = "asked"

(* Only a GET that is not streamed may be sent again after a failure. *)
ReplayableMutations == method # "stream"  \* mutant: mutations are replayed
Replayable == method = "get"

(* budget.can_retry and budget.allows_wait *)
CanRetry == attempts > 0 /\ sends > 0 /\ left > 0
AllowsTruncated(delay) == TRUE  \* mutant: waits are not checked
Allows(delay) == delay < left

Init == /\ method \in Methods
        /\ pc = "slot"
        /\ phase = "first" /\ round = 0 /\ backoff = 1 /\ held = {}
        /\ hops = 0 /\ current = "asked" /\ answer = "ok"
        /\ attempts = MaxAttempts - 1   \* start_attempt of the first entry
        /\ sends = MaxSends
        /\ left = MaxElapsed
        /\ slot = TRUE
        /\ applied = 0 /\ heard = FALSE /\ outcome = "none"

-----------------------------------------------------------------------------
(* The redirect layer: one attempt. *)

(* Enter it anew: budget.start_attempt, and the request as it was asked. *)
Enter == /\ pc' = "slot"
         /\ hops' = 0
         /\ current' = "asked"
         /\ attempts' = attempts - 1
         /\ UNCHANGED <<method, answer, sends, slot, applied, heard, outcome>>

Pass(a) == pc' = "transient" /\ answer' = a

(* Wait for the limiter, unless that would outlast the deadline. *)
TakeSlot == /\ pc = "slot"
            /\ slot' = FALSE
            /\ IF slot \/ left <= 0
                 THEN pc' = "send" /\ UNCHANGED <<left, answer>>
                 ELSE \E w \in 0..SlotTime :
                        IF w > left
                          THEN /\ Pass("exhausted")  \* perhaps after waiting
                               /\ \E s \in 0..left : left' = left - s
                          ELSE pc' = "send" /\ left' = left - w /\ answer' = answer
            /\ UNCHANGED <<layers, hops, current, attempts, sends, applied,
                           heard, outcome>>

Admitted == sends > 0 /\ left > 0

Refuse == /\ pc = "send" /\ ~Admitted
          /\ Pass("exhausted")
          /\ UNCHANGED <<layers, hops, current, budget, applied, heard, outcome>>

Send == /\ pc = "send" /\ Admitted
        /\ sends' = sends - 1
        /\ \E d \in 0..SendTime : left' = left - d
        /\ UNCHANGED <<layers, attempts, slot, outcome>>

Applies == applied' = IF Mutates THEN applied + 1 ELSE applied
DoesNotApply == applied' = applied

(* A 429 or 401 is refused; a 5xx may come from behind the server's work. *)
Answer(a) == /\ Send
             /\ Pass(a)
             /\ heard' = TRUE
             /\ IF a = "ok" THEN Applies
                ELSE DoesNotApply \/ (a \in {"5xx", "503"} /\ Applies)
             /\ UNCHANGED <<hops, current>>

NoAnswer(a) == /\ Send
               /\ Pass(a)
               /\ DoesNotApply \/ Applies
               /\ UNCHANGED <<hops, current, heard>>

(* A redirect of the same origin is followed, up to MaxRedirects times; one  *)
(* that changes the method to GET may report what the mutation has done.     *)
Follow(get) ==
  /\ Send
  /\ hops' = hops + 1
  /\ current' = IF get THEN "get" ELSE current
  /\ IF hops < MaxRedirects THEN pc' = "slot" /\ answer' = answer
                            ELSE Pass("fatal")
  /\ DoesNotApply \/ (get /\ SeeOther /\ Applies)
  /\ heard' = heard

CrossOrigin == /\ Send
               /\ Pass("fatal")
               /\ DoesNotApply
               /\ UNCHANGED <<hops, current, heard>>

Hop == \/ TakeSlot \/ Refuse
       \/ \E a \in Responses : Answer(a)
       \/ \E a \in Failures : NoAnswer(a)
       \/ \E get \in BOOLEAN : Follow(get)
       \/ CrossOrigin

-----------------------------------------------------------------------------
(* The transient layer: a GET is sent again after a transport failure or a   *)
(* 5xx, with doubling backoff, or after what a 503 asks for.                 *)

Least(a, b) == IF a < b THEN a ELSE b
Greatest(a, b) == IF a < b THEN b ELSE a

TransientDelays ==
  LET delay == Least(backoff, MaxBackoff)
  IN  {delay} \cup IF answer = "503"
                     THEN {Greatest(delay, Least(r, MaxRetryAfter)) : r \in RetryAfters}
                     ELSE {}

(* Sleep, if the budget allows, and start the next attempt. *)
Retry(delay) == /\ CanRetry /\ Allows(delay)
                /\ left' = left - delay
                /\ Enter

Transient(a) == a \in {"transport", "5xx", "503"}

ReplayTransient(delay) ==
  /\ pc = "transient" /\ Replayable /\ Transient(answer)
  /\ Retry(delay)
  /\ backoff' = 2 * backoff
  /\ held' = IF answer = "transport" THEN held ELSE held \cup {"transient"}
  /\ UNCHANGED <<phase, round>>

(* What the layer returns; out of sends, it is the last 5xx it had. *)
TransientResultRaises == answer  \* mutant: a 5xx in hand is forgotten
TransientResult ==
  IF answer = "exhausted" /\ "transient" \in held THEN "5xx" ELSE answer

Finish(result) == pc' = "done" /\ outcome' = result

LeaveTransient ==
  /\ pc = "transient"
  /\ \/ ~Replayable \/ ~Transient(answer) \/ ~CanRetry
     \/ \E delay \in TransientDelays : ~Allows(delay)
  /\ IF answer \in Failures
       THEN Finish("raised") /\ answer' = answer
       ELSE pc' = "rate" /\ answer' = TransientResult /\ outcome' = outcome
  /\ UNCHANGED <<layers, hops, current, budget, applied, heard>>

-----------------------------------------------------------------------------
(* The rate-limit layer: after a 429 the whole request is made again.        *)

RateDelays == {Least(2^round, MaxRetryAfter)}
                 \cup {Least(r, MaxRetryAfter) : r \in RetryAfters}

MayRepeat == Replayable \/ round < MaxRounds

RepeatLimited(delay) ==
  /\ pc = "rate" /\ answer = "429" /\ MayRepeat
  /\ Retry(delay)
  /\ round' = round + 1
  /\ held' = {"rate"}
  /\ backoff' = 1
  /\ UNCHANGED phase

RateResultRaises == answer  \* mutant: a 429 in hand is forgotten
RateResult ==
  IF answer = "exhausted" /\ "rate" \in held THEN "429" ELSE answer

LeaveRate ==
  /\ pc = "rate"
  /\ \/ answer # "429" \/ ~MayRepeat \/ ~CanRetry
     \/ \E delay \in RateDelays : ~Allows(delay)
  /\ pc' = "auth" /\ answer' = RateResult
  /\ UNCHANGED <<layers, hops, current, budget, applied, heard, outcome>>

-----------------------------------------------------------------------------
(* _make_request: a first 401 refreshes the credentials and the layers below *)
(* run once more; if they get no answer at all, the 401 is the answer.       *)

(* mutant: every 401 refreshes, with a budget of its own *)
RefreshAuthFreshBudget ==
  /\ pc = "auth" /\ answer = "401"
  /\ phase' = "refreshed"
  /\ round' = 0 /\ backoff' = 1 /\ held' = {}
  /\ pc' = "slot" /\ hops' = 0 /\ current' = "asked"
  /\ attempts' = MaxAttempts - 1 /\ sends' = MaxSends /\ left' = MaxElapsed
  /\ UNCHANGED <<method, answer, slot, applied, heard, outcome>>

RefreshAuth ==
  /\ pc = "auth" /\ phase = "first" /\ answer = "401"
  /\ CanRetry
  /\ phase' = "refreshed"
  /\ round' = 0 /\ backoff' = 1 /\ held' = {}
  /\ \E d \in 0..SendTime : left' = left - d
  /\ Enter

Return ==
  /\ pc = "auth"
  /\ phase = "refreshed" \/ answer # "401" \/ ~CanRetry
  /\ Finish(IF phase = "refreshed" /\ answer = "exhausted" THEN "401" ELSE answer)
  /\ UNCHANGED <<layers, hops, current, answer, budget, applied, heard>>

-----------------------------------------------------------------------------
Next == \/ Hop
        \/ \E delay \in TransientDelays : ReplayTransient(delay)
        \/ LeaveTransient
        \/ \E delay \in RateDelays : RepeatLimited(delay)
        \/ LeaveRate
        \/ RefreshAuth
        \/ Return
        \/ (pc = "done" /\ UNCHANGED vars)

(* Every send has a timeout and every sleep is finite. *)
Spec == Init /\ [][Next]_vars /\ WF_vars(Next)

-----------------------------------------------------------------------------
(* The state has its types: no layer takes the budget below zero attempts or *)
(* sends, however the layers interleave.                                     *)
TypeOK ==
  /\ method \in Methods
  /\ pc \in {"slot", "send", "transient", "rate", "auth", "done"}
  /\ phase \in {"first", "refreshed"}
  /\ round \in Nat /\ backoff \in Nat
  /\ held \subseteq {"transient", "rate"}
  /\ hops \in 0..(MaxRedirects + 1)
  /\ current \in {"asked", "get"}
  /\ answer \in Answers
  /\ attempts \in 0..MaxAttempts /\ sends \in 0..MaxSends
  /\ left \in Int
  /\ slot \in BOOLEAN
  /\ applied \in Nat /\ heard \in BOOLEAN
  /\ outcome \in Answers \cup {"none", "raised"}

(* "Mutating methods must never be duplicated": whatever mix of failures,   *)
(* 429s, 401s and redirects the layers retry, the server has applied the     *)
(* mutation once at most, as _is_transient_retryable's docstring demands.    *)
AppliedOnce == applied <= 1

(* Nothing is sent once the deadline has passed: time overruns by at most    *)
(* the one send that the budget admitted last, and no sleep, wait for a slot *)
(* or redirect chain adds to that.                                           *)
OneSendLate == left >= -SendTime

(* An answer of the server is never lost to the exhaustion of the budget:    *)
(* the caller gets RetryError only if no send but redirects was answered.    *)
AnswerNotLost == outcome = "exhausted" => ~heard

(* Both of a request's promises to its caller, kept whichever layer's retry  *)
(* comes last: the time it takes, and the answer it had.                     *)
AnswersInTime == OneSendLate /\ AnswerNotLost
=============================================================================
