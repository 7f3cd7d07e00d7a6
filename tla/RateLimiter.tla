---------------------------- MODULE RateLimiter ----------------------------
(***************************************************************************)
(* RequestRateLimiter (rate_limit.py) and the threads of one TangleApiClient *)
(* that share it (client.py): a worker waits for a slot, sends, and after a  *)
(* 429 or 503 pauses the limiter for all and sleeps that long itself.  The   *)
(* limiter is consulted under its lock; every sleep is outside of it.        *)
(*                                                                          *)
(* Time is kept as time left, or passed, and moves by Tick.  A sleep lasts   *)
(* as long as asked for or longer.                                           *)
(***************************************************************************)
EXTENDS Integers

CONSTANTS
  Workers,    \* the threads that share one client
  Nobody,     \* not a worker
  Intervals,  \* the distances between starts that may be configured, 0 for none
  Delays,     \* the delays of 429s and 503s, positive or 0
  MaxJitter,  \* PAUSE_JITTER_MAX_SECONDS
  MaxWait     \* the longest max_wait that is left to a retried request

ASSUME LimiterConstantsOK ==
  /\ Nobody \notin Workers
  /\ Intervals \subseteq Nat /\ 0 \in Intervals
  /\ \E i \in Intervals : \A j \in Intervals : j <= i
  /\ Delays \subseteq Nat
  /\ MaxJitter \in Nat /\ MaxWait \in Nat

VARIABLES
  interval,    \* _interval
  since,       \* time since _last_start, up to the longest interval
  pause_left,  \* time to _paused_until, 0 once it has passed
  owner,       \* _pause_owner
  at,          \* worker -> what it does
  timer,       \* worker -> time left of its sleep
  patience,    \* worker -> what is left of max_wait, or Unlimited
  asked        \* worker -> time left of the longest pause it was asked for

limiter == <<interval, since, pause_left, owner>>
limiterVars == <<limiter, at, timer, patience, asked>>

Places == {"idle", "acquire", "asleep", "sending", "limited", "backoff"}
Sleeping == {"asleep", "backoff"}

Unlimited == -1

Longest == CHOOSE i \in Intervals : \A j \in Intervals : j <= i

(* No start so far, which is as good as one long ago. *)
LimiterInit == /\ interval \in Intervals
        /\ since = Longest
        /\ pause_left = 0 /\ owner = Nobody
        /\ at = [w \in Workers |-> "idle"]
        /\ timer = [w \in Workers |-> 0]
        /\ patience = [w \in Workers |-> Unlimited]
        /\ asked = [w \in Workers |-> 0]

Goes(w, from, to) == at[w] = from /\ at' = [at EXCEPT ![w] = to]

-----------------------------------------------------------------------------
(* acquire *)

Pacing == IF since < interval THEN interval - since ELSE 0

Held(w) == pause_left > 0 /\ w # owner

(* How long the caller would have to wait, were it to start next. *)
Waits(w) ==
  IF Held(w)
    THEN {IF Pacing > pause_left + j THEN Pacing ELSE pause_left + j : j \in 0..MaxJitter}
    ELSE {Pacing}

StartNow(w) == /\ Goes(w, "acquire", "sending")
               /\ 0 \in Waits(w)
               /\ since' = 0
               /\ UNCHANGED <<interval, pause_left, owner, timer, patience, asked>>

TooLong(w, wait) == patience[w] # Unlimited /\ wait > patience[w]

(* mutant: every sleep has the whole of max_wait *)
SleepForSlotAnew(w, wait) ==
  /\ Goes(w, "acquire", "asleep")
  /\ wait > 0 /\ ~TooLong(w, wait)
  /\ timer' = [timer EXCEPT ![w] = wait]
  /\ UNCHANGED <<limiter, patience, asked>>
SleepForSlot(w, wait) ==
  /\ Goes(w, "acquire", "asleep")
  /\ wait > 0 /\ ~TooLong(w, wait)
  /\ timer' = [timer EXCEPT ![w] = wait]
  /\ patience' = [patience EXCEPT ![w] = IF @ = Unlimited THEN @ ELSE @ - wait]
  /\ UNCHANGED <<limiter, asked>>

(* None is returned: the request gives up. *)
RefuseSlot(w, wait) ==
  /\ Goes(w, "acquire", "idle")
  /\ TooLong(w, wait)
  /\ UNCHANGED <<limiter, timer, patience, asked>>

(* mutant: the slot that was waited for is taken without looking again *)
WakeAndStart(w) == /\ Goes(w, "asleep", "sending")
                   /\ timer[w] = 0
                   /\ since' = 0
                   /\ UNCHANGED <<interval, pause_left, owner, timer, patience, asked>>
Wake(w) == /\ Goes(w, "asleep", "acquire")
           /\ timer[w] = 0
           /\ UNCHANGED <<limiter, timer, patience, asked>>

SetRate(i) == /\ interval' = i
              /\ UNCHANGED <<since, pause_left, owner, at, timer, patience, asked>>

-----------------------------------------------------------------------------
(* A request: its first slot is waited for as long as it takes. *)

Begin(w) == /\ Goes(w, "idle", "acquire")
            /\ patience' = [patience EXCEPT ![w] = Unlimited]
            /\ UNCHANGED <<limiter, timer, asked>>

Answered(w) == /\ Goes(w, "sending", "idle")
               /\ UNCHANGED <<limiter, timer, patience, asked>>

(* mutant: an extended pause keeps its first owner *)
ExtendForOwner(w, d) == /\ pause_left' = d
                        /\ owner' = IF owner = Nobody THEN w ELSE owner
Extend(w, d) == pause_left' = d /\ owner' = w

(* pause: only a later end counts, and takes the ownership over. *)
PushBack(w, d) ==
  /\ Goes(w, "sending", "limited")
  /\ IF d > pause_left THEN Extend(w, d) ELSE UNCHANGED <<pause_left, owner>>
  /\ timer' = [timer EXCEPT ![w] = d]
  /\ asked' = [asked EXCEPT ![w] = IF d > @ THEN d ELSE @]
  /\ UNCHANGED <<interval, since, patience>>

SleepForBackoff(w) == /\ Goes(w, "limited", "backoff")
                      /\ UNCHANGED <<limiter, timer, patience, asked>>

(* A retry, and the next hop of a redirect, wait for their slot no longer    *)
(* than their deadline allows; a stream is opened by a request of its own.   *)
SendAgain(w) ==
  /\ Goes(w, "backoff", "acquire") \/ Goes(w, "sending", "acquire")
  /\ at[w] = "backoff" => timer[w] = 0
  /\ \E m \in 0..MaxWait \cup {Unlimited} :
       patience' = [patience EXCEPT ![w] = m]
  /\ UNCHANGED <<limiter, timer, asked>>

(* The deadline has passed in the meantime. *)
GiveUp(w) == /\ Goes(w, "backoff", "idle")
             /\ timer[w] = 0
             /\ UNCHANGED <<limiter, timer, patience, asked>>

-----------------------------------------------------------------------------
Less(t) == IF t > 0 THEN t - 1 ELSE 0

(* A timer runs once its worker sleeps. *)
Tick == /\ since' = IF since < Longest THEN since + 1 ELSE since
        /\ pause_left' = Less(pause_left)
        /\ timer' = [w \in Workers |->
                       IF at[w] \in Sleeping THEN Less(timer[w]) ELSE timer[w]]
        /\ asked' = [w \in Workers |-> Less(asked[w])]
        /\ UNCHANGED <<interval, owner, at, patience>>

Acquire(w) == \/ StartNow(w) \/ Wake(w)
              \/ \E wait \in Waits(w) : SleepForSlot(w, wait) \/ RefuseSlot(w, wait)

Request(w) == \/ Begin(w) \/ Answered(w) \/ SleepForBackoff(w)
              \/ SendAgain(w) \/ GiveUp(w)
              \/ \E d \in Delays : PushBack(w, d)

LimiterNext == \/ \E w \in Workers : Acquire(w) \/ Request(w)
        \/ \E i \in Intervals : SetRate(i)
        \/ Tick

LimiterSpec == LimiterInit /\ [][LimiterNext]_limiterVars

(* The clock advances, and a thread that can run does so at last. *)
FairLimiterSpec == LimiterSpec /\ WF_limiterVars(Tick) /\ \A w \in Workers : WF_limiterVars(Acquire(w))

-----------------------------------------------------------------------------
(* The state has its types. *)
LimiterTypeOK == /\ interval \in Intervals /\ since \in 0..Longest
          /\ pause_left \in Nat /\ owner \in Workers \cup {Nobody}
          /\ at \in [Workers -> Places]
          /\ timer \in [Workers -> Nat]
          /\ patience \in [Workers -> Nat \cup {Unlimited}]
          /\ asked \in [Workers -> Nat]

(* The owner of a pause is exempt from it because it sleeps through it: when *)
(* pauses overlap and ownership moves, nobody is exempt who is awake.         *)
OwnerSleeps ==
  pause_left > 0 => /\ owner \in Workers
                    /\ at[owner] \in {"limited", "backoff"}
                    /\ timer[owner] >= pause_left

(* Requests start an interval apart, and never inside a pause that any       *)
(* worker was asked for, however pauses overlap, rates change and sleepers   *)
(* wake: the limiter implements PacedStarts.                                 *)
Paced == INSTANCE PacedStarts
ImplementsPacedStarts == Paced!Spec

(* A retry waiting for a slot with a deadline gets it or is refused, even if *)
(* the other workers always get the slot it waits for.                       *)
BoundedWaitEnds ==
  \A w \in Workers :
    (at[w] = "acquire" /\ patience[w] # Unlimited) ~> at[w] \notin {"acquire", "asleep"}
=============================================================================
