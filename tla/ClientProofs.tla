---------------------------- MODULE ClientProofs ----------------------------
(***************************************************************************)
(* What the API client guarantees for every size of its budgets, every      *)
(* server and any number of threads.  A request: a mutation is applied once *)
(* at most, an answer in hand is not lost, and the budget's deadline holds  *)
(* up to one send.  A log stream: no retry around its requests breaks that, *)
(* and one connection is held at most.  The shared limiter: it implements   *)
(* PacedStarts, because nobody is exempt from a pause while awake           *)
(* (OwnerSleeps), and the one pause that it keeps covers all that the       *)
(* workers were asked for (AskedCovered).                                   *)
(***************************************************************************)
EXTENDS LogStream, RateLimiter, TLAPS

USE ConstantsOK, LimiterConstantsOK

-----------------------------------------------------------------------------
(* One request. *)

(* A redirect chain that still goes on has a hop left. *)
HopLeft == pc \in {"slot", "send"} => hops <= MaxRedirects

(* Time is only ever overrun by the send, or the refresh, under way. *)
TimeInv == left \in Int /\ OneSendLate

(* Once applied, a mutation is on its way out of the layers, with an answer  *)
(* that none of them retries.                                                *)
Leaving == applied > 0 =>
             /\ method = "mutation"
             /\ \/ pc = "done"
                \/ /\ pc \in {"transient", "rate", "auth"}
                   /\ answer \in {"ok", "5xx", "503", "transport", "fatal"}

OnceInv == applied \in Nat /\ AppliedOnce /\ Leaving

(* What has been heard is in some layer's hands until the caller has it.     *)
InHand ==
  heard => \/ phase = "refreshed"
           \/ pc \in {"slot", "send"} /\ held # {}
           \/ pc = "transient" /\ (held # {} \/ answer \in Responses)
           \/ pc = "rate" /\ ("rate" \in held \/ answer # "exhausted")
           \/ pc = "auth" /\ answer # "exhausted"
           \/ pc = "done" /\ outcome # "exhausted"

(* After a refresh, an exhausted budget is reported as the 401 before it.    *)
RefreshedAnswers == /\ pc # "done" => outcome = "none"
                    /\ phase = "refreshed" => outcome # "exhausted"

-----------------------------------------------------------------------------

(* Doubling stays within the integers. *)
LEMMA PowersAreInt == \A n \in Nat : 2^n \in Int
OBVIOUS

LEMMA DelaysAreInt ==
  ASSUME TypeOK
  PROVE  /\ \A d \in TransientDelays : d \in Int
         /\ \A d \in RateDelays : d \in Int
<1>1. \A d \in TransientDelays : d \in Int
  BY DEF TypeOK, TransientDelays, Least, Greatest
<1>2. 2^round \in Int
  BY PowersAreInt DEF TypeOK
<1>3. \A d \in RateDelays : d \in Int
  BY <1>2 DEF RateDelays, Least
<1> QED BY <1>1, <1>3

RequestInv == TypeOK /\ HopLeft /\ OneSendLate

LEMMA RequestInit == Init => RequestInv
<1> SUFFICES ASSUME Init PROVE RequestInv
  OBVIOUS
<1>1. slot \in BOOLEAN /\ heard \in BOOLEAN
  BY Zenon DEF Init
<1> QED BY <1>1 DEF Init, RequestInv, TypeOK, HopLeft, OneSendLate, Answers, Responses

LEMMA EnterInv ==
  ASSUME RequestInv, NEW d \in Int, Retry(d),
         phase' \in {"first", "refreshed"}, round' \in Nat, backoff' \in Nat,
         held' \subseteq {"transient", "rate"}
  PROVE  RequestInv'
BY DEF RequestInv, TypeOK, HopLeft, OneSendLate, Retry, Enter, CanRetry, Allows

LEMMA HopInv == ASSUME RequestInv, Hop PROVE RequestInv'
<1>1. CASE TakeSlot
  <2>1. /\ left' \in Int /\ left' >= -SendTime
        /\ \/ pc' = "send" /\ answer' = answer
           \/ pc' = "transient" /\ answer' = "exhausted"
        /\ slot' = FALSE
    <3>1. CASE left <= 0
      BY <1>1, <3>1 DEF RequestInv, TypeOK, OneSendLate, TakeSlot
    <3>2. CASE left' = left
      BY <1>1, <3>2 DEF RequestInv, TypeOK, OneSendLate, TakeSlot, Pass
    <3>3. CASE left > 0 /\ left' # left
      <4>1. \/ pc' = "send" /\ answer' = answer
               /\ \E w \in 0..SlotTime : ~(w > left) /\ left' = left - w
            \/ pc' = "transient" /\ answer' = "exhausted"
               /\ \E w \in 0..left : left' = left - w
        BY <1>1, <3>3 DEF TakeSlot, Pass, RequestInv, TypeOK
      <4>2. left' \in Int /\ left' >= -SendTime
        BY <4>1, <3>3 DEF RequestInv, TypeOK
      <4>3. slot' = FALSE
        BY <1>1 DEF TakeSlot
      <4> QED BY <4>1, <4>2, <4>3
    <3>4. left <= 0 \/ left' = left \/ (left > 0 /\ left' # left)
      BY DEF RequestInv, TypeOK
    <3> QED BY <3>1, <3>2, <3>3, <3>4, Zenon
  <2>2. UNCHANGED <<method, phase, round, backoff, held, hops, current, attempts, sends,
                    applied, heard, outcome>> /\ pc = "slot"
    BY <1>1 DEF TakeSlot, layers
  <2> QED BY <2>1, <2>2 DEF RequestInv, TypeOK, HopLeft, OneSendLate, Answers
<1>2. CASE Refuse
  BY <1>2 DEF RequestInv, TypeOK, HopLeft, OneSendLate, Refuse, Pass, layers, budget, Answers
<1>3. ASSUME NEW a \in Responses, Answer(a) PROVE RequestInv'
  BY <1>3 DEF RequestInv, TypeOK, HopLeft, OneSendLate, Answer, Send, Admitted, Pass,
              Applies, DoesNotApply, layers, Answers
<1>4. ASSUME NEW a \in Failures, NoAnswer(a) PROVE RequestInv'
  BY <1>4 DEF RequestInv, TypeOK, HopLeft, OneSendLate, NoAnswer, Send, Admitted, Pass,
              Applies, DoesNotApply, layers, Answers
<1>5. ASSUME NEW get \in BOOLEAN, Follow(get) PROVE RequestInv'
  BY <1>5 DEF RequestInv, TypeOK, HopLeft, OneSendLate, Follow, Send, Admitted, Pass,
              Applies, DoesNotApply, layers, Answers, Failures
<1>6. CASE CrossOrigin
  BY <1>6 DEF RequestInv, TypeOK, HopLeft, OneSendLate, CrossOrigin, Send, Admitted, Pass,
              DoesNotApply, layers, Answers, Failures
<1> QED BY <1>1, <1>2, <1>3, <1>4, <1>5, <1>6 DEF Hop

LEMMA LayersInv ==
  ASSUME RequestInv,
         \/ \E delay \in TransientDelays : ReplayTransient(delay)
         \/ \E delay \in RateDelays : RepeatLimited(delay)
         \/ LeaveTransient \/ LeaveRate \/ RefreshAuth \/ Return
  PROVE  RequestInv'
<1>1. ASSUME NEW d \in TransientDelays, ReplayTransient(d) PROVE RequestInv'
  <2>1. d \in Int
    BY DelaysAreInt DEF RequestInv
  <2> QED BY <1>1, <2>1, EnterInv DEF ReplayTransient, RequestInv, TypeOK
<1>2. ASSUME NEW d \in RateDelays, RepeatLimited(d) PROVE RequestInv'
  <2>1. d \in Int
    BY DelaysAreInt DEF RequestInv
  <2> QED BY <1>2, <2>1, EnterInv DEF RepeatLimited, RequestInv, TypeOK
<1>3. CASE LeaveTransient
  BY <1>3 DEF RequestInv, TypeOK, HopLeft, OneSendLate, LeaveTransient, TransientResult,
              Finish, layers, budget, Answers, Responses
<1>4. CASE LeaveRate
  BY <1>4 DEF RequestInv, TypeOK, HopLeft, OneSendLate, LeaveRate, RateResult,
              layers, budget, Answers, Responses
<1>5. CASE RefreshAuth
  BY <1>5 DEF RequestInv, TypeOK, HopLeft, OneSendLate, RefreshAuth, Enter, CanRetry
<1>6. CASE Return
  BY <1>6 DEF RequestInv, TypeOK, HopLeft, OneSendLate, Return, Finish, layers, budget,
              Answers, Responses
<1> QED BY <1>1, <1>2, <1>3, <1>4, <1>5, <1>6

LEMMA RequestInvStep == RequestInv /\ [Next]_vars => RequestInv'
<1> SUFFICES ASSUME RequestInv, [Next]_vars PROVE RequestInv'
  OBVIOUS
<1>1. CASE UNCHANGED vars
  BY <1>1 DEF RequestInv, TypeOK, HopLeft, OneSendLate, vars, layers, budget
<1> QED BY <1>1, HopInv, LayersInv DEF Next

LEMMA RequestInvHolds == Spec => []RequestInv
BY RequestInit, RequestInvStep, PTL DEF Spec

(* No layer, however they interleave, takes more attempts or sends from the  *)
(* budget than it has.                                                       *)
THEOREM RequestTypes == Spec => []TypeOK
<1>1. RequestInv => TypeOK
  BY DEF RequestInv
<1> QED BY <1>1, RequestInvHolds, PTL

(* For every size of the budget and of what servers ask for, the deadline is *)
(* overrun by no more than the one send under way.                           *)
THEOREM DeadlineHolds == Spec => []OneSendLate
<1>1. RequestInv => OneSendLate
  BY DEF RequestInv
<1> QED BY <1>1, RequestInvHolds, PTL

-----------------------------------------------------------------------------
(* What is applied once is not sent again. *)

LEMMA MethodFixed == ASSUME Next PROVE method' = method
BY DEF Next, Hop, TakeSlot, Refuse, Answer, NoAnswer, Follow, CrossOrigin, Send,
       ReplayTransient, RepeatLimited, RefreshAuth, Retry, Enter, LeaveTransient,
       LeaveRate, Return, layers, vars

LEMMA OnceStep ==
  ASSUME ~SeeOther, TypeOK, OnceInv, Next
  PROVE  OnceInv'
<1> method' = method
  BY MethodFixed
<1>1. CASE applied > 0
  <2>1. ASSUME Hop PROVE OnceInv'
    BY <1>1, <2>1 DEF OnceInv, Leaving, AppliedOnce, Hop, TakeSlot, Refuse, Answer,
                      NoAnswer, Follow, CrossOrigin, Send
  <2>2. CASE LeaveTransient
    BY <1>1, <2>2 DEF OnceInv, Leaving, AppliedOnce, LeaveTransient, TransientResult,
                      Finish
  <2>3. CASE LeaveRate
    BY <1>1, <2>3 DEF OnceInv, Leaving, AppliedOnce, LeaveRate, RateResult
  <2>4. CASE Return
    BY <1>1, <2>4 DEF OnceInv, Leaving, AppliedOnce, Return, Finish
  <2>5. ASSUME NEW d, ReplayTransient(d) \/ RepeatLimited(d) \/ RefreshAuth
        PROVE  OnceInv'
    BY <1>1, <2>5 DEF OnceInv, Leaving, ReplayTransient, RepeatLimited,
                      RefreshAuth, Replayable
  <2>6. CASE pc = "done" /\ UNCHANGED vars
    BY <2>6 DEF OnceInv, Leaving, AppliedOnce, vars
  <2> QED BY <2>1, <2>2, <2>3, <2>4, <2>5, <2>6 DEF Next
<1>2. CASE applied = 0
  <2>1. ASSUME applied' = 0 PROVE OnceInv'
    BY <2>1 DEF OnceInv, Leaving, AppliedOnce
  <2>2. ASSUME NEW a \in Responses, Answer(a) PROVE OnceInv'
    BY <1>2, <2>2 DEF OnceInv, Leaving, AppliedOnce, Answer, Applies, DoesNotApply,
                      Mutates, Pass
  <2>3. ASSUME NEW a \in Failures, NoAnswer(a) PROVE OnceInv'
    BY <1>2, <2>3 DEF OnceInv, Leaving, AppliedOnce, NoAnswer, Applies, DoesNotApply,
                      Mutates, Pass, Failures
  <2>4. ASSUME NEW get \in BOOLEAN, Follow(get) PROVE OnceInv'
    BY <1>2, <2>1, <2>4 DEF Follow, DoesNotApply
  <2>5. CASE TakeSlot \/ Refuse \/ CrossOrigin
    BY <1>2, <2>1, <2>5 DEF TakeSlot, Refuse, CrossOrigin, DoesNotApply
  <2>6. CASE LeaveTransient \/ LeaveRate \/ Return
    BY <1>2, <2>1, <2>6 DEF LeaveTransient, LeaveRate, Return
  <2>7. ASSUME NEW d, ReplayTransient(d) \/ RepeatLimited(d) \/ RefreshAuth
        PROVE  OnceInv'
    BY <1>2, <2>1, <2>7 DEF ReplayTransient, RepeatLimited, RefreshAuth, Retry, Enter
  <2>8. CASE pc = "done" /\ UNCHANGED vars
    BY <1>2, <2>1, <2>8 DEF vars
  <2> QED BY <2>2, <2>3, <2>4, <2>5, <2>6, <2>7, <2>8 DEF Next, Hop
<1> QED BY <1>1, <1>2 DEF OnceInv

(* Where servers redirect a mutation before they act on it, no mix of the    *)
(* layers' retries ever applies it twice, whatever their limits are.         *)
THEOREM NeverDuplicated == ~SeeOther => (Spec => []AppliedOnce)
<1> SUFFICES ASSUME ~SeeOther PROVE Spec => []AppliedOnce
  OBVIOUS
<1>1. Init => OnceInv
  BY DEF Init, OnceInv, AppliedOnce, Leaving
<1>2. TypeOK /\ OnceInv /\ [Next]_vars => OnceInv'
  <2>1. OnceInv /\ UNCHANGED vars => OnceInv'
    BY DEF OnceInv, AppliedOnce, Leaving, vars, layers
  <2> QED BY <2>1, OnceStep
<1>3. OnceInv => AppliedOnce
  BY DEF OnceInv
<1> QED BY <1>1, <1>2, <1>3, RequestTypes, PTL DEF Spec

-----------------------------------------------------------------------------
(* What the server said reaches the caller. *)

LEMMA InHandStep ==
  ASSUME TypeOK, InHand, RefreshedAnswers, Next
  PROVE  InHand'
<1>1. CASE TakeSlot \/ Refuse
  <2>1. heard' = heard /\ held' = held /\ phase' = phase
        /\ pc \in {"slot", "send"} /\ pc' \in {"send", "transient"}
    BY <1>1 DEF TakeSlot, Refuse, Pass, layers
  <2> QED BY <2>1 DEF InHand
<1>2. ASSUME NEW a \in Responses, Answer(a) PROVE InHand'
  BY <1>2 DEF InHand, Answer, Pass
<1>3. ASSUME NEW a \in Failures, NoAnswer(a) PROVE InHand'
  BY <1>3 DEF InHand, NoAnswer, Send, Pass, layers
<1>4. ASSUME NEW get \in BOOLEAN, Follow(get) PROVE InHand'
  BY <1>4 DEF InHand, Follow, Send, Pass, layers
<1>5. CASE CrossOrigin
  BY <1>5 DEF InHand, CrossOrigin, Send, Pass, layers
<1>6. ASSUME NEW d, ReplayTransient(d) PROVE InHand'
  BY <1>6 DEF InHand, ReplayTransient, Retry, Enter, Transient, Responses, TypeOK
<1>7. ASSUME NEW d, RepeatLimited(d) PROVE InHand'
  BY <1>7 DEF InHand, RepeatLimited, Retry, Enter
<1>8. CASE LeaveTransient
  BY <1>8 DEF InHand, LeaveTransient, TransientResult, Finish, layers, TypeOK,
              Responses, Failures
<1>9. CASE LeaveRate
  BY <1>9 DEF InHand, LeaveRate, RateResult, layers
<1>10. CASE RefreshAuth
  BY <1>10 DEF InHand, RefreshAuth
<1>11. CASE Return
  BY <1>11 DEF InHand, Return, Finish, layers
<1>12. CASE pc = "done" /\ UNCHANGED vars
  BY <1>12 DEF InHand, vars, layers
<1> QED BY <1>1, <1>2, <1>3, <1>4, <1>5, <1>6, <1>7, <1>8, <1>9, <1>10, <1>11,
           <1>12 DEF Next, Hop

LEMMA RefreshedStep ==
  ASSUME RefreshedAnswers, Next
  PROVE  RefreshedAnswers'
<1>1. CASE Hop
  BY <1>1 DEF RefreshedAnswers, Hop, TakeSlot, Refuse, Answer, NoAnswer, Follow,
              CrossOrigin, Send, layers
<1>2. ASSUME NEW d, ReplayTransient(d) \/ RepeatLimited(d) \/ RefreshAuth
      PROVE  RefreshedAnswers'
  BY <1>2 DEF RefreshedAnswers, ReplayTransient, RepeatLimited, RefreshAuth, Retry,
              Enter
<1>3. CASE LeaveTransient
  BY <1>3 DEF RefreshedAnswers, LeaveTransient, Finish, layers
<1>4. CASE LeaveRate
  BY <1>4 DEF RefreshedAnswers, LeaveRate, layers
<1>5. CASE Return
  BY <1>5 DEF RefreshedAnswers, Return, Finish, layers
<1>6. CASE pc = "done" /\ UNCHANGED vars
  BY <1>6 DEF RefreshedAnswers, vars, layers
<1> QED BY <1>1, <1>2, <1>3, <1>4, <1>5, <1>6 DEF Next

(* However the budget runs out in the layers, the caller gets RetryError     *)
(* only if no response but redirects had arrived.                            *)
THEOREM AnswersAreKept == Spec => []AnswerNotLost
<1>1. Init => InHand /\ RefreshedAnswers
  BY DEF Init, InHand, RefreshedAnswers
<1>2. TypeOK /\ InHand /\ RefreshedAnswers /\ [Next]_vars
        => (InHand /\ RefreshedAnswers)'
  <2>1. InHand /\ RefreshedAnswers /\ UNCHANGED vars => (InHand /\ RefreshedAnswers)'
    BY DEF InHand, RefreshedAnswers, vars, layers
  <2> QED BY <2>1, InHandStep, RefreshedStep
<1>3. InHand /\ RefreshedAnswers => AnswerNotLost
  BY DEF InHand, RefreshedAnswers, AnswerNotLost
<1> QED BY <1>1, <1>2, <1>3, RequestTypes, PTL DEF Spec

(* The request overruns its deadline by one send at most, and never loses an *)
(* answer for it.                                                            *)
THEOREM InTimeWithItsAnswer == Spec => []AnswersInTime
<1>1. OneSendLate /\ AnswerNotLost => AnswersInTime
  BY DEF AnswersInTime
<1> QED BY <1>1, DeadlineHolds, AnswersAreKept, PTL

-----------------------------------------------------------------------------
(* Opening a log stream: requests one after the other, each as above with a  *)
(* budget of its own.                                                        *)

(* What a request keeps of itself, whoever makes it.                         *)
Kept == RequestInv /\ InHand /\ RefreshedAnswers

LEMMA KeptInit == Init => Kept
BY RequestInit DEF Kept, Init, InHand, RefreshedAnswers

LEMMA KeptStep == ASSUME Kept, Next PROVE Kept'
<1>1. RequestInv'
  BY RequestInvStep DEF Kept
<1>2. TypeOK
  BY DEF Kept, RequestInv
<1> QED BY <1>1, <1>2, InHandStep, RefreshedStep DEF Kept

(* The layers of a streamed request are those of any other.                  *)
LEMMA StepOfRequest == RequestStep => Next /\ pc # "done"
BY DEF RequestStep, Next, Hop, TakeSlot, Refuse, Answer, NoAnswer, Follow, CrossOrigin,
       Send, ReplayTransient, RepeatLimited, LeaveTransient, LeaveRate, RefreshAuth, Return

LEMMA KeptByOpening == ASSUME Kept, OpenAgain PROVE Kept'
<1>1. slot' \in BOOLEAN /\ heard' \in BOOLEAN /\ heard' = FALSE
  BY Zenon DEF OpenAgain
<1>2. RequestInv'
  BY <1>1 DEF OpenAgain, Kept, RequestInv, TypeOK, HopLeft, OneSendLate, Answers, Responses
<1>3. InHand' /\ RefreshedAnswers'
  BY <1>1 DEF OpenAgain, InHand, RefreshedAnswers
<1> QED BY <1>2, <1>3 DEF Kept

LEMMA KeptWhileStreaming == Kept /\ [StreamNext]_streamVars => Kept'
<1> SUFFICES ASSUME Kept, [StreamNext]_streamVars PROVE Kept'
  OBVIOUS
<1>1. CASE UNCHANGED vars
  BY <1>1 DEF vars, layers, budget, Kept, RequestInv, TypeOK, HopLeft, OneSendLate,
              InHand, RefreshedAnswers
<1>2. CASE RequestStep
  BY <1>2, StepOfRequest, KeptStep
<1>3. CASE OpenAgain
  BY <1>3, KeptByOpening
<1> QED BY <1>1, <1>2, <1>3 DEF StreamNext, StreamSteps, GiveUpOpening, Accept, EndStream,
           Finished, streamVars

(* The retries around a request leave its promises whole: each open has a    *)
(* budget of its own, none overruns it by more than one send, and none       *)
(* forgets an answer.                                                        *)
THEOREM OpensKeepTheirPromises == StreamSpec => []AnswersInTime
<1>1. StreamInit => Kept
  BY KeptInit DEF StreamInit
<1>2. Kept => AnswersInTime
  BY DEF Kept, RequestInv, InHand, RefreshedAnswers, AnswersInTime, AnswerNotLost
<1> QED BY <1>1, <1>2, KeptWhileStreaming, PTL DEF StreamSpec

(* Only a stream, which changes nothing, is opened again.                    *)
OnlyStreamsOpen == stage \in {"opening", "open"} => Streamed

LEMMA OnceByOpening ==
  ASSUME ~SeeOther, Kept, OnceInv, OnlyStreamsOpen, [StreamNext]_streamVars
  PROVE  OnceInv' /\ OnlyStreamsOpen'
<1>1. CASE RequestStep
  <2>1. Next /\ TypeOK /\ method' = method
    BY <1>1, StepOfRequest, MethodFixed DEF Kept, RequestInv
  <2>2. stage' = stage
    BY <1>1 DEF RequestStep, Arrive, Close, stream
  <2> QED BY <2>1, <2>2, OnceStep DEF OnlyStreamsOpen, Streamed
<1>2. CASE OpenAgain
  <2>1. applied' = 0 /\ method' = method /\ stage' = stage
    BY <1>2 DEF OpenAgain, Attempted, OnceInv, Leaving, OnlyStreamsOpen, Streamed
  <2> QED BY <2>1 DEF OnceInv, AppliedOnce, Leaving, OnlyStreamsOpen, Streamed
<1>3. CASE GiveUpOpening \/ Accept \/ EndStream \/ UNCHANGED streamVars
  <2>1. UNCHANGED <<method, pc, answer, applied>>
        /\ (stage' \in {"opening", "open"} => stage \in {"opening", "open"})
    BY <1>3 DEF GiveUpOpening, Accept, Attempted, EndStream, streamVars, stream, vars, layers
  <2> QED BY <2>1 DEF OnceInv, AppliedOnce, Leaving, OnlyStreamsOpen, Streamed
<1> QED BY <1>1, <1>2, <1>3 DEF StreamNext, StreamSteps, Finished

(* Nor do the retries of an open ever apply a mutation again.                *)
THEOREM NothingAppliedTwice == ~SeeOther => (StreamSpec => []AppliedOnce)
<1> SUFFICES ASSUME ~SeeOther PROVE StreamSpec => []AppliedOnce
  OBVIOUS
<1>1. StreamInit => Kept /\ OnceInv /\ OnlyStreamsOpen
  BY KeptInit DEF StreamInit, Init, OnceInv, AppliedOnce, Leaving, OnlyStreamsOpen
<1>2. Kept /\ OnceInv /\ OnlyStreamsOpen /\ [StreamNext]_streamVars
        => (Kept /\ OnceInv /\ OnlyStreamsOpen)'
  BY KeptWhileStreaming, OnceByOpening
<1>3. OnceInv => AppliedOnce
  BY DEF OnceInv
<1> QED BY <1>1, <1>2, <1>3, PTL DEF StreamSpec

-----------------------------------------------------------------------------
(* The connections of a log stream. *)

Stages == {"opening", "open", "read", "raised", "plain"}

(* The response in hand is open from its arrival to the layer that           *)
(* supersedes it, and an accepted one until it has been handed over.         *)
InHandIsOpen ==
  Streamed =>
    /\ pc \in {"transient", "rate", "auth"} /\ answer = "ok" => live
    /\ pc = "done" /\ outcome = "ok" /\ stage = "opening" => live

StreamInv ==
  /\ stage \in Stages /\ live \in BOOLEAN
  /\ stage = "plain" <=> ~Streamed
  /\ live => Streamed
  /\ pc \in {"slot", "send"} => ~live
  /\ stage \in {"open", "read", "raised"} => pc = "done"
  /\ OneConnection
  /\ InHandIsOpen

LEMMA StreamInvInit == StreamInit => StreamInv
<1> SUFFICES ASSUME StreamInit PROVE StreamInv
  OBVIOUS
<1>1. live = FALSE /\ conns = 0 /\ pc = "slot"
      /\ stage = (IF Streamed THEN "opening" ELSE "plain")
  BY Zenon DEF StreamInit, Init
<1> QED BY <1>1 DEF StreamInv, Stages, OneConnection, InHandIsOpen

(* A step of the layers neither drops the response in hand nor leaves one    *)
(* open that it supersedes.                                                  *)
LEMMA RequestHolds == ASSUME StreamInv, RequestStep PROVE StreamInv'
<1>0. pc # "done" /\ method' = method /\ stage' = stage /\ stage \in {"opening", "plain"}
  BY StepOfRequest, MethodFixed
     DEF RequestStep, Arrive, Close, stream, StreamInv, Stages
<1>1. ASSUME NEW a \in Responses, Answer(a), Arrive PROVE StreamInv'
  <2>1. pc = "send" /\ ~live /\ conns = 0 /\ pc' = "transient" /\ answer' = a
    BY <1>1 DEF Answer, Send, Pass, StreamInv, OneConnection
  <2>2. (live' <=> Streamed) /\ live' \in BOOLEAN
        /\ conns' = IF live' THEN 1 ELSE 0
    <3>1. live' = Streamed /\ conns' = IF Streamed THEN conns + 1 ELSE conns
      BY <1>1, Zenon DEF Arrive
    <3>2. CASE Streamed
      <4>1. live' = TRUE
        BY <3>1, <3>2, Zenon DEF Streamed
      <4> QED BY <2>1, <3>1, <3>2, <4>1
    <3>3. CASE ~Streamed
      <4>1. live' = FALSE
        BY <3>1, <3>3, Zenon DEF Streamed
      <4>2. conns' = 0
        BY <2>1, <3>1, <3>3
      <4> QED BY <3>3, <4>1, <4>2
    <3> QED BY <3>2, <3>3
  <2> QED BY <1>0, <2>1, <2>2 DEF StreamInv, OneConnection, InHandIsOpen, Streamed
<1>2. ASSUME Close, pc' = "slot" PROVE StreamInv'
  <2>1. live' = FALSE /\ conns' = 0
    BY <1>2 DEF Close, StreamInv, OneConnection
  <2> QED BY <1>0, <1>2, <2>1 DEF StreamInv, OneConnection, InHandIsOpen, Streamed
<1>3. ASSUME UNCHANGED stream,
             pc' \in {"slot", "send"} => pc \in {"slot", "send"} \/ ~Streamed,
             pc' \in {"transient", "rate", "auth"} /\ answer' = "ok" =>
               pc \in {"transient", "rate", "auth"} /\ answer = "ok",
             pc' = "done" /\ outcome' = "ok" =>
               pc \in {"transient", "rate", "auth"} /\ answer = "ok"
      PROVE  StreamInv'
  BY <1>0, <1>3 DEF StreamInv, OneConnection, InHandIsOpen, Streamed, stream
<1>4. ASSUME UNCHANGED stream,
             \/ TakeSlot \/ Refuse \/ CrossOrigin
             \/ \E a \in Failures : NoAnswer(a)
             \/ \E get \in BOOLEAN : Follow(get)
      PROVE  StreamInv'
  <2>1. /\ pc \in {"slot", "send"}
        /\ pc' \in {"slot", "send"} \/ (pc' = "transient" /\ answer' # "ok")
    BY <1>4 DEF TakeSlot, Refuse, CrossOrigin, NoAnswer, Follow, Send, Pass, Failures
  <2> QED BY <1>3, <1>4, <2>1
<1>5. ASSUME UNCHANGED stream, NEW d, ReplayTransient(d) PROVE StreamInv'
  <2>1. pc' = "slot" /\ ~Streamed
    BY <1>5 DEF ReplayTransient, Retry, Enter, Replayable, Streamed
  <2> QED BY <1>3, <1>5, <2>1
<1>6. ASSUME UNCHANGED stream, LeaveTransient \/ LeaveRate PROVE StreamInv'
  <2>1. /\ pc \in {"transient", "rate"}
        /\ \/ pc' = "done" /\ outcome' = "raised"
           \/ pc' \in {"rate", "auth"} /\ (answer' = "ok" => answer = "ok")
    BY <1>6 DEF LeaveTransient, LeaveRate, Finish, TransientResult, RateResult
  <2> QED BY <1>3, <1>6, <2>1
<1>7. ASSUME UNCHANGED stream, Return PROVE StreamInv'
  <2>1. pc = "auth" /\ pc' = "done" /\ (outcome' = "ok" => answer = "ok")
    BY <1>7 DEF Return, Finish
  <2> QED BY <1>3, <1>7, <2>1
<1>8. ASSUME NEW d, RepeatLimited(d) \/ RefreshAuth PROVE pc' = "slot"
  BY <1>8 DEF RepeatLimited, RefreshAuth, Retry, Enter
<1> QED BY <1>1, <1>2, <1>4, <1>5, <1>6, <1>7, <1>8 DEF RequestStep

(* Around the layers: the next open starts with nothing in hand, a failed    *)
(* one leaves nothing, and what is handed over is alive until it is read.    *)
LEMMA OpeningHolds ==
  ASSUME StreamInv, OpenAgain \/ GiveUpOpening \/ Accept \/ EndStream
  PROVE  StreamInv'
<1> USE DEF Attempted
<1>0. /\ method' = method /\ stage \in {"opening", "open"} /\ Streamed
      /\ pc = "done" /\ live \in BOOLEAN /\ conns = IF live THEN 1 ELSE 0
  BY DEF OpenAgain, GiveUpOpening, Accept, EndStream, StreamInv, OneConnection, Streamed,
         vars, layers
<1>1. CASE OpenAgain \/ GiveUpOpening
  <2>1. /\ live' = FALSE /\ conns' = IF live THEN conns - 1 ELSE conns
        /\ \/ pc' = "slot" /\ stage' = stage /\ stage = "opening"
           \/ pc' = pc /\ stage' = "raised"
    BY <1>1, Zenon DEF OpenAgain, GiveUpOpening, vars
  <2>2. conns' = 0
    BY <1>0, <2>1
  <2> QED BY <1>0, <2>1, <2>2 DEF StreamInv, Stages, OneConnection, InHandIsOpen, Streamed
<1>2. CASE Accept \/ EndStream
  <2>1. live /\ UNCHANGED <<pc, outcome>>
    BY <1>0, <1>2 DEF Accept, EndStream, StreamInv, OneConnection, InHandIsOpen, vars
  <2>2. \/ stage' = "open" /\ UNCHANGED <<conns, live>> /\ outcome = "ok"
        \/ stage' \in {"raised", "read"} /\ conns' = conns - 1 /\ live' = FALSE
    <3>1. CASE Accept
      BY <3>1, Zenon DEF Accept
    <3>2. CASE EndStream
      BY <3>2, Zenon DEF EndStream
    <3> QED BY <1>2, <3>1, <3>2
  <2>3. CASE stage' = "open" /\ UNCHANGED <<conns, live>> /\ outcome = "ok"
    BY <1>0, <2>1, <2>3 DEF StreamInv, Stages, OneConnection, InHandIsOpen, Streamed
  <2>4. CASE stage' \in {"raised", "read"} /\ conns' = conns - 1 /\ live' = FALSE
    <3>1. conns' = 0
      BY <1>0, <2>1, <2>4
    <3> QED BY <1>0, <2>1, <2>4, <3>1 DEF StreamInv, Stages, OneConnection, InHandIsOpen, Streamed
  <2> QED BY <2>2, <2>3, <2>4
<1> QED BY <1>1, <1>2

(* For every mix of the layers' retries and every number of opens, one       *)
(* connection is held at most, a failed open leaves none, and a stream is    *)
(* handed over alive.                                                        *)
THEOREM StreamsHoldOneConnection == StreamSpec => []OneConnection
<1>1. StreamInv /\ [StreamNext]_streamVars => StreamInv'
  <2> SUFFICES ASSUME StreamInv, [StreamNext]_streamVars PROVE StreamInv'
    OBVIOUS
  <2>1. CASE UNCHANGED streamVars
    BY <2>1 DEF streamVars, stream, vars, layers, StreamInv, OneConnection, InHandIsOpen,
                Streamed
  <2> QED BY <2>1, RequestHolds, OpeningHolds DEF StreamNext, StreamSteps, Finished
<1>2. StreamInv => OneConnection
  BY DEF StreamInv
<1> QED BY <1>1, <1>2, StreamInvInit, PTL DEF StreamSpec

-----------------------------------------------------------------------------
(* The shared limiter. *)

(* The pause in force is as long as any that a worker was asked for. *)
AskedCovered == \A w \in Workers : asked[w] <= pause_left

PacedInv == LimiterTypeOK /\ OwnerSleeps /\ AskedCovered

LEMMA LongestType == Longest \in Intervals /\ Longest \in Nat
BY DEF Longest

LEMMA SameLongest == Paced!Longest = Longest
BY DEF Longest, Paced!Longest

LEMMA PacedInit == LimiterInit => PacedInv
BY LongestType DEF LimiterInit, PacedInv, LimiterTypeOK, OwnerSleeps, AskedCovered, Unlimited, Places

(* A pause in force holds every worker that asks for a slot. *)
LEMMA SlotIsFree ==
  ASSUME PacedInv, NEW w \in Workers, StartNow(w)
  PROVE  /\ pause_left = 0 /\ \A v \in Workers : asked[v] = 0
         /\ since >= interval
<1>1. at[w] = "acquire"
  BY DEF StartNow, Goes
<1>2. ~(pause_left > 0 /\ w = owner)
  BY <1>1 DEF PacedInv, OwnerSleeps
<1>3. pause_left \in Nat /\ interval \in Nat /\ since \in Nat
  BY LongestType DEF PacedInv, LimiterTypeOK
<1>4. Pacing \in Nat
  BY <1>3 DEF Pacing
<1>5. ~Held(w)
  <2> SUFFICES ASSUME Held(w) PROVE FALSE
    OBVIOUS
  <2>1. PICK j \in 0..MaxJitter :
          0 = IF Pacing > pause_left + j THEN Pacing ELSE pause_left + j
    BY DEF StartNow, Waits
  <2> QED BY <2>1, <1>3, <1>4 DEF Held
<1>6. Pacing = 0
  BY <1>5 DEF StartNow, Waits
<1>7. pause_left = 0
  BY <1>2, <1>3, <1>5 DEF Held
<1> QED BY <1>3, <1>6, <1>7 DEF Pacing, PacedInv, AskedCovered, LimiterTypeOK

-----------------------------------------------------------------------------
(* Each step preserves the invariant. *)

LEMMA AcquireInv ==
  ASSUME PacedInv, NEW w \in Workers, Acquire(w)
  PROVE  PacedInv'
<1>1. CASE StartNow(w)
  <2>1. pause_left' = 0
    BY <1>1, SlotIsFree DEF StartNow
  <2> QED BY <1>1, <2>1, LongestType DEF PacedInv, LimiterTypeOK, OwnerSleeps, AskedCovered,
             StartNow, Goes, Places
<1>2. CASE Wake(w)
  BY <1>2 DEF PacedInv, LimiterTypeOK, OwnerSleeps, AskedCovered, Wake, Goes, Places, limiter
<1>3. ASSUME NEW wait \in Waits(w), SleepForSlot(w, wait) PROVE PacedInv'
  <2>1. wait \in Nat
    <3>1. Pacing \in Nat /\ pause_left \in Nat
      BY LongestType DEF PacedInv, LimiterTypeOK, Pacing
    <3> QED BY <3>1 DEF Waits
  <2>2. at[w] = "acquire"
    BY <1>3 DEF SleepForSlot, Goes
  <2>3. patience' \in [Workers -> Nat \cup {Unlimited}]
    BY <1>3, <2>1 DEF SleepForSlot, TooLong, PacedInv, LimiterTypeOK, Unlimited
  <2>4. OwnerSleeps'
    BY <1>3, <2>2 DEF SleepForSlot, PacedInv, LimiterTypeOK, OwnerSleeps, Goes, limiter
  <2> QED BY <1>3, <2>1, <2>3, <2>4 DEF PacedInv, LimiterTypeOK, AskedCovered, SleepForSlot,
             Goes, Places, limiter
<1>4. ASSUME NEW wait \in Waits(w), RefuseSlot(w, wait) PROVE PacedInv'
  BY <1>4 DEF PacedInv, LimiterTypeOK, OwnerSleeps, AskedCovered, RefuseSlot, Goes, Places, limiter
<1> QED BY <1>1, <1>2, <1>3, <1>4 DEF Acquire

LEMMA PushBackInv ==
  ASSUME PacedInv, NEW w \in Workers, NEW d \in Delays, PushBack(w, d)
  PROVE  PacedInv'
<1>1. d \in Nat /\ pause_left \in Nat /\ at[w] = "sending"
  BY DEF PacedInv, LimiterTypeOK, PushBack, Goes
<1>2. LimiterTypeOK'
  BY <1>1 DEF PacedInv, LimiterTypeOK, PushBack, Goes, Extend, Places
<1>3. OwnerSleeps'
  BY <1>1 DEF PacedInv, LimiterTypeOK, OwnerSleeps, PushBack, Goes, Extend, Places
<1>4. AskedCovered'
  BY <1>1 DEF PacedInv, LimiterTypeOK, AskedCovered, PushBack, Extend
<1> QED BY <1>2, <1>3, <1>4 DEF PacedInv

LEMMA CallInv ==
  ASSUME PacedInv, NEW w \in Workers, Request(w)
  PROVE  PacedInv'
<1>1. CASE Begin(w)
  BY <1>1 DEF PacedInv, LimiterTypeOK, OwnerSleeps, AskedCovered, Begin, Goes, Places, limiter
<1>2. CASE Answered(w)
  BY <1>2 DEF PacedInv, LimiterTypeOK, OwnerSleeps, AskedCovered, Answered, Goes, Places, limiter
<1>3. CASE SleepForBackoff(w)
  BY <1>3 DEF PacedInv, LimiterTypeOK, OwnerSleeps, AskedCovered, SleepForBackoff, Goes, Places,
              limiter
<1>4. CASE SendAgain(w)
  <2>1. at[w] \in {"backoff", "sending"} /\ (at[w] = "backoff" => timer[w] = 0)
    BY <1>4 DEF SendAgain, Goes
  <2>2. OwnerSleeps'
    BY <1>4, <2>1 DEF PacedInv, LimiterTypeOK, OwnerSleeps, SendAgain, Goes, limiter
  <2> QED BY <1>4, <2>2 DEF PacedInv, LimiterTypeOK, AskedCovered, SendAgain, Goes, Places, limiter
<1>5. CASE GiveUp(w)
  <2>1. OwnerSleeps'
    BY <1>5 DEF PacedInv, LimiterTypeOK, OwnerSleeps, GiveUp, Goes, limiter
  <2> QED BY <1>5, <2>1 DEF PacedInv, LimiterTypeOK, AskedCovered, GiveUp, Goes, Places, limiter
<1> QED BY <1>1, <1>2, <1>3, <1>4, <1>5, PushBackInv DEF Request

LEMMA TickInv == ASSUME PacedInv, Tick PROVE PacedInv'
<1>1. since' \in 0..Longest
  BY LongestType DEF PacedInv, LimiterTypeOK, Tick
<1>2. LimiterTypeOK'
  BY <1>1 DEF PacedInv, LimiterTypeOK, Tick, Less
<1>3. OwnerSleeps'
  BY DEF PacedInv, LimiterTypeOK, OwnerSleeps, Tick, Less, Sleeping
<1>4. AskedCovered'
  BY DEF PacedInv, LimiterTypeOK, AskedCovered, Tick, Less
<1> QED BY <1>2, <1>3, <1>4 DEF PacedInv

LEMMA PacedInvHolds == LimiterSpec => []PacedInv
<1>1. PacedInv /\ [LimiterNext]_limiterVars => PacedInv'
  <2> SUFFICES ASSUME PacedInv, [LimiterNext]_limiterVars PROVE PacedInv'
    OBVIOUS
  <2>1. CASE UNCHANGED limiterVars
    BY <2>1 DEF PacedInv, LimiterTypeOK, OwnerSleeps, AskedCovered, limiterVars, limiter
  <2>2. ASSUME NEW i \in Intervals, SetRate(i) PROVE PacedInv'
    BY <2>2 DEF PacedInv, LimiterTypeOK, OwnerSleeps, AskedCovered, SetRate
  <2> QED BY <2>1, <2>2, AcquireInv, CallInv, TickInv DEF LimiterNext
<1> QED BY <1>1, PacedInit, PTL DEF LimiterSpec

(* The limiter's state and the threads' keep their types. *)
THEOREM LimiterTypes == LimiterSpec => []LimiterTypeOK
<1>1. PacedInv => LimiterTypeOK
  BY DEF PacedInv
<1> QED BY <1>1, PacedInvHolds, PTL

(* However pauses overlap and move between owners, the exempt thread sleeps. *)
THEOREM ExemptSleeps == LimiterSpec => []OwnerSleeps
<1>1. PacedInv => OwnerSleeps
  BY DEF PacedInv
<1> QED BY <1>1, PacedInvHolds, PTL

-----------------------------------------------------------------------------
(* Each step is a step of PacedStarts or leaves its state alone. *)

LEMMA StepPaced ==
  ASSUME PacedInv, LimiterNext
  PROVE  [Paced!Next]_(Paced!paced)
<1> USE DEF Paced!paced, limiter
<1>1. ASSUME NEW w \in Workers, StartNow(w) PROVE Paced!Next
  BY <1>1, SlotIsFree DEF StartNow, Paced!Start, Paced!Next
<1>2. ASSUME NEW w \in Workers, Acquire(w), ~StartNow(w) PROVE UNCHANGED Paced!paced
  BY <1>2 DEF Acquire, Wake, SleepForSlot, RefuseSlot
<1>3. ASSUME NEW w \in Workers, NEW d \in Delays, PushBack(w, d) PROVE Paced!Next
  BY <1>3 DEF PushBack, Paced!Ask, Paced!Next
<1>4. ASSUME NEW w \in Workers, Request(w), \A d \in Delays : ~PushBack(w, d)
      PROVE  UNCHANGED Paced!paced
  BY <1>4 DEF Request, Begin, Answered, SleepForBackoff, SendAgain, GiveUp
<1>5. ASSUME NEW i \in Intervals, SetRate(i) PROVE Paced!Next
  BY <1>5 DEF SetRate, Paced!SetRate, Paced!Next
<1>6. CASE Tick
  BY <1>6, SameLongest DEF Tick, Less, Paced!Pass, Paced!Next
<1> QED BY <1>1, <1>2, <1>3, <1>4, <1>5, <1>6 DEF LimiterNext

(* For any number of threads, starts are an interval apart and never inside a *)
(* pause that any thread was asked for.                                       *)
THEOREM StartsArePaced == LimiterSpec => ImplementsPacedStarts
<1>1. LimiterInit => Paced!Init
  BY SameLongest DEF LimiterInit, Paced!Init
<1>2. PacedInv /\ [LimiterNext]_limiterVars => [Paced!Next]_(Paced!paced)
  <2>1. UNCHANGED limiterVars => UNCHANGED Paced!paced
    BY DEF limiterVars, limiter, Paced!paced
  <2> QED BY <2>1, StepPaced
<1> QED BY <1>1, <1>2, PacedInvHolds, PTL DEF LimiterSpec, Paced!Spec, ImplementsPacedStarts
=============================================================================
