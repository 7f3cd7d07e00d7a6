------------------------- MODULE RunLifecycleProofs -------------------------
(***************************************************************************)
(* Safety of the submit/recover/retry loop for every number of attempts and *)
(* lookups, every set of faults and every choice of submission ids.         *)
(***************************************************************************)
EXTENDS PreparedRun, TLAPS

USE ConstantsOK DEF Attempts, None, MaybeAttempt

LEMMA SettingFixed == [Next]_vars => UNCHANGED setting
  BY DEF Next, Manager, Server, Finished, vars

(* Typing alone is not inductive: that Release stays within the attempts     *)
(* rests on a retry being asked for only when one is left.                   *)
Typed == TypeOK /\ RetryHasRoom

LEMMA TypedInit == Init => Typed
  BY DEF Init, Typed, TypeOK, RetryHasRoom, PCs, Verdicts

LEMMA TypedStep == Typed /\ [Next]_vars => Typed'
<1> SUFFICES ASSUME Typed, [Next]_vars PROVE Typed'
  OBVIOUS
<1>0. UNCHANGED setting
  BY SettingFixed
<1> USE <1>0 DEF Typed, TypeOK, RetryHasRoom, PCs, Verdicts
<1>1. CASE StartAttempt
  BY <1>1 DEF StartAttempt, ReusesFrozenBody, FirstStep
<1>2. CASE PrepareFails
  BY <1>2 DEF PrepareFails
<1>3. CASE SendCreate
  BY <1>3 DEF SendCreate
<1>4. CASE BeforeSubmitFails \/ CreateFails
  <2>1. BeginRecovery
    BY <1>4 DEF BeforeSubmitFails, CreateFails
  <2>2. QED
    BY <2>1 DEF BeginRecovery
<1>5. CASE CreateReturns
  BY <1>5 DEF CreateReturns
<1>6. CASE CreateReturnsNoId
  <2>1. CASE BeginRecovery
    BY <2>1 DEF BeginRecovery
  <2>2. CASE ~BeginRecovery
    BY <1>6, <2>2 DEF CreateReturnsNoId
  <2>3. QED
    BY <2>1, <2>2
<1>7. CASE LookupFindsNone
  BY <1>7 DEF LookupFindsNone, MoreLookups
<1>8. CASE LookupFindsOne
  BY <1>8 DEF LookupFindsOne, Matches, Runs
<1>9. CASE LookupFails \/ LookupsExhausted
  BY <1>9 DEF LookupFails, LookupsExhausted, NothingRecovered
<1>10. CASE LookupFindsMany \/ SubmitHookFails \/ BeginWait \/ Succeed
            \/ WaitFails \/ FailFast \/ Escape
  BY <1>10 DEF LookupFindsMany, SubmitHookFails, BeginWait, Succeed,
               WaitFails, FailFast, Escape
<1>11. CASE Retry \/ CancelFails
  BY <1>11 DEF Retry, CancelFails
<1>12. CASE Release
  BY <1>12 DEF Release, NextAttempt
<1>13. ASSUME NEW r \in Attempts, Apply(r) \/ Lose(r)
       PROVE  Typed'
  <2>1. net' \in [Attempts -> {"unsent", "flying", "applied", "lost"}]
    BY <1>13 DEF Apply, Lose
  <2>2. UNCHANGED manager
    BY <1>13 DEF Apply, Lose
  <2>3. QED
    BY <2>1, <2>2 DEF manager
<1>14. CASE Finished \/ UNCHANGED vars
  BY <1>14 DEF Finished, vars, manager
<1>15. QED
  BY <1>1, <1>2, <1>3, <1>4, <1>5, <1>6, <1>7, <1>8, <1>9, <1>10, <1>11,
     <1>12, <1>13, <1>14
     DEF Next, Server, Manager, Submit, Recover, Conclude

(* Every reachable state of the manager and the server is well typed.        *)
THEOREM TypeCorrect == Spec => []TypeOK
<1>1. Typed => TypeOK
  BY DEF Typed
<1>2. QED
  BY TypedInit, TypedStep, <1>1, PTL DEF Spec
-----------------------------------------------------------------------------
(* Which attempts have a body, a request and a run, by the loop's position.  *)
Shape ==
  /\ \A a \in Attempts : a < attempt => body[a] # None
  /\ \A a \in Attempts : body[a] # None => body[a] <= a /\ a <= attempt
  /\ \A a \in Attempts : run[a] # None => body[a] # None /\ run[a] <= a
  /\ \A a \in Attempts : net[a] # "unsent" => body[a] # None
  /\ pc = "start" => body[attempt] = None
  /\ pc \notin {"start", "done"} => body[attempt] # None
  /\ pc \in {"lookup", "submit", "response"} => run[attempt] = None
  /\ pc = "submit" \/ (pc = "lookup" /\ seeks = "previous") =>
       net[attempt] = "unsent"

(* The steps that leave bodies, runs, requests and the counter alone.        *)
Quiet == \/ PrepareFails \/ BeforeSubmitFails \/ CreateFails
         \/ CreateReturnsNoId \/ LookupFindsNone \/ LookupFindsMany
         \/ LookupFails \/ LookupsExhausted
         \/ SubmitHookFails \/ BeginWait \/ Succeed \/ WaitFails
         \/ Retry \/ FailFast \/ CancelFails \/ Escape

(* The steps by which an attempt learns its run, and what they have in       *)
(* common: the run exists and belongs to the attempt's submission.           *)
Learn == CreateReturns \/ LookupFindsOne

LEMMA NextCases ==
  [Next]_vars =>
    \/ StartAttempt \/ SendCreate \/ Learn \/ Quiet \/ Release
    \/ \E r \in Attempts : Apply(r) \/ Lose(r)
    \/ UNCHANGED vars
  BY DEF Next, Manager, Submit, Recover, Conclude, Server, Learn, Quiet, Finished

LEMMA QuietSteps ==
  ASSUME Quiet
  PROVE  /\ UNCHANGED <<body, run, net, attempt>>
         /\ pc # "done" /\ pc' # "start"
         /\ pc' \in {"lookup", "submit"} => pc \in {"lookup", "submit", "response"}
         /\ pc' # "response"
         /\ pc' = "submit" => pc = "lookup" /\ seeks = "previous"
         /\ pc' = "lookup" /\ seeks' = "previous" => pc = "lookup" /\ seeks = "previous"
         /\ pc = "start" => pc' = "done"
<1> USE DEF Quiet
<1>1. CASE PrepareFails
  BY <1>1 DEF PrepareFails
<1>2. CASE BeforeSubmitFails \/ CreateFails
  BY <1>2 DEF BeforeSubmitFails, CreateFails, BeginRecovery
<1>3. CASE CreateReturnsNoId
  BY <1>3 DEF CreateReturnsNoId, BeginRecovery
<1>4. CASE LookupFindsNone \/ LookupFindsMany \/ LookupFails \/ LookupsExhausted
  BY <1>4 DEF LookupFindsNone, LookupFindsMany, LookupFails, LookupsExhausted,
              NothingRecovered
<1>5. CASE SubmitHookFails \/ BeginWait \/ Succeed \/ WaitFails
           \/ Retry \/ FailFast \/ CancelFails \/ Escape
  BY <1>5 DEF SubmitHookFails, BeginWait, Succeed, WaitFails, Retry, FailFast,
              CancelFails, Escape
<1>6. QED
  BY <1>1, <1>2, <1>3, <1>4, <1>5

LEMMA LearnSteps ==
  ASSUME Learn, Typed, Shape
  PROVE  \E r \in Runs :
           /\ SameSubmission(r, attempt)
           /\ run'[attempt] = r
           /\ \A a \in Attempts : a # attempt => run'[a] = run[a]
           /\ UNCHANGED <<body, net, attempt, cancelled, verdict>>
           /\ pc \in {"lookup", "response"}
           /\ pc' = "submitted"
<1>1. CASE CreateReturns
  <2>1. attempt \in Runs /\ SameSubmission(attempt, attempt)
    BY <1>1 DEF CreateReturns, Runs, SameSubmission, Shape, Typed, TypeOK
  <2>2. QED
    BY <1>1, <2>1 DEF CreateReturns, Typed, TypeOK
<1>2. CASE LookupFindsOne
  BY <1>2 DEF LookupFindsOne, Matches, Typed, TypeOK
<1>3. QED
  BY <1>1, <1>2 DEF Learn

LEMMA ShapeInit == Init => Shape
  BY DEF Init, Shape

LEMMA ShapeStep == Typed /\ Typed' /\ Shape /\ [Next]_vars => Shape'
<1> SUFFICES ASSUME Typed, Typed', Shape, [Next]_vars PROVE Shape'
  OBVIOUS
<1> USE DEF Typed, TypeOK, Shape
<1>1. CASE StartAttempt
  BY <1>1 DEF StartAttempt, ReusesFrozenBody, FirstStep
<1>2. CASE SendCreate
  BY <1>2 DEF SendCreate
<1>3. CASE Learn
  <2>1. PICK r \in Runs :
          /\ run'[attempt] = r
          /\ \A a \in Attempts : a # attempt => run'[a] = run[a]
          /\ UNCHANGED <<body, net, attempt>>
          /\ pc \in {"lookup", "response"}
          /\ pc' = "submitted"
    BY <1>3, LearnSteps
  <2>2. body[attempt] # None /\ r <= attempt
    BY <2>1 DEF Runs
  <2>3. \A a \in Attempts : run'[a] # None => body[a] # None /\ run'[a] <= a
    BY <2>1, <2>2
  <2>4. pc' \notin {"start", "lookup", "submit", "response"}
    BY <2>1
  <2>5. QED
    BY <2>1, <2>2, <2>3, <2>4
<1>4. CASE Quiet
  BY <1>4, QuietSteps
<1>5. CASE Release
  BY <1>5 DEF Release, NextAttempt, RetryHasRoom
<1>6. ASSUME NEW r \in Attempts, Apply(r) \/ Lose(r)
      PROVE  Shape'
  BY <1>6 DEF Apply, Lose, manager
<1>7. CASE UNCHANGED vars
  BY <1>7 DEF vars, manager
<1>8. QED
  BY <1>1, <1>2, <1>3, <1>4, <1>5, <1>6, <1>7, NextCases
-----------------------------------------------------------------------------
(* The frozen body is passed on exactly while no attempt knows its run.      *)
LEMMA FrozenStep ==
  ASSUME Typed, Shape, FrozenWhileInDoubt, [Next]_vars
  PROVE  FrozenWhileInDoubt'
<1>1. /\ attempt \in Attempts
      /\ \A a \in Attempts : body[a] # None => body[a] <= a /\ a <= attempt
      /\ \A a, b \in Attempts : a < b /\ body[b] # None =>
           (body[a] = body[b] <=> \A c \in a..(b - 1) : run[c] = None)
  BY DEF Typed, TypeOK, Shape, FrozenWhileInDoubt
<1> SUFFICES ASSUME NEW a \in Attempts, NEW b \in Attempts, a < b,
                    body'[b] # None
             PROVE  body'[a] = body'[b] <=> \A c \in a..(b - 1) : run'[c] = None
  BY DEF FrozenWhileInDoubt
<1>2. CASE UNCHANGED <<body, run>>
  BY <1>1, <1>2
<1>3. CASE StartAttempt
  <2>1. /\ run' = run
        /\ body[attempt] = None
        /\ \A d \in Attempts : d # attempt => body'[d] = body[d]
        /\ body'[attempt] = IF attempt > 1 /\ run[attempt - 1] = None
                             THEN body[attempt - 1] ELSE attempt
    BY <1>3 DEF StartAttempt, ReusesFrozenBody, Typed, TypeOK, Shape
  <2>2. CASE b # attempt
    <3>1. body'[b] = body[b] /\ a # attempt
      BY <1>1, <2>1, <2>2
    <3>2. QED
      BY <1>1, <2>1, <3>1
  <2>3. CASE b = attempt /\ run[b - 1] # None
    BY <1>1, <2>1, <2>3
  <2>4. CASE b = attempt /\ run[b - 1] = None
    <3>1. body'[b] = body[b - 1] /\ body'[a] = body[a]
      BY <2>1, <2>4
    <3>2. CASE a = b - 1
      BY <2>1, <2>4, <3>1, <3>2
    <3>3. CASE a < b - 1
      <4>1. body[a] = body[b - 1] <=> \A c \in a..(b - 2) : run[c] = None
        BY <1>1, <2>1, <2>4, <3>3 DEF Shape
      <4>2. \A c \in a..(b - 1) : c = b - 1 \/ c \in a..(b - 2)
        BY <3>3
      <4>3. QED
        BY <2>1, <2>4, <3>1, <3>3, <4>1, <4>2
    <3>4. QED
      BY <3>2, <3>3
  <2>5. QED
    BY <2>2, <2>3, <2>4
<1>4. CASE Learn
  <2>1. /\ \A d \in Attempts : d # attempt => run'[d] = run[d]
        /\ UNCHANGED <<body, attempt>>
    BY <1>4, LearnSteps
  <2>2. b <= attempt
    BY <1>1, <2>1
  <2>3. \A c \in a..(b - 1) : run'[c] = run[c]
    BY <1>1, <2>1, <2>2
  <2>4. QED
    BY <1>1, <2>1, <2>3
<1>5. CASE SendCreate \/ Quiet \/ Release \/ UNCHANGED vars
           \/ \E r \in Attempts : Apply(r) \/ Lose(r)
  BY <1>2, <1>5, QuietSteps DEF SendCreate, Release, Apply, Lose, manager, vars
<1>6. QED
  BY <1>3, <1>4, <1>5, NextCases

(* Runs are never withdrawn and bodies never change under a running attempt, *)
(* so what was learnt stays true.                                            *)
LEMMA TracksStep ==
  ASSUME Typed, Shape, TracksOwnSubmission, [Next]_vars
  PROVE  TracksOwnSubmission'
<1>0. UNCHANGED PinnedId
  BY SettingFixed DEF PinnedId
<1> USE <1>0 DEF Typed, TypeOK, Shape, TracksOwnSubmission, Runs,
                 SameSubmission, SubmissionId
<1>1. CASE StartAttempt
  BY <1>1 DEF StartAttempt
<1>2. CASE SendCreate
  BY <1>2 DEF SendCreate
<1>3. CASE Learn
  <2>1. PICK r \in Runs :
          /\ SameSubmission(r, attempt)
          /\ run'[attempt] = r
          /\ \A a \in Attempts : a # attempt => run'[a] = run[a]
          /\ UNCHANGED <<body, net, attempt>>
    BY <1>3, LearnSteps
  <2>2. QED
    BY <2>1
<1>4. CASE Quiet \/ Release \/ UNCHANGED vars
  <2>1. UNCHANGED <<body, run, net>>
    BY <1>4, QuietSteps DEF Release, vars, manager
  <2>2. QED
    BY <2>1
<1>5. ASSUME NEW r \in Attempts, Apply(r) \/ Lose(r)
      PROVE  TracksOwnSubmission'
  BY <1>5 DEF Apply, Lose, manager
<1>6. QED
  BY <1>1, <1>2, <1>3, <1>4, <1>5, NextCases

(* For any number of attempts and any faults: a submit body is reused while  *)
(* its fate is in doubt and only then, and the run an attempt tracks was     *)
(* made from its own submission, whatever was late, lost or adopted.         *)
THEOREM SubmissionsKept == Spec => []SubmissionFollowed
<1> DEFINE IInv == Typed /\ Shape /\ FrozenWhileInDoubt /\ TracksOwnSubmission
<1>1. Init => IInv
  <2> SUFFICES ASSUME Init PROVE FrozenWhileInDoubt /\ TracksOwnSubmission
    BY TypedInit, ShapeInit
  <2>1. QED
    BY DEF Init, FrozenWhileInDoubt, TracksOwnSubmission
<1>2. IInv /\ [Next]_vars => IInv'
  BY TypedStep, ShapeStep, FrozenStep, TracksStep
<1>3. IInv => SubmissionFollowed
  BY DEF SubmissionFollowed
<1>4. QED
  BY <1>1, <1>2, <1>3, PTL DEF Spec
-----------------------------------------------------------------------------
(* Exactly-once submission. *)

(* Two attempts share a submission exactly when they share a body: ids are   *)
(* minted with the body.                                                     *)
SameBody(a, b) == body[a] # None /\ body[a] = body[b]

(* A request is under way only while its attempt waits for the answer, or    *)
(* after the call was interrupted; wherever a create may still land or is    *)
(* about to be sent, the server has no run of that submission.               *)
NoRival ==
  /\ \A r \in Attempts : net[r] = "flying" =>
       r = attempt /\ (pc = "response" \/ verdict = "aborted")
  /\ verdict = "aborted" => pc \in {"release", "done"}
  /\ \/ pc = "submit"
     \/ net[attempt] = "flying"
     \/ pc = "lookup" /\ lookups > 0
     => \A r \in Attempts : net[r] = "applied" => ~SameBody(r, attempt)
  /\ \A r, s \in Attempts :
       net[r] = "applied" /\ net[s] = "applied" /\ SameBody(r, s) => r = s

LEMMA NoRivalStep ==
  ASSUME Settled, Typed, Shape, NoRival, [Next]_vars
  PROVE  NoRival'
<1> USE DEF SameBody
<1>1. /\ attempt \in Attempts /\ lookups \in 0..RecoveryLookups
      /\ body \in [Attempts -> MaybeAttempt]
      /\ net \in [Attempts -> {"unsent", "flying", "applied", "lost"}]
      /\ RecoveryLookups > 0 /\ "late" \notin Faults /\ "lookup" \notin Faults
  BY DEF Typed, TypeOK, Settled
<1>2. CASE StartAttempt
  <2>1. /\ \A r \in Attempts : r # attempt => body'[r] = body[r]
        /\ UNCHANGED <<net, attempt, verdict>>
        /\ lookups' = 0
        /\ pc = "start" /\ body[attempt] = None
        /\ pc' = "submit" => body'[attempt] = attempt
        /\ pc' \in {"submit", "lookup"}
    BY <1>1, <1>2 DEF StartAttempt, FirstStep, Shape
  <2>2. \A r \in Attempts : net[r] # "flying"
    BY <2>1 DEF NoRival
  <2>3. \A r \in Attempts : net[r] = "applied" =>
          r # attempt /\ r < attempt /\ body[r] # attempt
    BY <1>1, <2>1 DEF Shape
  <2>4. QED
    BY <1>1, <2>1, <2>2, <2>3 DEF NoRival
<1>3. CASE SendCreate
  <2>1. /\ pc = "submit" /\ pc' = "response"
        /\ UNCHANGED <<attempt, body, verdict>>
        /\ net'[attempt] = "flying"
        /\ \A r \in Attempts : r # attempt => net'[r] = net[r]
    BY <1>1, <1>3 DEF SendCreate
  <2>2. QED
    BY <1>1, <2>1 DEF NoRival
<1>4. CASE LookupFindsNone
  <2>1. \A r \in Attempts : net[r] = "applied" => ~SameBody(r, attempt)
    BY <1>1, <1>4 DEF LookupFindsNone, Matches, Runs, SameSubmission,
                     SubmissionId, Settled
  <2>2. UNCHANGED <<pc, net, body, attempt, verdict>> /\ pc = "lookup"
    BY <1>4 DEF LookupFindsNone
  <2>3. QED
    BY <1>1, <2>1, <2>2 DEF NoRival
<1>5. CASE LookupsExhausted
  <2>1. /\ UNCHANGED <<net, body, attempt, verdict, lookups>>
        /\ pc = "lookup" /\ lookups > 0
        /\ pc' \in {"submit", "failed"}
    BY <1>1, <1>5 DEF LookupsExhausted, NothingRecovered, MoreLookups
  <2>2. QED
    BY <1>1, <2>1 DEF NoRival
<1>6. CASE BeforeSubmitFails \/ CreateFails \/ CreateReturnsNoId
  <2>1. /\ UNCHANGED <<net, body, attempt, verdict>>
        /\ pc \in {"submit", "response"}
        /\ pc' \in {"lookup", "submitted"}
        /\ pc' = "lookup" => lookups' = 0
        /\ pc = "response" => net[attempt] # "flying"
    BY <1>1, <1>6 DEF BeforeSubmitFails, CreateFails, CreateReturnsNoId,
                     BeginRecovery
  <2>2. \A r \in Attempts : net[r] # "flying"
    BY <1>1, <2>1 DEF NoRival
  <2>3. QED
    BY <1>1, <2>1, <2>2 DEF NoRival
<1>7. CASE Learn
  <2>1. /\ UNCHANGED <<net, body, attempt, verdict>>
        /\ pc \in {"lookup", "response"}
        /\ pc' = "submitted"
        /\ pc = "response" => net[attempt] # "flying"
    BY <1>1, <1>7, LearnSteps DEF Learn, CreateReturns, LookupFindsOne
  <2>2. QED
    BY <1>1, <2>1 DEF NoRival
<1>8. CASE \/ PrepareFails \/ LookupFindsMany \/ SubmitHookFails \/ BeginWait
           \/ Succeed \/ WaitFails \/ Retry \/ FailFast \/ CancelFails \/ Escape
  <2>1. /\ UNCHANGED <<net, body, attempt, lookups>>
        /\ pc' \notin {"submit", "lookup", "response"}
        /\ verdict' = "aborted" => pc' \in {"release", "done"}
        /\ pc = "response" => verdict' = "aborted"
        /\ verdict = "aborted" => pc \in {"release", "done"}
        /\ pc \notin {"release", "done"}
    BY <1>8 DEF PrepareFails, LookupFindsMany, SubmitHookFails, BeginWait,
                Succeed, WaitFails, Retry, FailFast, CancelFails, Escape, NoRival
  <2>2. QED
    BY <1>1, <2>1 DEF NoRival
<1>9. CASE Release
  <2>1. /\ UNCHANGED <<net, body>>
        /\ pc = "release"
        /\ \/ pc' = "start" /\ verdict = "retry" /\ verdict' = "none"
           \/ pc' = "done" /\ UNCHANGED <<attempt, verdict>>
    BY <1>9 DEF Release
  <2>2. CASE pc' = "start" /\ verdict = "retry" /\ verdict' = "none"
    <3>1. \A r \in Attempts : net[r] # "flying"
      BY <2>1, <2>2 DEF NoRival
    <3>2. attempt' \in Attempts
      BY <1>1, <1>9, <2>2 DEF Release, NextAttempt, Typed, RetryHasRoom
    <3>3. QED
      BY <2>1, <2>2, <3>1, <3>2 DEF NoRival
  <2>3. CASE pc' = "done" /\ UNCHANGED <<attempt, verdict>>
    BY <1>1, <2>1, <2>3 DEF NoRival
  <2>4. QED
    BY <2>1, <2>2, <2>3
<1>10. ASSUME NEW r \in Attempts, Apply(r) \/ Lose(r)
       PROVE  NoRival'
  <2>1. /\ UNCHANGED <<pc, body, attempt, verdict, lookups>>
        /\ net[r] = "flying"
        /\ net'[r] \in {"applied", "lost"}
        /\ \A s \in Attempts : s # r => net'[s] = net[s]
    BY <1>1, <1>10 DEF Apply, Lose, manager
  <2>2. r = attempt /\ pc \notin {"submit", "lookup"}
    BY <2>1 DEF NoRival
  <2>3. QED
    BY <1>1, <2>1, <2>2 DEF NoRival
<1>11. CASE UNCHANGED vars
  BY <1>11 DEF vars, manager, NoRival
<1>12. ~LookupFails
  BY <1>1 DEF LookupFails
<1>13. QED
  BY <1>2, <1>3, <1>4, <1>5, <1>6, <1>7, <1>8, <1>9, <1>10, <1>11, <1>12,
     NextCases DEF Quiet

Exact == Typed /\ Shape /\ (Settled => NoRival)

LEMMA ExactInit == Init => Exact
<1> SUFFICES ASSUME Init PROVE NoRival
  BY TypedInit, ShapeInit DEF Exact
<1>1. QED
  BY DEF Init, NoRival, SameBody

LEMMA ExactStep == Exact /\ [Next]_vars => Exact'
<1> SUFFICES ASSUME Exact, [Next]_vars PROVE Exact'
  OBVIOUS
<1> USE DEF Exact
<1>1. Settled' <=> Settled
  BY SettingFixed DEF Settled, PinnedId, Faults
<1>2. Typed' /\ Shape'
  BY TypedStep, ShapeStep
<1>3. CASE Settled
  BY <1>1, <1>2, <1>3, NoRivalStep
<1>4. CASE ~Settled
  BY <1>1, <1>2, <1>4
<1>5. QED
  BY <1>3, <1>4

LEMMA ExactInvariance == Spec => []Exact
  BY ExactInit, ExactStep, PTL DEF Spec

(* When a failed create is settled before the lookups and the lookups work,  *)
(* no number of failures, interruptions, missing ids and retries makes the   *)
(* server run one submission twice.                                          *)
THEOREM ExactlyOnce == Spec => []AtMostOneRun
<1>1. Exact => AtMostOneRun
  BY DEF Exact, NoRival, SameBody, AtMostOneRun, Runs, SameSubmission,
         SubmissionId, Settled
<1>2. QED
  BY <1>1, ExactInvariance, PTL

(* The recovery gives up a submit only at the end of its lookups: on a        *)
(* settled server NoRival then says that none of its runs exists.            *)
LEMMA ReportStep ==
  ASSUME Settled, Typed, NoRival, [Next]_vars,
         NEW a \in reported' \ reported, NEW r \in Runs
  PROVE  ~SameSubmission(r, a)
<1>1. LookupsExhausted /\ a = attempt
  <2>1. CASE LookupFails \/ LookupsExhausted
    BY <2>1 DEF LookupFails, LookupsExhausted, NothingRecovered, Settled
  <2>2. CASE Quiet /\ ~LookupFails /\ ~LookupsExhausted
    BY <2>2 DEF Quiet, PrepareFails, BeforeSubmitFails, CreateFails,
       CreateReturnsNoId, BeginRecovery, LookupFindsNone, LookupFindsMany,
       SubmitHookFails, BeginWait, Succeed, WaitFails, Retry, FailFast,
       CancelFails, Escape
  <2>3. CASE StartAttempt \/ SendCreate \/ Learn \/ Release
    BY <2>3 DEF StartAttempt, SendCreate, Learn, CreateReturns, LookupFindsOne,
       Release
  <2>4. CASE UNCHANGED vars \/ \E s \in Attempts : Apply(s) \/ Lose(s)
    BY <2>4 DEF vars, manager, Apply, Lose
  <2>5. QED
    BY <2>1, <2>2, <2>3, <2>4, NextCases
<1>2. pc = "lookup" /\ lookups > 0
  BY <1>1 DEF LookupsExhausted, MoreLookups, Settled, Typed, TypeOK
<1>3. ~SameBody(r, attempt)
  BY <1>2 DEF NoRival, Runs
<1>4. QED
  BY <1>1, <1>3 DEF SameBody, SameSubmission, SubmissionId, Settled

(* Under the same conditions on_submit_error never runs for a submission     *)
(* that the server has a run of, at whatever point the create was cut off.   *)
THEOREM SubmitErrorsAreTrue == Spec => ReportsTruthfully
<1>1. Exact /\ [Next]_vars =>
        [Settled => \A a \in reported' \ reported :
                      \A r \in Runs : ~SameSubmission(r, a)]_vars
  BY ReportStep DEF Exact
<1>2. QED
  BY <1>1, ExactInvariance, PTL DEF Spec, ReportsTruthfully

-----------------------------------------------------------------------------
(* Cancellation. *)

(* What was cancelled was tracked by an attempt that has already failed.     *)
CancelledFailed ==
  /\ \A r \in cancelled : \E c \in Attempts :
       /\ run[c] = r
       /\ c < attempt \/ (c = attempt /\ verdict \in {"retry", "aborted"})
  /\ verdict \in {"retry", "aborted", "success"} => pc \in {"release", "done"}
  /\ verdict = "retry" => pc = "release"

LEMMA CancelledFailedStep ==
  ASSUME Typed, Shape, CancelledFailed, [Next]_vars
  PROVE  CancelledFailed'
<1>1. /\ attempt \in Attempts /\ cancelled \subseteq Attempts
      /\ run \in [Attempts -> MaybeAttempt]
      /\ \A c \in Attempts : run[c] # None => c <= attempt
  BY DEF Typed, TypeOK, Shape
<1>2. CASE StartAttempt \/ SendCreate
           \/ \E r \in Attempts : Apply(r) \/ Lose(r)
  BY <1>1, <1>2 DEF StartAttempt, FirstStep, SendCreate, Apply, Lose, manager,
                    CancelledFailed
<1>3. CASE Learn
  <2>1. /\ \A c \in Attempts : c # attempt => run'[c] = run[c]
        /\ UNCHANGED <<attempt, cancelled, verdict>>
        /\ pc \in {"lookup", "response"}
        /\ pc' = "submitted"
    BY <1>3, LearnSteps
  <2>2. verdict \notin {"retry", "aborted", "success"}
    BY <2>1 DEF CancelledFailed
  <2>3. QED
    BY <1>1, <2>1, <2>2 DEF CancelledFailed
<1>4. CASE Retry \/ CancelFails
  <2>1. /\ UNCHANGED <<run, attempt>>
        /\ pc' = "release"
        /\ verdict' \in {"retry", "aborted"}
        /\ \A r \in cancelled' : r \in cancelled \/ r = run[attempt]
    BY <1>4 DEF Retry, CancelFails
  <2>2. \A r \in cancelled : \E c \in Attempts : run[c] = r /\ c <= attempt
    BY <1>1 DEF CancelledFailed
  <2>3. QED
    BY <1>1, <2>1, <2>2 DEF CancelledFailed
<1>5. CASE Release
  <2>1. UNCHANGED <<run, cancelled>> /\ pc = "release"
    BY <1>5 DEF Release
  <2>2. CASE verdict = "retry"
    BY <1>1, <1>5, <2>1, <2>2 DEF Release, NextAttempt, CancelledFailed
  <2>3. CASE verdict # "retry"
    BY <1>1, <1>5, <2>1, <2>3 DEF Release, CancelledFailed
  <2>4. QED
    BY <2>2, <2>3
<1>6. CASE Quiet /\ ~Retry /\ ~CancelFails
  <2>1. UNCHANGED <<run, attempt, cancelled>>
    BY <1>6, QuietSteps DEF Quiet, PrepareFails, BeforeSubmitFails, CreateFails,
       CreateReturnsNoId, BeginRecovery, LookupFindsNone, LookupFindsMany,
       LookupFails, LookupsExhausted, NothingRecovered, SubmitHookFails,
       BeginWait, Succeed, WaitFails, FailFast, Escape
  <2>2. /\ pc \notin {"release", "done"}
        /\ verdict' # verdict =>
             pc' \in {"release", "done"} /\ verdict' # "retry"
    <3>1. CASE \/ PrepareFails \/ LookupFindsMany \/ Succeed \/ FailFast \/ Escape
      BY <3>1 DEF PrepareFails, LookupFindsMany, Succeed, FailFast, Escape
    <3>2. CASE \/ BeforeSubmitFails \/ CreateFails \/ CreateReturnsNoId
               \/ LookupFindsNone \/ LookupFails \/ LookupsExhausted
      BY <3>2 DEF BeforeSubmitFails, CreateFails, CreateReturnsNoId,
         BeginRecovery, LookupFindsNone, LookupFails, LookupsExhausted,
         NothingRecovered
    <3>3. CASE SubmitHookFails \/ BeginWait \/ WaitFails
      BY <3>3 DEF SubmitHookFails, BeginWait, WaitFails
    <3>4. QED
      BY <1>6, <3>1, <3>2, <3>3 DEF Quiet
  <2>3. QED
    BY <1>1, <2>1, <2>2 DEF CancelledFailed
<1>7. CASE UNCHANGED vars
  BY <1>7 DEF vars, manager, CancelledFailed
<1>8. QED
  BY <1>2, <1>3, <1>4, <1>5, <1>6, <1>7, NextCases DEF Quiet

(* With ids minted per body, a cancelled run is never handed back as the     *)
(* result, although a later recovery may list runs of earlier attempts; with *)
(* a pinned id it is only by adoption.                                       *)
THEOREM CancelledIsNeverTheResult == Spec => []SuccessNotCancelled
<1> DEFINE IInv == /\ Typed /\ Shape /\ FrozenWhileInDoubt
                   /\ TracksOwnSubmission /\ CancelledFailed
<1>1. Init => IInv
  <2> SUFFICES ASSUME Init
               PROVE  FrozenWhileInDoubt /\ TracksOwnSubmission /\ CancelledFailed
    BY TypedInit, ShapeInit
  <2>1. QED
    BY DEF Init, FrozenWhileInDoubt, TracksOwnSubmission, CancelledFailed
<1>2. IInv /\ [Next]_vars => IInv'
  BY TypedStep, ShapeStep, FrozenStep, TracksStep, CancelledFailedStep
<1>3. IInv => SuccessNotCancelled
  <2> SUFFICES ASSUME IInv, verdict = "success", run[attempt] \in cancelled
               PROVE  PinnedId /\ run[attempt] # attempt
    BY DEF SuccessNotCancelled
  <2>1. PICK c \in Attempts : run[c] = run[attempt] /\ c < attempt
    BY DEF CancelledFailed
  <2>2. run[c] # None /\ attempt \in Attempts
    BY <2>1 DEF Typed, TypeOK
  <2>3. run[attempt] # attempt
    BY <2>1, <2>2 DEF Shape
  <2>4. CASE ~PinnedId
    <3>1. body[c] = body[attempt] /\ body[attempt] # None
      BY <2>1, <2>2, <2>4 DEF TracksOwnSubmission, SameSubmission, SubmissionId
    <3>2. \A d \in c..(attempt - 1) : run[d] = None
      BY <2>1, <2>2, <3>1 DEF FrozenWhileInDoubt
    <3>3. QED
      BY <2>1, <2>2, <3>2
  <2>5. QED
    BY <2>3, <2>4
<1>4. QED
  BY <1>1, <1>2, <1>3, PTL DEF Spec

-----------------------------------------------------------------------------
(* The loop implements LogicalRun. *)

(* Bodies are numbered in the order they are built, and a verdict is only    *)
(* there on the way out of an attempt.                                       *)
Ordered ==
  /\ \A a, b \in Attempts : a < b /\ body[b] # None => body[a] <= body[b]
  /\ verdict # "none" => pc \in {"release", "done"}
  /\ verdict = "retry" => pc = "release"

LEMMA QuietVerdicts ==
  ASSUME Quiet
  PROVE  /\ pc \notin {"release", "done"}
         /\ \/ UNCHANGED verdict
            \/ /\ pc' \in {"release", "done"}
               /\ verdict' = "retry" => pc' = "release"
               /\ \/ verdict' \in {"retry", "success", "failed", "aborted"}
                  \/ verdict' = "ambiguous" /\ LookupFindsMany
<1>1. CASE \/ PrepareFails \/ LookupFindsMany \/ Succeed \/ Retry \/ FailFast
           \/ CancelFails \/ Escape
  BY <1>1 DEF PrepareFails, LookupFindsMany, Succeed, Retry, FailFast,
              CancelFails, Escape
<1>2. CASE \/ BeforeSubmitFails \/ CreateFails \/ CreateReturnsNoId
           \/ LookupFindsNone \/ LookupFails \/ LookupsExhausted
  BY <1>2 DEF BeforeSubmitFails, CreateFails, CreateReturnsNoId, BeginRecovery,
              LookupFindsNone, LookupFails, LookupsExhausted, NothingRecovered
<1>3. CASE SubmitHookFails \/ BeginWait \/ WaitFails
  BY <1>3 DEF SubmitHookFails, BeginWait, WaitFails
<1>4. QED
  BY <1>1, <1>2, <1>3 DEF Quiet

LEMMA OrderedStep ==
  ASSUME Typed, Shape, Ordered, [Next]_vars
  PROVE  Ordered'
<1>1. /\ attempt \in Attempts /\ body \in [Attempts -> MaybeAttempt]
      /\ \A a \in Attempts : body[a] # None => body[a] <= a /\ a <= attempt
  BY DEF Typed, TypeOK, Shape
<1>2. CASE StartAttempt
  <2>1. /\ body[attempt] = None /\ UNCHANGED verdict /\ verdict = "none"
        /\ \A d \in Attempts : d # attempt => body'[d] = body[d]
        /\ body'[attempt] = IF attempt > 1 /\ run[attempt - 1] = None
                             THEN body[attempt - 1] ELSE attempt
    BY <1>1, <1>2 DEF StartAttempt, ReusesFrozenBody, Shape, Ordered
  <2>2. ASSUME NEW a \in Attempts, NEW b \in Attempts, a < b, body'[b] # None
        PROVE  body'[a] <= body'[b]
    <3>1. CASE b # attempt
      BY <1>1, <2>1, <2>2, <3>1 DEF Ordered
    <3>2. CASE b = attempt /\ body'[b] = attempt
      BY <1>1, <2>1, <2>2, <3>2
    <3>3. CASE b = attempt /\ body'[b] = body[b - 1]
      BY <1>1, <2>1, <2>2, <3>3 DEF Ordered
    <3>4. QED
      BY <2>1, <3>1, <3>2, <3>3
  <2>3. QED
    BY <2>1, <2>2 DEF Ordered
<1>3. CASE SendCreate \/ UNCHANGED vars \/ \E r \in Attempts : Apply(r) \/ Lose(r)
  BY <1>3 DEF SendCreate, Apply, Lose, manager, vars, Ordered
<1>4. CASE Learn
  BY <1>4, LearnSteps DEF Ordered
<1>5. CASE Quiet
  BY <1>5, QuietSteps, QuietVerdicts DEF Ordered
<1>6. CASE Release
  BY <1>6 DEF Release, Ordered
<1>7. QED
  BY <1>2, <1>3, <1>4, <1>5, <1>6, NextCases

(* TrackedFor, of any bodies and runs. *)
TrackedIn(b, r, s) ==
  IF \E a \in Attempts : b[a] = s /\ r[a] # None
    THEN r[CHOOSE a \in Attempts : b[a] = s /\ r[a] # None]
    ELSE None

LEMMA TrackedNothing ==
  ASSUME NEW b, NEW r, NEW s, \A a \in Attempts : b[a] = s => r[a] = None
  PROVE  TrackedIn(b, r, s) = None
  BY DEF TrackedIn

LEMMA TrackedKnown ==
  ASSUME NEW b, NEW r, NEW s, NEW a \in Attempts, b[a] = s, r[a] # None,
         \A c \in Attempts : b[c] = s /\ r[c] # None => c = a
  PROVE  TrackedIn(b, r, s) = r[a]
  BY DEF TrackedIn

(* Of the attempts that share a body, the last alone knows a run. *)
LEMMA KnownOnce ==
  ASSUME Typed, Shape, FrozenWhileInDoubt
  PROVE  \A a, c \in Attempts :
           body[a] = body[c] /\ run[a] # None /\ run[c] # None => a = c
<1>1. ASSUME NEW a \in Attempts, NEW c \in Attempts, a < c,
             body[a] = body[c], run[a] # None, run[c] # None
      PROVE  FALSE
  <2>1. body[c] # None
    BY <1>1 DEF Shape
  <2>2. \A d \in a..(c - 1) : run[d] = None
    BY <1>1, <2>1 DEF FrozenWhileInDoubt
  <2>3. QED
    BY <1>1, <2>2
<1>2. QED
  BY <1>1

(* What an attempt that learns its run does to TrackedFor. *)
LEMMA TrackedLearnt ==
  ASSUME Typed, Shape, FrozenWhileInDoubt, NEW r \in Attempts,
         run[attempt] = None, body[attempt] # None,
         run'[attempt] = r, UNCHANGED body,
         \A a \in Attempts : a # attempt => run'[a] = run[a]
  PROVE  /\ TrackedFor(body[attempt]) = None
         /\ Tracked' = [Tracked EXCEPT ![body[attempt]] = r]
<1> DEFINE s == body[attempt]
<1>1. attempt \in Attempts /\ s \in Attempts /\ r # None
  BY DEF Typed, TypeOK
<1>2. \A a \in Attempts : body[a] = s => run[a] = None
  <2>1. SUFFICES ASSUME NEW a \in Attempts, body[a] = s, a # attempt
                 PROVE  run[a] = None
    OBVIOUS
  <2>2. a < attempt
    BY <1>1, <2>1 DEF Shape, Typed, TypeOK
  <2>3. \A d \in a..(attempt - 1) : run[d] = None
    BY <1>1, <2>1, <2>2 DEF FrozenWhileInDoubt
  <2>4. QED
    BY <1>1, <2>2, <2>3
<1>3. TrackedIn(body, run, s) = None
  BY <1>2, TrackedNothing
<1>4. TrackedIn(body, run', s) = r
  <2>1. run'[attempt] # None
    BY <1>1
  <2>2. \A c \in Attempts : body[c] = s /\ run'[c] # None => c = attempt
    BY <1>2
  <2>3. QED
    BY <1>1, <2>1, <2>2, TrackedKnown
<1>5. ASSUME NEW t \in Attempts, t # s
      PROVE  TrackedIn(body, run', t) = TrackedIn(body, run, t)
  <2>1. \A a \in Attempts : body[a] = t => run'[a] = run[a]
    BY <1>5
  <2>2. CASE \A a \in Attempts : body[a] = t => run[a] = None
    BY <2>1, <2>2, TrackedNothing
  <2>3. ASSUME NEW a \in Attempts, body[a] = t, run[a] # None
        PROVE  TrackedIn(body, run', t) = TrackedIn(body, run, t)
    <3>1. \A c \in Attempts : body[c] = t /\ run[c] # None => c = a
      BY <2>3, KnownOnce
    <3>2. TrackedIn(body, run, t) = run[a]
      BY <2>3, <3>1, TrackedKnown
    <3>3. \A c \in Attempts : body[c] = t /\ run'[c] # None => c = a
      BY <2>1, <3>1
    <3>4. run'[a] = run[a]
      BY <2>1, <2>3
    <3>5. TrackedIn(body, run', t) = run'[a]
      BY <2>3, <3>3, <3>4, TrackedKnown
    <3>6. QED
      BY <3>2, <3>4, <3>5
  <2>4. QED
    BY <2>2, <2>3
<1>6. /\ Tracked = [t \in Attempts |-> TrackedIn(body, run, t)]
      /\ Tracked' = [t \in Attempts |-> TrackedIn(body, run', t)]
      /\ TrackedFor(s) = TrackedIn(body, run, s)
  BY DEF Tracked, TrackedFor, TrackedIn
<1> HIDE DEF s
<1>7. Tracked' = [Tracked EXCEPT ![s] = r]
  BY <1>1, <1>4, <1>5, <1>6
<1>8. QED
  BY <1>3, <1>6, <1>7 DEF s

LEMMA ViewUnchanged ==
  ASSUME UNCHANGED <<body, run, net, attempt>>
  PROVE  UNCHANGED <<Current, Made, Tracked>>
  BY DEF Current, Made, Tracked, TrackedFor, Runs

(* A new body is a new submission, begun when the last one's run is known. *)
LEMMA StartBegins ==
  ASSUME Typed, Shape, FrozenWhileInDoubt, Ordered, StartAttempt
  PROVE  [Logical!Step]_<<Current, Made, Tracked, Result>>
<1>1. /\ attempt \in Attempts /\ body \in [Attempts -> MaybeAttempt]
      /\ net[attempt] = "unsent" /\ run[attempt] = None /\ body[attempt] = None
      /\ UNCHANGED <<attempt, run, net, verdict>> /\ verdict = "none"
      /\ body' = [body EXCEPT ![attempt] =
                    IF ReusesFrozenBody THEN body[attempt - 1] ELSE attempt]
  BY DEF StartAttempt, Typed, TypeOK, Shape, Ordered
<1>2. Made' = Made
  BY <1>1 DEF Made, Runs
<1>3. Tracked' = Tracked
  <2>1. \A s, a \in Attempts : (body'[a] = s /\ run'[a] # None)
                              <=> (body[a] = s /\ run[a] # None)
    BY <1>1
  <2>2. ASSUME NEW s \in Attempts
        PROVE  TrackedIn(body', run', s) = TrackedIn(body, run, s)
    BY <1>1, <2>1 DEF TrackedIn
  <2>3. QED
    BY <2>2 DEF Tracked, TrackedFor, TrackedIn
<1>4. Result = "open" /\ Result' = "open"
  BY <1>1 DEF Result
<1>5. CASE ReusesFrozenBody
  <2>1. Current' = Current
    BY <1>1, <1>5 DEF Current, ReusesFrozenBody, Shape
  <2>2. QED
    BY <1>2, <1>3, <1>4, <2>1
<1>6. CASE ~ReusesFrozenBody
  <2>1. Current' = attempt
    BY <1>1, <1>6 DEF Current
  <2>2. /\ attempt > Current
        /\ Current # 0 => Tracked[Current] # None
    <3>1. CASE attempt = 1
      BY <1>1, <3>1 DEF Current
    <3>2. CASE attempt > 1
      <4>1. /\ attempt - 1 \in Attempts /\ run[attempt - 1] # None
            /\ Current = body[attempt - 1]
        BY <1>1, <1>6, <3>2 DEF ReusesFrozenBody, Current
      <4>2. body[attempt - 1] \in Attempts /\ body[attempt - 1] < attempt
        BY <1>1, <4>1 DEF Shape
      <4>3. \A c \in Attempts :
              body[c] = body[attempt - 1] /\ run[c] # None => c = attempt - 1
        BY <4>1, KnownOnce
      <4>4. TrackedIn(body, run, body[attempt - 1]) = run[attempt - 1]
        BY <4>1, <4>3, TrackedKnown
      <4>5. Tracked[Current] = run[attempt - 1]
        BY <4>1, <4>2, <4>4 DEF Tracked, TrackedFor, TrackedIn
      <4>6. QED
        BY <4>1, <4>2, <4>5
    <3>3. QED
      BY <1>1, <3>1, <3>2
  <2>3. Logical!Begin(attempt)
    BY <1>2, <1>3, <1>4, <2>1, <2>2 DEF Logical!Begin
  <2>4. QED
    BY <1>1, <2>3 DEF Logical!Step
<1>7. QED
  BY <1>5, <1>6

(* A create that is applied makes a run, the first one where that is promised. *)
LEMMA ApplyMakes ==
  ASSUME Typed, Shape, Ordered, ~PinnedId, Settled => NoRival,
         NEW r \in Attempts, Apply(r)
  PROVE  Logical!Step
<1> DEFINE s == body[r]
<1>1. /\ attempt \in Attempts /\ body \in [Attempts -> MaybeAttempt]
      /\ net \in [Attempts -> {"unsent", "flying", "applied", "lost"}]
      /\ net[r] = "flying" /\ net' = [net EXCEPT ![r] = "applied"]
      /\ s \in Attempts /\ r <= attempt
      /\ UNCHANGED <<body, run, attempt, verdict>>
  BY DEF Apply, manager, Typed, TypeOK, Shape
<1>2. s <= Current
  <2>1. CASE body[attempt] # None
    BY <1>1, <2>1 DEF Current, Ordered
  <2>2. CASE body[attempt] = None
    <3>1. r < attempt
      BY <1>1, <2>2
    <3>2. attempt - 1 \in Attempts /\ Current = body[attempt - 1]
      BY <1>1, <2>2, <3>1 DEF Current
    <3>3. QED
      BY <1>1, <3>1, <3>2 DEF Ordered, Shape
  <2>3. QED
    BY <2>1, <2>2
<1>3. \A t \in Attempts : r \notin Made[t]
  BY <1>1 DEF Made, Runs
<1>4. Promise = "exact" => Made[s] = {}
  <2>1. SUFFICES ASSUME Settled PROVE Made[s] = {}
    BY DEF Promise
  <2>2. r = attempt
    BY <1>1, <2>1 DEF NoRival
  <2>3. \A q \in Attempts : net[q] = "applied" => ~SameBody(q, attempt)
    BY <1>1, <2>1, <2>2 DEF NoRival
  <2>4. QED
    BY <1>1, <2>2, <2>3 DEF Made, Runs, SameBody
<1>5. Made' = [Made EXCEPT ![s] = Made[s] \cup {r}]
  <2>1. \A t \in Attempts : Made'[t] = IF t = s THEN Made[s] \cup {r} ELSE Made[t]
    BY <1>1 DEF Made, Runs
  <2>2. QED
    BY <1>1, <2>1 DEF Made
<1>6. UNCHANGED <<Current, Tracked, Result>>
  BY <1>1 DEF Current, Tracked, TrackedFor, Result
<1> HIDE DEF s
<1>7. Logical!Make(s, r)
  BY <1>2, <1>3, <1>4, <1>5, <1>6 DEF Logical!Make
<1>8. QED
  BY <1>1, <1>7 DEF Logical!Step

LEMMA LearnTracks ==
  ASSUME Typed, Shape, FrozenWhileInDoubt, Ordered, ~PinnedId, Learn
  PROVE  Logical!Step
<1>1. PICK r \in Runs :
        /\ SameSubmission(r, attempt)
        /\ run'[attempt] = r
        /\ \A a \in Attempts : a # attempt => run'[a] = run[a]
        /\ UNCHANGED <<body, net, attempt, cancelled, verdict>>
        /\ pc \in {"lookup", "response"}
  BY LearnSteps
<1> DEFINE s == body[attempt]
<1>2. /\ attempt \in Attempts /\ run[attempt] = None /\ r \in Attempts
      /\ s \in Attempts /\ body[r] = s /\ s = Current
  BY <1>1 DEF Typed, TypeOK, Shape, Runs, SameSubmission, SubmissionId, Current
<1>3. r \in Made[s]
  BY <1>1, <1>2 DEF Made
<1>4. Tracked[s] = None /\ Tracked' = [Tracked EXCEPT ![s] = r]
  BY <1>1, <1>2, TrackedLearnt DEF Tracked
<1>5. UNCHANGED <<Current, Made, Result>> /\ Result = "open"
  BY <1>1 DEF Current, Made, Runs, Result, Ordered
<1> HIDE DEF s
<1>6. Logical!Track(s, r)
  BY <1>2, <1>3, <1>4, <1>5 DEF Logical!Track
<1>7. QED
  BY <1>2, <1>6 DEF Logical!Step

LEMMA QuietEnds ==
  ASSUME Typed, Shape, FrozenWhileInDoubt, Ordered, ~PinnedId, Quiet
  PROVE  [Logical!Step]_<<Current, Made, Tracked, Result>>
<1>1. UNCHANGED <<Current, Made, Tracked>>
  BY QuietSteps, ViewUnchanged
<1>2. Result = "open"
  BY QuietVerdicts DEF Result, Ordered
<1>3. CASE verdict' \in {"success", "failed", "aborted"}
  <2>1. Logical!End(verdict')
    BY <1>1, <1>2, <1>3 DEF Logical!End, Result
  <2>2. QED
    BY <1>3, <2>1 DEF Logical!Step
<1>4. CASE verdict' = "ambiguous" /\ LookupFindsMany
  <2>1. PICK q, r \in Matches(attempt) : q # r
    BY <1>4 DEF LookupFindsMany
  <2>2. /\ attempt \in Attempts /\ body[attempt] \in Attempts
        /\ run[attempt] = None /\ Current = body[attempt]
    BY <1>4 DEF LookupFindsMany, Shape, Typed, TypeOK, Current
  <2>3. q \in Made[Current] /\ r \in Made[Current]
    BY <2>1, <2>2 DEF Made, Matches, Runs, SameSubmission, SubmissionId
  <2>4. Tracked[Current] = None
    <3>1. \A a \in Attempts : body[a] = body[attempt] => run[a] = None
      <4>1. SUFFICES ASSUME NEW a \in Attempts, body[a] = body[attempt], a # attempt
                     PROVE  run[a] = None
        BY <2>2
      <4>2. a < attempt
        BY <2>2, <4>1 DEF Shape, Typed, TypeOK
      <4>3. \A d \in a..(attempt - 1) : run[d] = None
        BY <2>2, <4>1, <4>2 DEF FrozenWhileInDoubt
      <4>4. QED
        BY <2>2, <4>2, <4>3
    <3>2. TrackedIn(body, run, body[attempt]) = None
      BY <3>1, TrackedNothing
    <3>3. QED
      BY <2>2, <3>2 DEF Tracked, TrackedFor, TrackedIn
  <2>5. Logical!End("ambiguous")
    <3>1. Current # 0 /\ Result' = "ambiguous"
      BY <1>4, <2>2 DEF Result
    <3>2. QED
      BY <1>1, <1>2, <2>1, <2>3, <2>4, <3>1 DEF Logical!End
  <2>6. QED
    BY <2>5 DEF Logical!Step
<1>5. CASE verdict' = "retry" \/ UNCHANGED verdict
  <2>1. Result' = Result
    BY <1>2, <1>5 DEF Result
  <2>2. QED
    BY <1>1, <2>1
<1>6. QED
  BY <1>3, <1>4, <1>5, QuietVerdicts

LEMMA LogicalStep ==
  ASSUME Typed, Typed', Shape, FrozenWhileInDoubt, Ordered, Settled => NoRival,
         [Next]_vars
  PROVE  [Logical!Next]_(Logical!logical)
<1>1. UNCHANGED Promise
  BY SettingFixed DEF Promise, PinnedId, Settled, Faults
<1>2. CASE PinnedId
  BY <1>1, <1>2 DEF Logical!Next, Promise
<1>3. ASSUME [Logical!Step]_<<Current, Made, Tracked, Result>>
      PROVE  [Logical!Next]_(Logical!logical)
  BY <1>1, <1>3 DEF Logical!Next, Logical!logical
<1>4. CASE ~PinnedId
  <2>1. CASE StartAttempt
    BY <1>3, <2>1, StartBegins
  <2>2. CASE Learn
    BY <1>3, <1>4, <2>2, LearnTracks
  <2>3. CASE Quiet
    BY <1>3, <1>4, <2>3, QuietEnds
  <2>4. CASE SendCreate
    <3>1. UNCHANGED <<body, run, attempt, verdict, Runs>>
      BY <2>4 DEF SendCreate, Shape, Runs, Typed, TypeOK
    <3>2. UNCHANGED <<Current, Made, Tracked, Result>>
      BY <3>1 DEF Current, Made, Tracked, TrackedFor, Result
    <3>3. QED
      BY <1>3, <3>2
  <2>5. CASE Release
    <3>1. /\ UNCHANGED <<body, run, net, Made, Tracked>>
          /\ Result' = Result
      BY <2>5 DEF Release, Made, Runs, Tracked, TrackedFor, Result
    <3>2. CASE UNCHANGED attempt
      BY <1>3, <3>1, <3>2 DEF Current
    <3>3. CASE attempt' = attempt + 1
      <4>1. body[attempt] # None /\ body[attempt + 1] = None
        BY <2>5, <3>3 DEF Release, Shape, Typed, TypeOK
      <4>2. Current' = Current
        BY <3>1, <3>3, <4>1 DEF Current, Typed, TypeOK
      <4>3. QED
        BY <1>3, <3>1, <4>2
    <3>4. QED
      BY <2>5, <3>2, <3>3 DEF Release, NextAttempt
  <2>6. ASSUME NEW r \in Attempts, Apply(r) \/ Lose(r)
        PROVE  [Logical!Next]_(Logical!logical)
    <3>1. CASE Apply(r)
      BY <1>3, <1>4, <3>1, ApplyMakes
    <3>2. CASE Lose(r)
      <4>1. UNCHANGED <<body, run, attempt, verdict, Runs>>
        BY <3>2 DEF Lose, manager, Runs, Typed, TypeOK
      <4>2. UNCHANGED <<Current, Made, Tracked, Result>>
        BY <4>1 DEF Current, Made, Tracked, TrackedFor, Result
      <4>3. QED
        BY <1>3, <4>2
    <3>3. QED
      BY <2>6, <3>1, <3>2
  <2>7. CASE UNCHANGED vars
    <3>1. UNCHANGED <<body, run, net, attempt, verdict>>
      BY <2>7 DEF vars, manager
    <3>2. QED
      BY <1>3, <3>1, ViewUnchanged DEF Result
  <2>8. QED
    BY <2>1, <2>2, <2>3, <2>4, <2>5, <2>6, <2>7, NextCases
<1>5. QED
  BY <1>2, <1>4

(* For any number of attempts, lookups and faults the loop is a LogicalRun:  *)
(* no new submission while the last one is in doubt, one run tracked of      *)
(* each, an ambiguity reported only where there is one, and, when failed     *)
(* creates are settled before they are looked for, one run made of each.     *)
THEOREM RunsAreLogical == Spec => ImplementsLogicalRun
<1> DEFINE IInv == Exact /\ FrozenWhileInDoubt /\ Ordered
<1>1. Init => IInv /\ Logical!Init
  <2> SUFFICES ASSUME Init PROVE IInv /\ Logical!Init
    OBVIOUS
  <2>1. Exact
    BY ExactInit
  <2>2. FrozenWhileInDoubt /\ Ordered
    BY DEF Init, FrozenWhileInDoubt, Ordered
  <2>3. Current = 0 /\ Result = "open" /\ Promise \in {"exact", "tracked", "none"}
    BY DEF Init, Current, Result, Promise
  <2>4. Made = [s \in Attempts |-> {}] /\ Tracked = [s \in Attempts |-> None]
    BY DEF Init, Made, Runs, Tracked, TrackedFor
  <2>5. QED
    BY <2>1, <2>2, <2>3, <2>4 DEF Logical!Init
<1>2. IInv /\ [Next]_vars => IInv' /\ [Logical!Next]_(Logical!logical)
  <2> SUFFICES ASSUME IInv, [Next]_vars
               PROVE  IInv' /\ [Logical!Next]_(Logical!logical)
    OBVIOUS
  <2>1. Exact' /\ FrozenWhileInDoubt' /\ Ordered'
    BY ExactStep, FrozenStep, OrderedStep DEF Exact
  <2>2. QED
    BY <2>1, LogicalStep DEF Exact
<1>3. QED
  BY <1>1, <1>2, PTL DEF Spec, ImplementsLogicalRun, Logical!Spec

-----------------------------------------------------------------------------
(* Lifecycles. *)

(* No lifecycle of an attempt that has not started is open.                  *)
LifecycleInv ==
  /\ LifecyclePaired
  /\ \A a \in opened : a < attempt \/ (a = attempt /\ pc # "start")

LEMMA LifecycleStep ==
  ASSUME Typed, LifecycleInv, [Next]_vars
  PROVE  LifecycleInv'
<1>1. attempt \in Attempts /\ opened \subseteq Attempts /\ closed \subseteq Attempts
  BY DEF Typed, TypeOK
<1>2. CASE StartAttempt
  <2>1. /\ opened' = opened \cup {attempt}
        /\ UNCHANGED <<closed, attempt>>
        /\ pc = "start" /\ pc' \in {"lookup", "submit"}
    BY <1>2 DEF StartAttempt, FirstStep
  <2>2. attempt \notin closed
    BY <1>1, <2>1 DEF LifecycleInv, LifecyclePaired
  <2>3. QED
    BY <1>1, <2>1, <2>2 DEF LifecycleInv, LifecyclePaired
<1>3. CASE Release
  <2>1. /\ UNCHANGED opened /\ closed' = closed \cup {attempt}
        /\ pc = "release"
        /\ \/ pc' = "start" /\ attempt' = attempt + 1
           \/ pc' = "done" /\ attempt' = attempt
    BY <1>3 DEF Release, NextAttempt
  <2>2. attempt \in opened
    BY <2>1 DEF LifecycleInv, LifecyclePaired
  <2>3. QED
    BY <1>1, <2>1, <2>2 DEF LifecycleInv, LifecyclePaired
<1>4. CASE UNCHANGED <<pc, attempt, opened, closed>>
  BY <1>4 DEF LifecycleInv, LifecyclePaired
<1>5. CASE \/ UNCHANGED <<attempt, opened, closed>> /\ pc = "start" /\ pc' = "done"
           \/ /\ UNCHANGED <<attempt, opened, closed>>
              /\ pc \notin {"start", "done"} /\ pc' \notin {"start", "done"}
  BY <1>5 DEF LifecycleInv, LifecyclePaired
<1>6. CASE SendCreate \/ Learn \/ Quiet
  BY <1>5, <1>6 DEF SendCreate, Learn, CreateReturns, LookupFindsOne, Quiet,
     PrepareFails, BeforeSubmitFails, CreateFails, CreateReturnsNoId,
     BeginRecovery, LookupFindsNone, LookupFindsMany, LookupFails,
     LookupsExhausted, NothingRecovered, SubmitHookFails, BeginWait, Succeed,
     WaitFails, Retry, FailFast, CancelFails, Escape
<1>7. CASE UNCHANGED vars \/ \E r \in Attempts : Apply(r) \/ Lose(r)
  BY <1>4, <1>7 DEF vars, manager, Apply, Lose
<1>8. QED
  BY <1>2, <1>3, <1>6, <1>7, NextCases

(* Together: what a submission made is one run, when creates are settled     *)
(* before they are looked for, and a result is a run nobody cancelled.       *)
THEOREM OneRunOfUseKept == Spec => []OneRunOfUse
BY ExactlyOnce, CancelledIsNeverTheResult, PTL DEF OneRunOfUse

(* On every path out of an attempt, the lifecycle that was entered is left   *)
(* before another is entered and before the call returns or raises.          *)
THEOREM LifecyclesPaired == Spec => []LifecyclePaired
<1> DEFINE IInv == Typed /\ LifecycleInv
<1>1. Init => IInv
  <2> SUFFICES ASSUME Init PROVE LifecycleInv
    BY TypedInit
  <2>1. QED
    BY DEF Init, LifecycleInv, LifecyclePaired
<1>2. IInv /\ [Next]_vars => IInv'
  BY TypedStep, LifecycleStep
<1>3. IInv => LifecyclePaired
  BY DEF LifecycleInv
<1>4. QED
  BY <1>1, <1>2, <1>3, PTL DEF Spec
-----------------------------------------------------------------------------
(* The loop inside run_pipeline. *)

(* Every step of the runner is a step of the loop or leaves it alone.        *)
LEMMA RunnerStep == [RunnerNext]_allVars => [Next]_vars
<1> SUFFICES ASSUME [RunnerNext]_allVars PROVE [Next]_vars
  OBVIOUS
<1> USE DEF Next, Manager, Keep
<1>1. CASE PreparationRaises \/ PreparationInterrupted
  BY <1>1 DEF PreparationRaises, PreparationInterrupted
<1>2. CASE Start \/ StartFails
  BY <1>2 DEF Start, StartFails
<1>3. CASE Loop
  BY <1>3 DEF Loop
<1>4. CASE Server
  BY <1>4
<1>5. CASE Prepare \/ FormatResult \/ FormatFails \/ LoopRaised
            \/ Clean \/ CleanRaises \/ Leave \/ Over \/ UNCHANGED allVars
  BY <1>5 DEF Prepare, FormatResult, FormatFails, LoopRaised, Clean,
              CleanRaises, Leave, Over, allVars
<1>6. QED
  BY <1>1, <1>2, <1>3, <1>4, <1>5 DEF RunnerNext, Runner

(* run_pipeline is one use of the loop: whatever holds of every behaviour of *)
(* RunLifecycle holds of a prepared run.                                     *)
THEOREM RunnerKeepsLifecycle == RunnerSpec => Spec
<1>1. RunnerInit => Init
  BY DEF RunnerInit
<1>2. QED
  BY <1>1, RunnerStep, PTL DEF RunnerSpec, Spec

(* What is prepared but not yet started, what each attempt uses, and that    *)
(* nothing moves in the loop once the clean-up has begun.                    *)
Prepared ==
  /\ stage = "ready" => /\ pc = "start" /\ ~ReusesFrozenBody
                        /\ prep[attempt] = attempt
  /\ \A a \in Attempts : body[a] # None => prep[a] = body[a]
  /\ pc = "start" /\ stage = "idle" => prep[attempt] = None
  /\ \A a \in Attempts : a > attempt => prep[a] = None
  /\ stage \in {"cleaning", "over"} => pc = "done"
  /\ verdict = "success" => body[attempt] # None
  /\ result # None => /\ result = body[attempt] /\ outcome = "result"
                      /\ stage \in {"cleaning", "over"}

LEMMA PreparedInit == RunnerInit => RunnerTypeOK /\ Prepared
  BY DEF RunnerInit, Init, Prepared, RunnerTypeOK, ReusesFrozenBody

(* What a step of the loop inside run_pipeline can do to the bodies.         *)
LEMMA LoopSteps ==
  ASSUME Typed, Shape, Submit \/ Recover \/ Conclude
  PROVE  /\ UNCHANGED body
         /\ pc # "start" /\ pc # "done"
         /\ \/ UNCHANGED attempt /\ pc' # "start"
            \/ attempt' = attempt + 1 /\ pc' = "start"
         /\ verdict' = "success" => body[attempt] # None /\ UNCHANGED attempt
<1> USE DEF Typed, TypeOK, Shape
<1>1. CASE Submit
  BY <1>1 DEF Submit, SendCreate, BeforeSubmitFails, CreateFails, CreateReturns,
              CreateReturnsNoId, BeginRecovery
<1>2. CASE Recover
  BY <1>2 DEF Recover, LookupFindsNone, LookupFindsOne, LookupFindsMany,
              LookupFails, LookupsExhausted, NothingRecovered
<1>3. CASE SubmitHookFails \/ BeginWait \/ Succeed \/ WaitFails \/ Retry
  BY <1>3 DEF SubmitHookFails, BeginWait, Succeed, WaitFails, Retry
<1>4. CASE FailFast \/ CancelFails \/ Escape
  BY <1>4 DEF FailFast, CancelFails, Escape
<1>5. CASE Release
  BY <1>5 DEF Release, NextAttempt
<1>6. QED
  BY <1>1, <1>2, <1>3, <1>4, <1>5 DEF Conclude

LEMMA RunnerTypesStep ==
  ASSUME Typed, RunnerTypeOK, [RunnerNext]_allVars
  PROVE  RunnerTypeOK'
<1> USE DEF Typed, TypeOK, RunnerTypeOK
<1>1. CASE Prepare \/ PreparationRaises \/ PreparationInterrupted
  <2>1. CASE Prepare
    BY <2>1 DEF Prepare
  <2>2. CASE PreparationRaises
    <3>1. cleanups[attempt] + 1 \in Nat
      OBVIOUS
    <3>2. /\ cleanups' = [cleanups EXCEPT ![attempt] = cleanups[attempt] + 1]
          /\ stage' = "cleaning" /\ outcome' = "error"
          /\ UNCHANGED <<prep, dropped, broken, result>>
      BY <2>2 DEF PreparationRaises
    <3>3. QED
      BY <3>1, <3>2
  <2>3. CASE PreparationInterrupted
    BY <2>3 DEF PreparationInterrupted
  <2>4. QED
    BY <1>1, <2>1, <2>2, <2>3
<1>2. CASE Start \/ StartFails
  <2>1. Preparation \in MaybeAttempt
    BY DEF Preparation, SharesPreparation
  <2>2. QED
    BY <1>2, <2>1 DEF Start, StartFails
<1>3. CASE Clean \/ CleanRaises
  <2>1. PICK p \in Attempts :
           /\ cleanups' = [cleanups EXCEPT ![p] = @ + 1]
           /\ broken' \in {broken, p}
           /\ result' \in {result, None}
           /\ outcome' \in {outcome, "error"}
           /\ UNCHANGED <<prep, stage, dropped>>
    BY <1>3 DEF Clean, CleanRaises, CleansUp, Pending
  <2>2. QED
    BY <2>1
<1>4. CASE FormatResult
  BY <1>4 DEF FormatResult
<1>5. CASE FormatFails \/ LoopRaised \/ Leave
  BY <1>5 DEF FormatFails, LoopRaised, Leave
<1>6. CASE UNCHANGED runner
  BY <1>6 DEF runner
<1>7. QED
  BY <1>1, <1>2, <1>3, <1>4, <1>5, <1>6 DEF RunnerNext, Runner, Loop, Over, allVars

LEMMA PreparedStep ==
  ASSUME Typed, Typed', Shape, Shape', RunnerTypeOK, Prepared,
         [RunnerNext]_allVars
  PROVE  Prepared'
<1> USE DEF Prepared
<1>1. CASE Prepare
  <2>1. UNCHANGED <<pc, attempt, body, run, verdict, result, outcome>>
    BY <1>1 DEF Prepare, vars, manager
  <2>2. QED
    BY <1>1, <2>1 DEF Prepare, NeedsPreparation, ReusesFrozenBody, Shape,
                      Typed, TypeOK, RunnerTypeOK
<1>2. CASE PreparationRaises \/ PreparationInterrupted
  <2>1. /\ UNCHANGED <<attempt, body, run, prep, result>>
        /\ pc' = "done" /\ verdict' = "aborted" /\ stage' = "cleaning"
        /\ stage = "idle"
    BY <1>2 DEF PreparationRaises, PreparationInterrupted, NeedsPreparation,
                PrepareFails
  <2>2. QED
    BY <2>1 DEF RunnerTypeOK
<1>3. CASE Start
  <2>1. Preparation = IF ReusesFrozenBody THEN body[attempt - 1] ELSE attempt
    BY <1>3 DEF Start, Preparation, SharesPreparation, ReusesFrozenBody, Shape,
                Typed, TypeOK, RunnerTypeOK
  <2>2. body'[attempt] = Preparation /\ prep'[attempt] = Preparation
    BY <1>3, <2>1 DEF Start, StartAttempt, Typed, TypeOK, RunnerTypeOK
  <2>3. /\ \A a \in Attempts \ {attempt} : body'[a] = body[a] /\ prep'[a] = prep[a]
        /\ UNCHANGED <<attempt, verdict, result, outcome>>
        /\ stage' = "idle" /\ pc' # "start" /\ stage \in {"idle", "ready"}
    BY <1>3 DEF Start, StartAttempt, FirstStep, Typed, TypeOK, RunnerTypeOK
  <2>4. body'[attempt] # None
    BY <2>2, <2>1, <1>3 DEF Start
  <2>5. result' = None
    BY <2>3
  <2>6. \A a \in Attempts : body'[a] # None => prep'[a] = body'[a]
    BY <2>2, <2>3
  <2>7. \A a \in Attempts : a > attempt => prep'[a] = None
    BY <2>3 DEF Typed, TypeOK
  <2>8. QED
    BY <2>3, <2>4, <2>5, <2>6, <2>7
<1>4. CASE StartFails
  <2>1. prep' = prep \/ prep' = [prep EXCEPT ![attempt] = Preparation]
    BY <1>4 DEF StartFails
  <2>2. body[attempt] = None
    BY <1>4 DEF StartFails, Shape
  <2>3. /\ UNCHANGED <<body, attempt, result>>
        /\ pc' = "done" /\ verdict' = "aborted" /\ stage' = "cleaning"
        /\ stage \in {"idle", "ready"}
    BY <1>4 DEF StartFails, PrepareFails, RunnerTypeOK
  <2>4. QED
    BY <2>1, <2>2, <2>3 DEF Typed, TypeOK, RunnerTypeOK
<1>5. CASE Loop
  <2>1. UNCHANGED runner /\ (Submit \/ Recover \/ Conclude)
    BY <1>5 DEF Loop
  <2>2. stage = "idle" /\ result = None
    BY <2>1, LoopSteps DEF RunnerTypeOK
  <2>3. verdict' = "success" => body'[attempt'] # None
    BY <2>1, LoopSteps
  <2>4. attempt' >= attempt /\ (pc' = "start" => attempt' > attempt)
    BY <2>1, LoopSteps DEF Typed, TypeOK
  <2>5. QED
    BY <2>1, <2>2, <2>3, <2>4, LoopSteps DEF runner, Typed, TypeOK
<1>6. CASE Server /\ UNCHANGED runner
  <2>1. UNCHANGED <<runner, manager>>
    BY <1>6 DEF Server, Apply, Lose
  <2>2. QED
    BY <2>1 DEF manager, runner, ReusesFrozenBody
<1>7. CASE FormatResult
  <2>1. UNCHANGED <<pc, attempt, body, run, verdict, prep>>
    BY <1>7 DEF FormatResult, vars, manager
  <2>2. QED
    BY <1>7, <2>1 DEF FormatResult, Returned, RunnerTypeOK, Typed, TypeOK
<1>8. CASE FormatFails \/ LoopRaised
  <2>1. /\ UNCHANGED <<pc, attempt, body, run, verdict, prep, result>>
        /\ stage' = "cleaning" /\ stage \in {"idle", "ready"} /\ pc = "done"
    BY <1>8 DEF FormatFails, LoopRaised, Returned, vars, manager
  <2>2. QED
    BY <2>1
<1>9. CASE Clean \/ CleanRaises \/ Leave
  <2>1. /\ UNCHANGED <<pc, attempt, body, run, verdict, prep>>
        /\ stage = "cleaning" /\ stage' \in {"cleaning", "over"}
        /\ result' = None \/ UNCHANGED <<result, outcome>>
    BY <1>9 DEF Clean, CleanRaises, CleansUp, Leave, vars, manager
  <2>2. QED
    BY <2>1
<1>10. CASE Over \/ UNCHANGED allVars
  BY <1>10 DEF Over, allVars, runner, vars, manager, ReusesFrozenBody
<1>11. QED
  BY <1>1, <1>2, <1>3, <1>4, <1>5, <1>6, <1>7, <1>8, <1>9, <1>10
     DEF RunnerNext, Runner

(* Whatever fails, is retried, reused or adopted: the preparation that an    *)
(* attempt and the call's result report is the one that built the body.      *)
THEOREM ReportsItsPreparation == RunnerSpec => []PreparationOfBody
<1> DEFINE IInv == Typed /\ Shape /\ RunnerTypeOK /\ Prepared
<1>1. RunnerInit => IInv
  BY TypedInit, ShapeInit, PreparedInit DEF RunnerInit
<1>2. IInv /\ [RunnerNext]_allVars => IInv'
  BY TypedStep, ShapeStep, RunnerTypesStep, PreparedStep, RunnerStep
<1>3. IInv => PreparationOfBody
  <2> SUFFICES ASSUME IInv PROVE PreparationOfBody
    OBVIOUS
  <2>1. ASSUME pc = "start", ReusesFrozenBody PROVE Preparation = body[attempt - 1]
    BY <2>1 DEF Prepared, Preparation, SharesPreparation, ReusesFrozenBody,
                Shape, Typed, TypeOK, RunnerTypeOK
  <2>2. QED
    BY <2>1 DEF PreparationOfBody, Prepared
<1>4. QED
  BY <1>1, <1>2, <1>3, PTL DEF RunnerSpec

(* Clean-up begins when the loop has ended, takes what is pending once, and  *)
(* stops early only at a hook that raised, with the rest behind it.          *)
CleanUp ==
  /\ \A p \in Attempts : cleanups[p] \in {0, 1}
  /\ stage \in {"idle", "ready"} => \A p \in Attempts : cleanups[p] = 0
  /\ broken # None => \A q \in Pending : broken < q
  /\ stage = "over" => Pending = {} \/ broken # None
  /\ stage \in {"idle", "ready"} => broken = None

LEMMA CleanUpInit == RunnerInit => CleanUp
  BY DEF RunnerInit, CleanUp

LEMMA CleanUpStep ==
  ASSUME Typed, RunnerTypeOK, Prepared, CleanUp, [RunnerNext]_allVars
  PROVE  CleanUp'
<1> USE DEF Typed, TypeOK, RunnerTypeOK, CleanUp
<1>1. CASE PreparationRaises
  <2>1. /\ stage = "idle" /\ stage' = "cleaning" /\ broken' = None
        /\ cleanups' = [cleanups EXCEPT ![attempt] = cleanups[attempt] + 1]
    BY <1>1 DEF PreparationRaises, NeedsPreparation
  <2>2. \A p \in Attempts : cleanups'[p] = IF p = attempt THEN 1 ELSE 0
    BY <2>1
  <2>3. QED
    BY <2>1, <2>2
<1>2. CASE Clean \/ CleanRaises
  <2>1. PICK p \in Pending : CleansUp(p) /\ broken' \in {None, p}
    <3>1. CASE Clean
      BY <3>1 DEF Clean, CleansUp
    <3>2. CASE CleanRaises
      BY <3>2 DEF CleanRaises
    <3>3. QED
      BY <1>2, <3>1, <3>2
  <2>2. p \in Attempts /\ cleanups[p] = 0 /\ p # None
    BY DEF Pending
  <2>3. UNCHANGED <<prep, stage>> /\ stage = "cleaning"
    BY <1>2 DEF Clean, CleanRaises, CleansUp
  <2>4. cleanups' = [cleanups EXCEPT ![p] = cleanups[p] + 1]
    BY <2>1 DEF CleansUp
  <2>5. \A q \in Attempts : cleanups'[q] = IF q = p THEN 1 ELSE cleanups[q]
    BY <2>2, <2>4
  <2>6. ASSUME NEW q \in Pending' PROVE p < q
    <3>1. q \in Attempts /\ cleanups'[q] = 0 /\ q # p
      <4>1. q \in Attempts /\ ~(cleanups'[q] > 0)
        BY <2>3 DEF Pending
      <4>2. cleanups'[q] = IF q = p THEN 1 ELSE cleanups[q]
        BY <2>5, <4>1
      <4>3. cleanups[q] \in {0, 1}
        BY <4>1
      <4>4. QED
        BY <4>1, <4>2, <4>3
    <3>2. q \in Pending
      BY <2>3, <2>5, <3>1 DEF Pending
    <3>3. p <= q
      BY <2>1, <3>2 DEF CleansUp
    <3>4. QED
      BY <2>2, <3>1, <3>3
  <2>7. \A q \in Pending' : broken' # None => broken' < q
    BY <2>1, <2>6
  <2>8. QED
    BY <2>3, <2>5, <2>7
<1>3. CASE Prepare \/ PreparationInterrupted \/ Start \/ StartFails
  <2>1. CASE Prepare \/ PreparationInterrupted
    BY <2>1 DEF Prepare, PreparationInterrupted, NeedsPreparation
  <2>2. CASE Start \/ StartFails
    <3>1. stage \in {"idle", "ready"}
      BY <2>2 DEF Prepared, Start, StartFails, StartAttempt, PrepareFails
    <3>2. QED
      BY <2>2, <3>1 DEF Start, StartFails
  <2>3. QED
    BY <1>3, <2>1, <2>2
<1>4. CASE FormatResult \/ FormatFails \/ LoopRaised
  <2>1. UNCHANGED <<cleanups, broken>> /\ stage \in {"idle", "ready"} /\ stage' # "over"
    BY <1>4 DEF FormatResult, FormatFails, LoopRaised, Returned
  <2>2. QED
    BY <2>1
<1>5. CASE Leave
  <2>1. UNCHANGED <<cleanups, broken, prep>> /\ Pending' = Pending
        /\ (Pending = {} \/ broken # None) /\ stage' = "over"
    BY <1>5 DEF Leave, Pending
  <2>2. QED
    BY <2>1
<1>6. CASE UNCHANGED runner
  <2>1. UNCHANGED <<cleanups, broken, prep, stage>> /\ Pending' = Pending
    BY <1>6 DEF runner, Pending
  <2>2. QED
    BY <2>1
<1>7. QED
  BY <1>1, <1>2, <1>3, <1>4, <1>5, <1>6 DEF RunnerNext, Runner, Loop, Over, allVars

(* On every path out of run_pipeline each preparation is cleaned up once,    *)
(* except the one an interrupt cut short and those behind a hook that raised.*)
THEOREM PreparationsCleanedOnce == RunnerSpec => []CleanedOnce
<1> DEFINE IInv == Typed /\ Shape /\ RunnerTypeOK /\ Prepared /\ CleanUp
<1>1. RunnerInit => IInv
  BY TypedInit, ShapeInit, PreparedInit, CleanUpInit DEF RunnerInit
<1>2. IInv /\ [RunnerNext]_allVars => IInv'
  BY TypedStep, ShapeStep, RunnerTypesStep, PreparedStep, CleanUpStep, RunnerStep
<1>3. IInv => CleanedOnce
  <2> SUFFICES ASSUME IInv PROVE CleanedOnce
    OBVIOUS
  <2> USE DEF Typed, TypeOK, RunnerTypeOK, CleanUp
  <2>1. ASSUME NEW p \in Attempts
        PROVE  cleanups[p] <= 1 /\ (cleanups[p] = 1 => pc = "done")
    BY <2>1 DEF Prepared
  <2>2. ASSUME stage = "over", NEW p \in Attempts, cleanups[p] = 0
        PROVE  \/ p \in dropped
               \/ broken # None /\ broken < p
               \/ \A a \in Attempts : prep[a] # p /\ body[a] # p
    <3>1. CASE p \in Pending
      BY <2>2, <3>1
    <3>2. CASE p \notin Pending
      <4>1. \A a \in Attempts : prep[a] # p
        BY <2>2, <3>2 DEF Pending
      <4>2. QED
        BY <4>1 DEF Prepared
    <3>3. QED
      BY <3>1, <3>2
  <2>3. QED
    BY <2>1, <2>2 DEF CleanedOnce
<1>4. QED
  BY <1>1, <1>2, <1>3, PTL DEF RunnerSpec

(* Both: every hook that was entered is released once, on every path.        *)
THEOREM HooksArePaired == RunnerSpec => []HooksPaired
<1>1. Spec => []LifecyclePaired
  BY LifecyclesPaired
<1>2. LifecyclePaired /\ CleanedOnce => HooksPaired
  BY DEF HooksPaired
<1>3. QED
  BY <1>1, <1>2, RunnerKeepsLifecycle, PreparationsCleanedOnce, PTL
=============================================================================
