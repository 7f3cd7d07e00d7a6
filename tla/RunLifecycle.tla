---------------------------- MODULE RunLifecycle ----------------------------
(***************************************************************************)
(* The submit / recover / wait / retry loop of PipelineRunManager           *)
(* (pipeline_run_manager.py, _run_body_factory and what it calls).          *)
(*                                                                          *)
(* One manager makes up to MaxAttempts attempts at running one pipeline.    *)
(* Every attempt sends at most one create request; the API server may apply *)
(* it, lose it, or apply it after the manager has stopped waiting for the   *)
(* answer.  A create request and the run it makes are both named by the     *)
(* attempt that sent it.  A submit body is named by the attempt that built  *)
(* it, and carries a submission id, the key the recovery lookup uses.       *)
(***************************************************************************)
EXTENDS Integers, FiniteSets

CONSTANTS
  MaxAttempts,      \* max_attempts of the call
  RecoveryLookups,  \* submit_recovery_attempts after the clamp to 0..6
  Wait,             \* the call's wait flag
  Settings          \* the calls to consider: who names the submission, and
                    \* what may go wrong

FaultKinds ==
  { "error",    \* a create ends in an error: timeout, refused, 5xx, hook raising
    "late",     \* ... and may end so while the request is still under way
    "lookup",   \* the recovery listing raises
    "noid",     \* the create response carries no id
    "hook",     \* a hook raises after the run id is known
    "wait",     \* waiting raises
    "escape" }  \* an exception leaves the loop: Ctrl-C, or a raising handler

ASSUME ConstantsOK ==
  /\ MaxAttempts \in Nat \ {0}
  /\ RecoveryLookups \in 0..6
  /\ Wait \in BOOLEAN
  /\ Settings \subseteq [pinned : BOOLEAN, faults : SUBSET FaultKinds]

Attempts == 1..MaxAttempts
None == 0
MaybeAttempt == Attempts \cup {None}

VARIABLES
  setting,    \* the call's setting, fixed from the start
  pc,         \* where the loop body is
  attempt,    \* the loop's counter
  body,       \* attempt -> the attempt that built its submit body, or None
  run,        \* attempt -> context.run_id: the run it tracks, or None
  net,        \* attempt -> its create request: "unsent", "flying", "applied", "lost"
  seeks,      \* whose failed submit the recovery looks for: "previous", "own"
  lookups,    \* listings done by the recovery under way
  opened,     \* attempts whose before_run_lifecycle hook ran
  closed,     \* attempts whose after_run_lifecycle hook ran
  reported,   \* attempts for which on_submit_error ran
  cancelled,  \* runs the manager has asked the server to cancel
  verdict     \* how the attempt (and, once pc is "done", the call) ends

manager == <<pc, attempt, body, run, seeks, lookups, opened, closed,
             reported, cancelled, verdict>>
vars == <<setting, manager, net>>

(* The caller's body already carries a submission id. *)
PinnedId == setting.pinned
Faults == setting.faults

PCs == {"start", "lookup", "submit", "response", "submitted", "wait",
        "failed", "release", "done"}
Verdicts == {"none", "retry", "success", "ambiguous", "failed", "aborted"}

-----------------------------------------------------------------------------
(* The server's side. *)

(* The submission id a body carries: the caller's, or the uuid minted when   *)
(* the body was built and kept for as long as that body is reused.           *)
OneSubmissionId(b) == None  \* mutant: a rebuilt body keeps the id
SubmissionId(b) == IF PinnedId THEN None ELSE b

Runs == {r \in Attempts : net[r] = "applied"}

SameSubmission(a, b) == /\ body[a] # None
                        /\ body[b] # None
                        /\ SubmissionId(body[a]) = SubmissionId(body[b])

(* What the listing filtered by this attempt's submission id returns. *)
MatchesUnfiltered(a) == Runs  \* mutant: the listing ignores the filter
Matches(a) == {r \in Runs : SameSubmission(r, a)}

Apply(r) == /\ net[r] = "flying"
            /\ net' = [net EXCEPT ![r] = "applied"]
            /\ UNCHANGED manager

(* Lost on the way, or refused by the server: the client sees an error. *)
Lose(r) == /\ net[r] = "flying"
           /\ "error" \in Faults
           /\ net' = [net EXCEPT ![r] = "lost"]
           /\ UNCHANGED manager

-----------------------------------------------------------------------------
(* The manager. *)

Init == /\ setting \in Settings
        /\ pc = "start"
        /\ attempt = 1
        /\ body = [a \in Attempts |-> None]
        /\ run = [a \in Attempts |-> None]
        /\ net = [a \in Attempts |-> "unsent"]
        /\ seeks = "own"
        /\ lookups = 0
        /\ opened = {}
        /\ closed = {}
        /\ reported = {}
        /\ cancelled = {}
        /\ verdict = "none"

(* The previous attempt failed before the API gave it a run id. *)
AlwaysRebuilds == FALSE          \* mutant: every retry builds a new body
ReusesFrozenBody == attempt > 1 /\ run[attempt - 1] = None

(* A frozen body is first looked for, then submitted. *)
FirstStep == IF ReusesFrozenBody THEN "lookup" ELSE "submit"

StartAttempt ==
  /\ pc = "start"
  /\ body' = [body EXCEPT ![attempt] =
                IF ReusesFrozenBody THEN body[attempt - 1] ELSE attempt]
  /\ opened' = opened \cup {attempt}
  /\ seeks' = IF ReusesFrozenBody THEN "previous" ELSE "own"
  /\ lookups' = 0
  /\ pc' = FirstStep
  /\ UNCHANGED <<attempt, run, net, closed, reported, cancelled, verdict>>

(* Building, validating or normalising the body, or before_run_lifecycle,    *)
(* raises: the attempt's lifecycle has not started and is not released.      *)
PrepareFails ==
  /\ pc = "start"
  /\ "escape" \in Faults
  /\ pc' = "done"
  /\ verdict' = "aborted"
  /\ UNCHANGED <<attempt, body, run, net, seeks, lookups, opened, closed,
                 reported, cancelled>>

SendCreate ==
  /\ pc = "submit"
  /\ net' = [net EXCEPT ![attempt] = "flying"]
  /\ pc' = "response"
  /\ UNCHANGED <<attempt, body, run, seeks, lookups, opened, closed,
                 reported, cancelled, verdict>>

(* An exception with no run id known starts the recovery of this attempt. *)
BeginRecovery ==
  /\ pc' = "lookup"
  /\ seeks' = "own"
  /\ lookups' = 0
  /\ UNCHANGED <<attempt, body, run, net, opened, closed, reported, cancelled,
                 verdict>>

(* before_submit_context raises: no request was sent. *)
BeforeSubmitFails ==
  /\ pc = "submit"
  /\ "error" \in Faults
  /\ BeginRecovery

CreateFails ==
  /\ pc = "response"
  /\ "error" \in Faults
  /\ net[attempt] = "flying" => "late" \in Faults
  /\ BeginRecovery

CreateReturns ==
  /\ pc = "response"
  /\ net[attempt] = "applied"
  /\ run' = [run EXCEPT ![attempt] = attempt]
  /\ pc' = "submitted"
  /\ UNCHANGED <<attempt, body, net, seeks, lookups, opened, closed,
                 reported, cancelled, verdict>>

(* The response has no id: run_id stays None, and after_submit_context still *)
(* runs.                                                                     *)
CreateReturnsNoId ==
  /\ pc = "response"
  /\ "noid" \in Faults
  /\ net[attempt] = "applied"
  /\ \/ /\ pc' = "submitted"
        /\ UNCHANGED <<attempt, body, run, net, seeks, lookups, opened,
                       closed, reported, cancelled, verdict>>
     \/ /\ "hook" \in Faults
        /\ BeginRecovery

-----------------------------------------------------------------------------
(* _recover_submitted_run_after_submit_error *)

NoLookups == FALSE  \* mutant: never looks
MoreLookups == lookups < RecoveryLookups

(* Recovery ends without a run: submit the frozen body again if that is what *)
(* it preceded, else report the submit error and fail the attempt.           *)
NothingRecovered ==
  /\ pc' = IF seeks = "previous" THEN "submit" ELSE "failed"
  /\ reported' = IF seeks = "previous" THEN reported ELSE reported \cup {attempt}
  /\ UNCHANGED <<attempt, body, run, net, seeks, lookups, opened, closed,
                 cancelled, verdict>>

LookupFindsNone ==
  /\ pc = "lookup"
  /\ MoreLookups
  /\ Matches(attempt) = {}
  /\ lookups' = lookups + 1
  /\ UNCHANGED <<pc, attempt, body, run, net, seeks, opened, closed,
                 reported, cancelled, verdict>>

LookupFindsOne ==
  /\ pc = "lookup"
  /\ MoreLookups
  /\ \E r \in Matches(attempt) :
       /\ Matches(attempt) = {r}
       /\ run' = [run EXCEPT ![attempt] = r]
  /\ pc' = "submitted"
  /\ UNCHANGED <<attempt, body, net, seeks, lookups, opened, closed,
                 reported, cancelled, verdict>>

(* AmbiguousPipelineRunRecoveryError: fail fast, never retry. *)
LookupFindsMany ==
  /\ pc = "lookup"
  /\ MoreLookups
  /\ \E r, s \in Matches(attempt) : r # s
  /\ verdict' = "ambiguous"
  /\ pc' = "release"
  /\ UNCHANGED <<attempt, body, run, net, seeks, lookups, opened, closed,
                 reported, cancelled>>

LookupFails ==
  /\ pc = "lookup"
  /\ MoreLookups
  /\ "lookup" \in Faults
  /\ NothingRecovered

LookupsExhausted ==
  /\ pc = "lookup"
  /\ ~MoreLookups
  /\ NothingRecovered

-----------------------------------------------------------------------------
(* After the submit: wait, succeed, or fail the attempt. *)

(* after_submit_context raises once the run id is known, or, on a retry,      *)
(* after_retry_submit raises.                                                *)
SubmitHookFails ==
  /\ pc = "submitted"
  /\ "hook" \in Faults
  /\ run[attempt] # None \/ attempt > 1
  /\ pc' = "failed"
  /\ UNCHANGED <<attempt, body, run, net, seeks, lookups, opened, closed,
                 reported, cancelled, verdict>>

BeginWait ==
  /\ pc = "submitted"
  /\ Wait /\ run[attempt] # None
  /\ pc' = "wait"
  /\ UNCHANGED <<attempt, body, run, net, seeks, lookups, opened, closed,
                 reported, cancelled, verdict>>

(* The call returns: the run was waited for, or there is nothing to wait on. *)
Succeed ==
  /\ \/ pc = "wait"
     \/ pc = "submitted" /\ ~(Wait /\ run[attempt] # None)
  /\ verdict' = "success"
  /\ pc' = "release"
  /\ UNCHANGED <<attempt, body, run, net, seeks, lookups, opened, closed,
                 reported, cancelled>>

WaitFails ==
  /\ pc = "wait"
  /\ "wait" \in Faults
  /\ pc' = "failed"
  /\ UNCHANGED <<attempt, body, run, net, seeks, lookups, opened, closed,
                 reported, cancelled, verdict>>

(* The handler of a failed attempt: optionally cancel its run (a policy hook *)
(* decides), then retry; the last attempt fails fast.  A cancel request that *)
(* raises leaves the loop, whatever the server did with it.                  *)
Retry ==
  /\ pc = "failed"
  /\ attempt < MaxAttempts
  /\ \/ UNCHANGED cancelled
     \/ run[attempt] # None /\ cancelled' = cancelled \cup {run[attempt]}
  /\ verdict' = "retry"
  /\ pc' = "release"
  /\ UNCHANGED <<attempt, body, run, net, seeks, lookups, opened, closed,
                 reported>>

FailFast ==
  /\ pc = "failed"
  /\ attempt = MaxAttempts
  /\ verdict' = "failed"
  /\ pc' = "release"
  /\ UNCHANGED <<attempt, body, run, net, seeks, lookups, opened, closed,
                 reported, cancelled>>

CancelFails ==
  /\ pc = "failed"
  /\ "escape" \in Faults
  /\ attempt < MaxAttempts
  /\ run[attempt] # None
  /\ cancelled' \in {cancelled, cancelled \cup {run[attempt]}}
  /\ verdict' = "aborted"
  /\ pc' = "release"
  /\ UNCHANGED <<attempt, body, run, net, seeks, lookups, opened, closed,
                 reported>>

(* Ctrl-C anywhere, around_run raising, or a hook of the handler raising. *)
Escape ==
  /\ pc \in {"lookup", "submit", "response", "submitted", "wait", "failed"}
  /\ "escape" \in Faults
  /\ verdict' = "aborted"
  /\ pc' = "release"
  /\ UNCHANGED <<attempt, body, run, net, seeks, lookups, opened, closed,
                 reported, cancelled>>

NextAttemptStuck == attempt  \* mutant: the loop counter does not advance
NextAttempt == attempt + 1

(* The finally clause: around_run exits and after_run_lifecycle runs; then   *)
(* the loop goes on only if a retry was requested.                           *)
Release ==
  /\ pc = "release"
  /\ closed' = closed \cup {attempt}
  /\ IF verdict = "retry"
       THEN pc' = "start" /\ attempt' = NextAttempt /\ verdict' = "none"
       ELSE pc' = "done" /\ UNCHANGED <<attempt, verdict>>
  /\ UNCHANGED <<body, run, net, seeks, lookups, opened, reported,
                 cancelled>>

Finished == pc = "done" /\ UNCHANGED vars

Recover == \/ LookupFindsNone \/ LookupFindsOne \/ LookupFindsMany
           \/ LookupFails \/ LookupsExhausted

Submit == \/ SendCreate \/ BeforeSubmitFails
          \/ CreateFails \/ CreateReturns \/ CreateReturnsNoId

Conclude == \/ SubmitHookFails \/ BeginWait \/ Succeed \/ WaitFails
            \/ Retry \/ FailFast \/ CancelFails \/ Escape \/ Release

Manager == /\ StartAttempt \/ PrepareFails \/ Submit \/ Recover \/ Conclude
           /\ UNCHANGED setting

Server == /\ \E r \in Attempts : Apply(r) \/ Lose(r)
          /\ UNCHANGED setting

Next == Manager \/ Server \/ Finished

Spec == Init /\ [][Next]_vars

-----------------------------------------------------------------------------
(* Properties. *)

(* Type invariant of the manager's and the server's state. *)
TypeOK == /\ setting \in Settings
          /\ pc \in PCs
          /\ attempt \in Attempts
          /\ body \in [Attempts -> MaybeAttempt]
          /\ run \in [Attempts -> MaybeAttempt]
          /\ net \in [Attempts -> {"unsent", "flying", "applied", "lost"}]
          /\ seeks \in {"previous", "own"}
          /\ lookups \in 0..RecoveryLookups
          /\ opened \subseteq Attempts
          /\ closed \subseteq Attempts
          /\ reported \subseteq Attempts
          /\ cancelled \subseteq Attempts
          /\ verdict \in Verdicts

(* A retry is asked for only when the budget has another attempt.            *)
RetryHasRoom == verdict = "retry" => attempt < MaxAttempts

(* A frozen body is shared only by consecutive attempts, and every attempt   *)
(* but the last of them ended without a run id: a body whose run is known is *)
(* never submitted again, and doubt about a submit never rebuilds the body.  *)
FrozenWhileInDoubt ==
  \A a, b \in Attempts :
    a < b /\ body[b] # None =>
      (body[a] = body[b]) <=> \A c \in a..(b - 1) : run[c] = None

(* Whatever the order of late answers and lookups, the run an attempt tracks *)
(* exists and was made from that attempt's own submission.                   *)
TracksOwnSubmission ==
  \A a \in Attempts : run[a] # None => run[a] \in Runs /\ SameSubmission(run[a], a)

(* Both: a body is submitted again only while its fate is in doubt, and what *)
(* is tracked is what that body made.                                        *)
SubmissionFollowed == FrozenWhileInDoubt /\ TracksOwnSubmission

(* The conditions under which submits are exact: fresh ids, at least one     *)
(* lookup that works, and no create still under way when it is looked for.   *)
Settled == /\ ~PinnedId
           /\ RecoveryLookups > 0
           /\ Faults \cap {"late", "lookup"} = {}

(* The submit error handling is exact when a failed create is settled before *)
(* the lookups and the lookups work: however often submits fail, time out    *)
(* after the server acted, or answer without an id, one logical submission   *)
(* never makes two runs.                                                     *)
AtMostOneRun == Settled => \A r, s \in Runs : SameSubmission(r, s) => r = s

(* Under the same conditions on_submit_error is truthful: when it runs, no   *)
(* run of that submission exists on the server.                              *)
ReportsTruthfully ==
  [][Settled => \A a \in reported' \ reported :
                  \A r \in Runs : ~SameSubmission(r, a)]_vars

(* A run that the retry policy cancelled is never returned as the result: by *)
(* a caller who leaves the submission id to the manager in no case, by one   *)
(* who pins it only where a failed submit was recovered by adopting it.      *)
SuccessNotCancelled ==
  verdict = "success" /\ run[attempt] \in cancelled =>
    PinnedId /\ run[attempt] # attempt

(* Both: a submission is one run, and that run is no cancelled one.          *)
OneRunOfUse == AtMostOneRun /\ SuccessNotCancelled

(* Every lifecycle opened is released before the next one opens and before   *)
(* the call ends, on every path out of the loop.                             *)
LifecyclePaired ==
  /\ closed \subseteq opened
  /\ opened \ closed = IF pc \in {"start", "done"} THEN {} ELSE {attempt}

(* The loop implements LogicalRun: a submission is named by the attempt that *)
(* built its body, and tracks what the last attempt that used it tracks.     *)
Current == IF body[attempt] # None THEN body[attempt]
           ELSE IF attempt > 1 THEN body[attempt - 1] ELSE None

TrackedFor(s) ==
  IF \E a \in Attempts : body[a] = s /\ run[a] # None
    THEN run[CHOOSE a \in Attempts : body[a] = s /\ run[a] # None]
    ELSE None

Promise == IF PinnedId THEN "none" ELSE IF Settled THEN "exact" ELSE "tracked"
Made == [s \in Attempts |-> {r \in Runs : body[r] = s}]
Tracked == [s \in Attempts |-> TrackedFor(s)]
Result == IF verdict \in {"none", "retry"} THEN "open" ELSE verdict

Logical == INSTANCE LogicalRun WITH
  Submissions <- Attempts, Runs <- Attempts, NoRun <- None,
  promise <- Promise, current <- Current, made <- Made, tracked <- Tracked,
  result <- Result

(* A new submission starts only when the run of the last one is known, one   *)
(* run is tracked per submission, and, under Settled, one run is made.       *)
ImplementsLogicalRun == Logical!Spec
=============================================================================
