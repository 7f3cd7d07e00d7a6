------------------------------ MODULE WaitLoop ------------------------------
(***************************************************************************)
(* wait_for_completion: poll a run until its tasks are terminal, a task has *)
(* failed (fail-fast), or max_wait is over (pipeline_run_manager.py).       *)
(*                                                                          *)
(* A poll reads the run and then, with use_graph_state, its graph state;    *)
(* tasks move on between the reads and between the polls.  Time is kept as  *)
(* the time left to the deadline on the clock the deadline is read from,    *)
(* which the wall clock may set forward or back.                            *)
(***************************************************************************)
EXTENDS StatusReduction

CONSTANTS
  Tasks,          \* the tasks of the run
  Calls,          \* bound: the calls considered, a subset of CallKinds
  MaxWait,        \* max_wait, when the call is bounded
  PollInterval,   \* poll_interval
  RetryInterval,  \* the interval on_poll_error returns, when the call retries
  ReadTime,       \* bound: the longest one API read takes
  Jumps,          \* bound: how often the deadline's clock is set; 0: monotonic
  JumpSize        \* bound: by how much

\* What a caller and its hooks choose: use_graph_state, exit_on_first_failure,
\* whether a max_wait is given and enforced, and whether on_poll_error returns
\* an interval to poll again after instead of None.
CallKinds == [graph : BOOLEAN, failFast : BOOLEAN, bounded : BOOLEAN, retries : BOOLEAN]

ASSUME ConstantsOK ==
  /\ IsFiniteSet(Tasks) /\ Tasks # {}
  /\ Calls \subseteq CallKinds /\ Calls # {}
  /\ MaxWait \in Nat /\ PollInterval \in Nat \ {0} /\ RetryInterval \in Nat
  /\ ReadTime \in Nat /\ Jumps \in Nat /\ JumpSize \in Nat

VARIABLES
  call,     \* the call's parameters, which no step changes
  task,     \* the server's status of every task
  pc,       \* "poll", "graph", "observe", "error", "done"
  seen,     \* the statuses this poll has collected
  ended,    \* this poll's execution_summary.has_ended
  left,     \* time to the deadline; meaningless unless bounded
  jumps,    \* settings of the clock so far
  result    \* how the wait ended

poller == <<pc, seen, ended, left, result>>
vars == <<call, task, poller, jumps>>

UseGraphState == call.graph
FailFast == call.failFast
Bounded == call.bounded
Retries == call.retries

Unsettled == [kind |-> "none", status |-> "UNKNOWN", success |-> "unknown",
              early |-> FALSE, notified |-> FALSE]

Observations == [Tasks -> Statuses] \cup {Empty}

-----------------------------------------------------------------------------
(* The server. *)

Advance(t) == /\ \E s \in Follows(task[t]) : task' = [task EXCEPT ![t] = s]
              /\ UNCHANGED <<call, poller, jumps>>

Settled == \A t \in Tasks : task[t] \in TerminalStatuses

(* With timeout_clock "wall" the deadline is read from time.time(): setting   *)
(* the clock moves it. The default clock is monotonic and is never set.       *)
SetClock == /\ Bounded /\ pc # "done" /\ jumps < Jumps
            /\ jumps' = jumps + 1
            /\ \E d \in {JumpSize, -JumpSize} : left' = left + d
            /\ UNCHANGED <<call, task, pc, seen, ended, result>>

-----------------------------------------------------------------------------
(* The loop. *)

Least(a, b) == IF a <= b THEN a ELSE b
Most(a, b) == IF a >= b THEN a ELSE b

After(d) == IF Bounded THEN left - d ELSE left
Expired == Bounded /\ left <= 0

(* Sleep, but not past the deadline, and poll again. *)
SleepWholeInterval(interval) == After(interval)  \* mutant: unclamped
Sleep(interval) == After(Least(interval, Most(0, left)))

Init == /\ call \in Calls
        /\ task = [t \in Tasks |-> "WAITING_FOR_UPSTREAM"]
        /\ pc = "poll"
        /\ seen = Empty
        /\ ended = FALSE
        /\ left = MaxWait
        /\ jumps = 0
        /\ result = Unsettled

(* The run's answer may lack counts, and then may say that the run ended. *)
ReadRun ==
  /\ pc = "poll"
  /\ \E d \in 0..ReadTime : left' = After(d)
  /\ \E counted \in BOOLEAN : seen' = IF counted THEN task ELSE Empty
  /\ ended' = Settled
  /\ pc' = IF UseGraphState THEN "graph" ELSE "observe"
  /\ UNCHANGED <<call, task, jumps, result>>

(* The graph's counts, when it has any, replace the run's. *)
ReadGraph ==
  /\ pc = "graph"
  /\ \E d \in 0..ReadTime : left' = After(d)
  /\ \E counted \in BOOLEAN : seen' = IF counted THEN task ELSE seen
  /\ pc' = "observe"
  /\ UNCHANGED <<call, task, ended, jumps, result>>

ReadFails ==
  /\ pc \in {"poll", "graph"}
  /\ \E d \in 0..ReadTime : left' = After(d)
  /\ pc' = "error"
  /\ UNCHANGED <<call, task, seen, ended, jumps, result>>

GiveUp == Expired \/ ~Retries

(* A failing poll after the deadline is a timeout, before it the hook's call. *)
HandleError ==
  /\ pc = "error"
  /\ IF GiveUp
       THEN /\ pc' = "done"
            /\ result' = [Unsettled EXCEPT !.kind =
                            IF Expired THEN "expired" ELSE "raised"]
            /\ left' = left
       ELSE /\ pc' = "poll"
            /\ left' = Sleep(RetryInterval)
            /\ result' = result
  /\ UNCHANGED <<call, task, seen, ended, jumps>>

Terminal == PollTerminal(seen, ended, UseGraphState)
EarlyExit == FailFast /\ CountOf(seen, EarlyExitStatuses) > 0

(* What the wait returns: its result, outcome, and the after_wait call. *)
Finish(kind) ==
  LET status == PollStatus(seen, ended)
      outcome == FromPollResult(seen, ended, UseGraphState,
                                kind = "timeout", kind = "early")
  IN  /\ pc' = "done"
      /\ result' = [ kind |-> kind, status |-> status,
                     success |-> outcome.success, early |-> outcome.early,
                     notified |-> kind = "terminal" /\ TerminalName(status) ]
      /\ UNCHANGED <<call, task, seen, ended, left, jumps>>

ObserveTerminal == pc = "observe" /\ Terminal /\ Finish("terminal")

ExitEarly == pc = "observe" /\ ~Terminal /\ EarlyExit /\ Finish("early")

TimeOut == pc = "observe" /\ ~Terminal /\ ~EarlyExit /\ Expired /\ Finish("timeout")

PollAgain ==
  /\ pc = "observe"
  /\ ~Terminal /\ ~EarlyExit /\ ~Expired
  /\ left' = Sleep(PollInterval)
  /\ pc' = "poll"
  /\ UNCHANGED <<call, task, seen, ended, jumps, result>>

Read == ReadRun \/ ReadGraph
Decide == HandleError \/ ObserveTerminal \/ ExitEarly \/ TimeOut \/ PollAgain
Environment == SetClock \/ \E t \in Tasks : Advance(t)

Finished == pc = "done" /\ UNCHANGED vars

Next == Read \/ ReadFails \/ Decide \/ Environment \/ Finished

Spec == Init /\ [][Next]_vars

(* The loop runs on to its end: every request ends somehow, every sleep is   *)
(* over, the next step is taken.  As one of its steps is always possible,    *)
(* this is their weak fairness, in a form TLC checks fast.                   *)
LoopSpec == Spec /\ (<>(pc = "done") \/ []<><<TRUE>>_pc)

-----------------------------------------------------------------------------
(* Properties. *)

Kinds == {"none", "terminal", "early", "timeout", "expired", "raised"}

(* The states the loop keeps: its place, the poll, the clock, the result. *)
TypeOK ==
  /\ call \in Calls
  /\ task \in [Tasks -> Statuses]
  /\ pc \in {"poll", "graph", "observe", "error", "done"}
  /\ seen \in Observations
  /\ ended \in BOOLEAN
  /\ left \in Int
  /\ jumps \in 0..Jumps
  /\ result \in [ kind : Kinds, success : {"yes", "no", "unknown"},
                   status : Statuses \cup {"ENDED", "UNKNOWN"},
                   early : BOOLEAN, notified : BOOLEAN ]

Failing(t) == task[t] \in Unsuccessful

(* The success verdict, put together from reads made while the tasks were    *)
(* moving, is right: True only if none was unsuccessful, False only if one   *)
(* was; and a terminal result, for which alone after_wait is called, means   *)
(* that all have ended.                                                      *)
VerdictIsTrue ==
  /\ result.success = "yes" => \A t \in Tasks : task[t] \in NonFailures
  /\ result.success = "no" => \E t \in Tasks : Failing(t)
  /\ result.notified \/ result.kind = "terminal" => Settled

(* The one status of a finished run never hides an unsuccessful task behind  *)
(* a successful or skipped one, when the API gave any counts.                *)
StatusShowsFailure ==
  result.kind = "terminal" /\ result.status # "ENDED" =>
    (result.status \in Unsuccessful <=> \E t \in Tasks : Failing(t))

(* A run that had ended when the last poll read it is neither a timeout nor  *)
(* an early exit, even if the deadline is long over and a task has failed.   *)
EndedIsTerminal == result.kind \in {"timeout", "early"} => ~ended

(* The outcome the loop records from its poll and the one rebuilt from the   *)
(* public result and metadata["wait_result"] say the same.                   *)
OutcomesAgree ==
  result.kind \in {"terminal", "early", "timeout"} =>
    LET rebuilt == FromWaitResult(result.status, seen,
                                  result.kind = "timeout", result.kind = "early")
    IN  rebuilt.success = result.success /\ rebuilt.early = result.early

(* What a wait reports of the run is true of the server's tasks, though they *)
(* moved between and during its polls, and is the same wherever it is read.  *)
ReportIsTrue == VerdictIsTrue /\ StatusShowsFailure /\ EndedIsTerminal /\ OutcomesAgree

(* On a clock nobody sets, no poll starts after the deadline, so the wait    *)
(* overruns max_wait by the reads of one poll at most.                       *)
NoLatePoll ==
  Bounded /\ jumps = 0 =>
    /\ pc = "poll" => left >= 0
    /\ left >= -(IF UseGraphState THEN 2 * ReadTime ELSE ReadTime)

(* A wait with a max_wait returns or raises, whatever the server does and    *)
(* however often polls fail and are retried.                                 *)
WaitEnds == Bounded ~> pc = "done"

(* A wait without one returns once the tasks have ended, if polls only fail  *)
(* now and then.                                                             *)
ApiAnswers == SF_vars(ReadRun) /\ SF_vars(ReadGraph)
EndsOnceSettled == ApiAnswers => (Settled ~> pc = "done")
=============================================================================
