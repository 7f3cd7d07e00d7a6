------------------------------ MODULE MCWaits ------------------------------
(* The two ways to wait for a run: for the run as a whole (WaitLoop) or for  *)
(* the tasks of its root (TaskWait).  A behaviour is one wait of one kind.   *)
EXTENDS WaitLoop, TaskWait, TLC

Call(graph, failFast, bounded, retries) ==
  [graph |-> graph, failFast |-> failFast, bounded |-> bounded, retries |-> retries]

\* Both ways to poll, with and without a deadline, and hooks of both kinds.
FourCalls == { Call(TRUE, TRUE, TRUE, TRUE), Call(FALSE, TRUE, TRUE, FALSE),
               Call(TRUE, FALSE, FALSE, TRUE), Call(FALSE, TRUE, FALSE, TRUE) }

-----------------------------------------------------------------------------
(* A root with one container child and one graph child of two tasks. *)

CONSTANTS container, graph, step, inner1, inner2

TwoKinds == {container, graph}
ThreeLeaves == {step, inner1, inner2}
OneStepTwoBelow == (step :> container) @@ (inner1 :> graph) @@ (inner2 :> graph)

\* Failing on a failed task within a deadline, and collecting failures without.
TwoCalls == { [allowFailure |-> FALSE, bounded |-> TRUE],
              [allowFailure |-> TRUE, bounded |-> FALSE] }

VARIABLE which  \* "run" or "tasks", which no step changes

\* The wait that is not taken is over from the start.
NoRunWait ==
  /\ call = Call(FALSE, FALSE, FALSE, FALSE) /\ task = [t \in Tasks |-> "UNINITIALIZED"]
  /\ pc = "done" /\ seen = Empty /\ ended = FALSE /\ left = 0 /\ jumps = 0
  /\ result = Unsettled

NoTaskWait ==
  /\ taskCall = [allowFailure |-> TRUE, bounded |-> FALSE]
  /\ leafStatus = [l \in Leaves |-> "UNINITIALIZED"]
  /\ at = "done" /\ todo = {} /\ asking = {} /\ found = Nothing
  /\ failures = 0 /\ timeLeft = 0 /\ ending = "none"

WaitsInit == \/ which = "run" /\ Init /\ NoTaskWait
             \/ which = "tasks" /\ TaskInit /\ NoRunWait

WaitsNext == \/ which = "run" /\ Next /\ UNCHANGED <<which, taskVars>>
             \/ which = "tasks" /\ TaskNext /\ UNCHANGED <<which, vars>>

Over == pc = "done" /\ at = "done"

\* The fairness of LoopSpec, for the wait that is taken.
WaitsSpec == /\ WaitsInit /\ [][WaitsNext]_<<which, vars, taskVars>>
             /\ <>Over \/ []<><<TRUE>>_<<pc, waiter>>

-----------------------------------------------------------------------------
(* Liveness of both. *)

(* A wait with a max_wait ends, whatever the API answers and however often   *)
(* polls fail and are retried; one without ends once the tasks have ended,   *)
(* if the API answers again: WaitEnds with EndsOnceSettled, EndsOnceAnswered.*)
WaitsEnd ==
  /\ Bounded \/ HasMaxWait ~> Over
  /\ ApiAnswers /\ RequestsAnswered =>
       ((IF which = "run" THEN Settled ELSE LeavesSettled) ~> Over)
=============================================================================
