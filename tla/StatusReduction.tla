-------------------------- MODULE StatusReduction --------------------------
(***************************************************************************)
(* How PipelineRunManager reduces what the API reports of a run's tasks to  *)
(* one status, and a finished wait to a success verdict                     *)
(* (pipeline_run_manager.py).                                               *)
(*                                                                          *)
(* An observation is a function from the tasks the API reported to their    *)
(* statuses; the API's count of a status is the number of tasks that have   *)
(* it, and an empty observation stands for an answer without counts.        *)
(***************************************************************************)
EXTENDS Integers, Sequences, FiniteSets

ActiveOrder == << "RUNNING", "CANCELLING", "CANCELING", "PENDING", "QUEUED",
                  "WAITING_FOR_UPSTREAM", "UNINITIALIZED" >>
TerminalPrecedenceSkipsFirst ==  \* mutant: non-failures outrank failures
  << "SKIPPED", "SUCCEEDED", "FAILED", "SYSTEM_ERROR", "CANCELLED",
     "CANCELED", "INVALID" >>
TerminalPrecedence == << "FAILED", "SYSTEM_ERROR", "CANCELLED", "CANCELED",
                         "INVALID", "SKIPPED", "SUCCEEDED" >>

Image(order) == {order[i] : i \in DOMAIN order}

TerminalStatuses == Image(TerminalPrecedence)
Statuses == Image(ActiveOrder) \cup TerminalStatuses
EarlyExitStatuses == {"FAILED", "SYSTEM_ERROR"}
NonFailures == {"SKIPPED", "SUCCEEDED"}
Unsuccessful == {"FAILED", "SYSTEM_ERROR", "CANCELLED", "CANCELED", "INVALID"}

(* How the backend moves a task on; a terminal status has no successor. *)
Follows(s) == CASE s = "WAITING_FOR_UPSTREAM" -> {"RUNNING", "SKIPPED", "INVALID"}
                [] s = "RUNNING" -> {"SUCCEEDED", "FAILED", "SYSTEM_ERROR", "CANCELLING"}
                [] s = "CANCELLING" -> {"CANCELLED"}
                [] OTHER -> {}

Empty == << >>
Total(seen) == Cardinality(DOMAIN seen)
CountOf(seen, S) == Cardinality({t \in DOMAIN seen : seen[t] \in S})

(* The first status of the order that some task has, "none" if there is none. *)
FirstSeen(order, seen) ==
  LET at == {i \in DOMAIN order : CountOf(seen, {order[i]}) > 0}
  IN  IF at = {} THEN "none"
      ELSE order[CHOOSE i \in at : \A j \in at : i <= j]

StatusFromCounts(seen) ==
  IF FirstSeen(ActiveOrder, seen) # "none"
    THEN FirstSeen(ActiveOrder, seen)
    ELSE FirstSeen(TerminalPrecedence, seen)

(* Without counts the run's summary can still say that it ended. *)
PollStatus(seen, ended) ==
  IF StatusFromCounts(seen) # "none" THEN StatusFromCounts(seen)
  ELSE IF ended THEN "ENDED" ELSE "UNKNOWN"

TerminalNameNoEnded(status) ==  \* mutant: "ENDED" is not terminal
  status \in TerminalStatuses
TerminalName(status) == status \in TerminalStatuses \/ status = "ENDED"

AllCounted(seen) == CountOf(seen, TerminalStatuses) = Total(seen)

PollTerminal(seen, ended, useGraphState) ==
  IF useGraphState /\ Total(seen) > 0
    THEN AllCounted(seen)
    ELSE TerminalName(PollStatus(seen, ended))

(* A success value is "yes", "no" or "unknown": True, False, None. *)
Override(seen, terminal) ==
  IF ~terminal \/ Total(seen) = 0 THEN "unknown"
  ELSE IF CountOf(seen, Unsuccessful) > 0 THEN "no"
  ELSE IF AllCounted(seen) THEN "yes" ELSE "unknown"

(* PipelineWaitOutcome.success *)
Success(status, timedOut, earlyExit, override, seen) ==
  IF override # "unknown" THEN override
  ELSE IF timedOut THEN "unknown"
  ELSE IF earlyExit \/ CountOf(seen, EarlyExitStatuses) > 0 THEN "no"
  ELSE IF status = "SUCCEEDED" THEN "yes"
  ELSE IF status \in TerminalStatuses THEN "no" ELSE "unknown"

(* An early exit that saw no task at all is a plain failure. *)
Outcome(status, timedOut, earlyExit, seen, terminal) ==
  LET hollow == earlyExit /\ Total(seen) = 0
      override == IF hollow THEN "no" ELSE Override(seen, terminal /\ ~timedOut)
  IN  [ early   |-> earlyExit /\ ~hollow,
        success |-> Success(status, timedOut, earlyExit /\ ~hollow,
                            override, seen) ]

(* Built by the wait loop from its last poll ... *)
FromPollResult(seen, ended, useGraphState, timedOut, earlyExit) ==
  Outcome(PollStatus(seen, ended), timedOut, earlyExit, seen,
          PollTerminal(seen, ended, useGraphState))

(* ... or rebuilt from the public wait result and its metadata. *)
FromWaitResult(status, seen, timedOut, earlyExit) ==
  Outcome(status, timedOut, earlyExit, seen, TerminalName(status))
=============================================================================
