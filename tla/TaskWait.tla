------------------------------ MODULE TaskWait ------------------------------
(***************************************************************************)
(* wait_for_task_statuses: poll the tasks of a root execution until all are *)
(* terminal (pipeline_run_manager.py).  One poll fetches the root's details *)
(* and then asks for every child in turn, first as a container, then as a   *)
(* graph; the tasks move on between the requests, so one poll's map is made *)
(* of observations of different times.                                      *)
(*                                                                          *)
(* A child is a container, with one leaf task, or a graph of several; its   *)
(* leaves' statuses are the server's state.                                 *)
(***************************************************************************)
EXTENDS StatusReduction

CONSTANTS
  Children,      \* the root's tasks; just one when the root has no children
  Blank,         \* those whose execution id is missing
  Leaves,        \* the tasks below them
  Parent,        \* leaf -> the child it belongs to
  Graphs,        \* the children that are graphs
  TaskCalls,         \* bound: the calls considered, a subset of CallKinds
  TaskMaxWait,       \* max_wait, when the call is bounded
  TaskInterval,  \* poll_interval
  MaxRootFailures, \* _MAX_UNBOUNDED_ROOT_FETCH_FAILURES
  RequestTime       \* bound: the longest one request takes

\* What a caller chooses: allow_failure, and whether a max_wait is given.
TaskCallKinds == [allowFailure : BOOLEAN, bounded : BOOLEAN]

ASSUME TaskConstantsOK ==
  /\ IsFiniteSet(Children) /\ Children # {} /\ Blank \subseteq Children
  /\ Graphs \subseteq Children
  /\ IsFiniteSet(Leaves) /\ Parent \in [Leaves -> Children]
  /\ \A c \in Children : \E l \in Leaves : Parent[l] = c
  /\ TaskCalls \subseteq TaskCallKinds /\ TaskCalls # {}
  /\ TaskMaxWait \in Nat /\ TaskInterval \in Nat \ {0} /\ RequestTime \in Nat
  /\ MaxRootFailures \in Nat \ {0}

VARIABLES
  taskCall,      \* the call's parameters, which no step changes
  leafStatus,      \* leaf -> status: the server
  at,        \* "root", "children", "error", "judge", "done"
  todo,      \* children not yet asked for in this poll
  asking,    \* the child that was no container: {c}, or {}
  found,     \* child -> status, as far as this poll has got
  failures,  \* root_fetch_failures
  timeLeft,      \* time to the deadline; meaningless unless bounded
  ending     \* "none", "returned", "failed", "timeout", "outage", "raised"

waiter == <<at, todo, asking, found, failures, timeLeft, ending>>
taskVars == <<taskCall, leafStatus, waiter>>

AllowFailure == taskCall.allowFailure
HasMaxWait == taskCall.bounded

-----------------------------------------------------------------------------
(* The server. *)

LeafAdvances(l) == /\ \E s \in Follows(leafStatus[l]) : leafStatus' = [leafStatus EXCEPT ![l] = s]
              /\ UNCHANGED <<taskCall, waiter>>

Below(c) == {l \in Leaves : Parent[l] = c}
StateOf(c) == StatusFromCounts([l \in Below(c) |-> leafStatus[l]])

LeavesSettled == \A l \in Leaves : leafStatus[l] \in TerminalStatuses

-----------------------------------------------------------------------------
(* The deadline. *)

TimeIsUp == HasMaxWait /\ timeLeft <= 0
TimeAfter(d) == IF HasMaxWait THEN timeLeft - d ELSE timeLeft

(* A request that the deadline still admits, and the time it takes. *)
RequestWhenever == \E d \in 0..RequestTime : timeLeft' = TimeAfter(d)  \* mutant: no test
Request == ~TimeIsUp /\ \E d \in 0..RequestTime : timeLeft' = TimeAfter(d)

(* A sleep of poll_interval, cut at the deadline. *)
SleepBeforeNextPoll ==
  timeLeft' = TimeAfter(IF timeLeft <= 0 THEN 0 ELSE IF timeLeft <= TaskInterval THEN timeLeft ELSE TaskInterval)

Nothing == [c \in Children |-> "UNKNOWN"]

TaskInit == /\ taskCall \in TaskCalls
        /\ leafStatus = [l \in Leaves |-> "WAITING_FOR_UPSTREAM"]
        /\ at = "root"
        /\ todo = {}
        /\ asking = {}
        /\ found = Nothing
        /\ failures = 0
        /\ timeLeft = TaskMaxWait
        /\ ending = "none"

-----------------------------------------------------------------------------
(* One poll: task_statuses. *)

(* Past the deadline the root is reported as UNKNOWN without a request. *)
SkipRoot == /\ at = "root" /\ TimeIsUp
            /\ at' = "judge"
            /\ found' = Nothing
            /\ UNCHANGED <<taskCall, leafStatus, todo, asking, failures, timeLeft, ending>>

FetchRoot == /\ at = "root"
             /\ Request
             /\ at' = "children"
             /\ todo' = Children
             /\ found' = Nothing
             /\ UNCHANGED <<taskCall, leafStatus, asking, failures, ending>>

Turn(c) == at = "children" /\ c \in todo /\ asking \subseteq {c}

(* Record what the child was found to be, and turn to the next one. *)
Note(c, status) == /\ found' = [found EXCEPT ![c] = status]
                   /\ todo' = todo \ {c}
                   /\ asking' = {}
                   /\ at' = IF todo = {c} THEN "judge" ELSE "children"
                   /\ UNCHANGED <<taskCall, leafStatus, failures, ending>>

(* A child without an id, or past the deadline, is not asked for. *)
SkipChild(c) == /\ Turn(c)
                /\ c \in Blank \/ TimeIsUp
                /\ Note(c, "UNKNOWN")
                /\ timeLeft' = timeLeft

AskContainer(c) == /\ Turn(c) /\ c \notin Blank \cup Graphs /\ asking = {}
                   /\ Request
                   /\ Note(c, StateOf(c))

(* 404, because the child is a graph, or a server error that passes. *)
NoContainer(c) == /\ Turn(c) /\ c \notin Blank /\ asking = {}
                  /\ Request
                  /\ asking' = {c}
                  /\ UNCHANGED <<taskCall, leafStatus, at, todo, found, failures, ending>>

AskGraph(c) == /\ Turn(c) /\ c \in Graphs /\ asking = {c}
               /\ Request
               /\ Note(c, StateOf(c))

(* 404, because the child is a container, or a server error that passes. *)
NoGraph(c) == /\ Turn(c) /\ asking = {c}
              /\ Request
              /\ Note(c, "UNKNOWN")

AskChild(c) == AskContainer(c) \/ NoContainer(c) \/ AskGraph(c) \/ NoGraph(c)

(* A 5xx of the root, or one of a child's that is not known to pass ... *)
Asks == at = "root" \/ (at = "children" /\ (asking # {} \/ todo \ Blank # {}))

ServerError == /\ Asks
               /\ Request
               /\ at' = "error"
               /\ failures' = failures + 1
               /\ UNCHANGED <<taskCall, leafStatus, todo, asking, found, ending>>

-----------------------------------------------------------------------------
(* The wait loop. *)

Ends(how) == /\ at' = "done"
             /\ ending' = how
             /\ UNCHANGED <<taskCall, leafStatus, todo, asking, found, failures, timeLeft>>

PollNext == /\ SleepBeforeNextPoll
            /\ at' = "root"
            /\ asking' = {}
            /\ UNCHANGED <<taskCall, leafStatus, todo, found, ending>>

(* An unbounded wait survives a few failures in a row, a bounded one any     *)
(* number until its deadline.                                                *)
TooMany(n) == TimeIsUp \/ (~HasMaxWait /\ n >= MaxRootFailures)

RaiseOutage == at = "error" /\ TooMany(failures) /\ Ends("outage")

RetryLater == at = "error" /\ ~TooMany(failures) /\ PollNext /\ failures' = failures

(* Any other failure of a request: not found, refused, no transport. *)
RaiseError == Asks /\ ~TimeIsUp /\ Ends("raised")

AllTerminal == \A c \in Children : found[c] \in TerminalStatuses

FailedItself(status) ==  \* mutant: cancelled and invalid are no failures
  status \in EarlyExitStatuses
Failed(status) == status \in TerminalStatuses \ NonFailures

Return == /\ at = "judge" /\ AllTerminal
          /\ AllowFailure \/ \A c \in Children : ~Failed(found[c])
          /\ Ends("returned")

RaiseFailed == /\ at = "judge" /\ AllTerminal
               /\ ~AllowFailure /\ \E c \in Children : Failed(found[c])
               /\ Ends("failed")

RaiseTimeout == at = "judge" /\ ~AllTerminal /\ TimeIsUp /\ Ends("timeout")

PollTasksAgain == /\ at = "judge" /\ ~AllTerminal /\ ~TimeIsUp
             /\ PollNext
             /\ failures' = 0

Poll == SkipRoot \/ FetchRoot \/ \E c \in Children : SkipChild(c) \/ AskChild(c)
Judge == \/ RaiseOutage \/ RetryLater
         \/ Return \/ RaiseFailed \/ RaiseTimeout \/ PollTasksAgain

TaskFinished == at = "done" /\ UNCHANGED taskVars

TaskNext == \/ Poll \/ Judge
        \/ ServerError \/ RaiseError
        \/ \E l \in Leaves : LeafAdvances(l)
        \/ TaskFinished

TaskSpec == TaskInit /\ [][TaskNext]_taskVars

(* The loop runs on to its end: every request ends somehow, every sleep is   *)
(* over, the next step is taken.  As one of its steps is always possible,    *)
(* this is their weak fairness, in a form TLC checks fast.                   *)
TaskLoopSpec == TaskSpec /\ (<>(at = "done") \/ []<><<TRUE>>_waiter)

(* A request that fails though it was asked of the right kind of execution. *)
Glitch == \/ \E c \in Children \ Graphs : NoContainer(c)
          \/ \E c \in Graphs : NoGraph(c)
          \/ ServerError \/ RaiseError

-----------------------------------------------------------------------------
(* Properties. *)

(* The map a finished wait returns or fails with was put together from       *)
(* requests of different times, yet it is what every task ended as.          *)
FinalStatuses ==
  ending \in {"returned", "failed"} =>
    /\ LeavesSettled
    /\ \A c \in Children : found[c] = StateOf(c)

(* Without allow_failure the wait returns normally only if no leaf task was  *)
(* unsuccessful, and it reports failed tasks only if one was.                *)
FailuresSurface ==
  /\ ending = "returned" /\ ~AllowFailure =>
       \A l \in Leaves : leafStatus[l] \in NonFailures
  /\ ending = "failed" => \E l \in Leaves : leafStatus[l] \in Unsuccessful

(* So the statuses a wait hands out are final, and no failure hides in them. *)
TaskStatusesSurface == FinalStatuses /\ FailuresSurface

(* However many children a poll asks for, one request at most is still under *)
(* way at the deadline.                                                      *)
OneRequestLate == HasMaxWait => timeLeft >= -RequestTime

(* A wait with a max_wait ends, whatever the API answers.                    *)
TaskWaitEnds == HasMaxWait ~> at = "done"

(* A wait without one needs a poll in which every child was resolved: once   *)
(* the tasks have ended, it gets one if the API answers from some time on.   *)
RequestsAnswered == <>[][~Glitch]_taskVars
EndsOnceAnswered == RequestsAnswered => (LeavesSettled ~> at = "done")
=============================================================================
