----------------------------- MODULE WaitProofs -----------------------------
(***************************************************************************)
(* What the two ways to wait guarantee, for every set of tasks and every   *)
(* timing.  WaitLoop: the verdict of success is true of the tasks, and no  *)
(* poll starts late.  TaskWait, for every set of children and all answers  *)
(* of the API: the statuses it hands out are final, no failure hides in    *)
(* them, and one request at most is late.  Both rest on what the            *)
(* reductions of StatusReduction say of the tasks an observation reports.   *)
(***************************************************************************)
EXTENDS WaitLoop, TaskWait, FiniteSetTheorems, TLAPS

-----------------------------------------------------------------------------
(* Counting tasks. *)

(* A count is positive exactly when some reported task has such a status.    *)
LEMMA CountPositive ==
  ASSUME NEW o, IsFiniteSet(DOMAIN o), NEW S
  PROVE  CountOf(o, S) > 0 <=> \E t \in DOMAIN o : o[t] \in S
<1> DEFINE H == {t \in DOMAIN o : o[t] \in S}
<1>1. IsFiniteSet(H)
  BY FS_Subset
<1>2. Cardinality(H) \in Nat /\ (Cardinality(H) = 0 <=> H = {})
  BY <1>1, FS_EmptySet, FS_CardinalityType
<1>3. CountOf(o, S) = Cardinality(H)
  BY DEF CountOf
<1> QED BY <1>2, <1>3

(* An observation counts no task at all exactly when it reports none.        *)
LEMMA TotalPositive ==
  ASSUME NEW o, IsFiniteSet(DOMAIN o)
  PROVE  Total(o) \in Nat /\ (Total(o) = 0 <=> DOMAIN o = {})
BY FS_EmptySet, FS_CardinalityType DEF Total

(* As many tasks are terminal as there are tasks exactly when they all are.  *)
LEMMA AllCountedMeans ==
  ASSUME NEW o, IsFiniteSet(DOMAIN o)
  PROVE  AllCounted(o) <=> \A t \in DOMAIN o : o[t] \in TerminalStatuses
<1> DEFINE H == {t \in DOMAIN o : o[t] \in TerminalStatuses}
<1>1. AllCounted(o) <=> Cardinality(H) = Cardinality(DOMAIN o)
  BY DEF AllCounted, CountOf, Total
<1>2. Cardinality(H) = Cardinality(DOMAIN o) => H = DOMAIN o
  <2>1. H \in SUBSET DOMAIN o
    OBVIOUS
  <2> QED BY <2>1, FS_Subset
<1> QED BY <1>1, <1>2

-----------------------------------------------------------------------------
(* The reduced status. *)

(* An order of at most seven statuses has a first one that is counted.       *)
LEMMA FirstOfSeven ==
  ASSUME NEW counted \in SUBSET (1..7), counted # {}
  PROVE  \E i \in counted : \A j \in counted : i <= j
<1> DEFINE First(k) == k \in counted /\ \A j \in 1..7 : j < k => j \notin counted
<1>1. \E k \in 1..7 : k \in counted
  OBVIOUS
<1>2. First(1) \/ First(2) \/ First(3) \/ First(4) \/ First(5) \/ First(6) \/ First(7)
  BY <1>1
<1>3. PICK k \in 1..7 : First(k)
  BY <1>2
<1>4. \A j \in counted : k <= j
  BY <1>3
<1> QED BY <1>3, <1>4

(* FirstSeen is "none" when no task has a status of the order, and otherwise *)
(* a status of the order that some task has.                                 *)
LEMMA FirstSeenOf ==
  ASSUME NEW o, IsFiniteSet(DOMAIN o), NEW order \in {ActiveOrder, TerminalPrecedence}
  PROVE  \/ /\ FirstSeen(order, o) = "none"
            /\ \A t \in DOMAIN o : o[t] \notin Image(order)
         \/ /\ FirstSeen(order, o) \in Image(order)
            /\ \E t \in DOMAIN o : o[t] = FirstSeen(order, o)
<1> DEFINE counted == {i \in DOMAIN order : CountOf(o, {order[i]}) > 0}
<1>1. DOMAIN order = 1..7
  BY DEF ActiveOrder, TerminalPrecedence
<1>2. CASE counted = {}
  <2>1. FirstSeen(order, o) = "none"
    BY <1>2 DEF FirstSeen
  <2>2. ASSUME NEW t \in DOMAIN o, NEW i \in DOMAIN order, o[t] = order[i]
        PROVE FALSE
    BY <1>2, <2>2, CountPositive
  <2> QED BY <2>1, <2>2 DEF Image
<1>3. CASE counted # {}
  <2>1. \E i \in counted : \A j \in counted : i <= j
    BY <1>1, <1>3, FirstOfSeven
  <2>2. FirstSeen(order, o) = order[CHOOSE i \in counted : \A j \in counted : i <= j]
    BY <1>3 DEF FirstSeen
  <2>3. PICK i \in counted : FirstSeen(order, o) = order[i]
    BY <2>1, <2>2
  <2>4. \E t \in DOMAIN o : o[t] \in {order[i]}
    BY <2>3, CountPositive
  <2> QED BY <2>3, <2>4 DEF Image
<1> QED BY <1>2, <1>3

(* The names of the active and the terminal statuses. *)
LEMMA NamesApart ==
  /\ "none" \notin Image(ActiveOrder) \cup TerminalStatuses
  /\ "ENDED" \notin Statuses /\ "UNKNOWN" \notin Statuses
  /\ Image(ActiveOrder) \cap TerminalStatuses = {}
  /\ "SUCCEEDED" \in TerminalStatuses
  /\ Unsuccessful \subseteq TerminalStatuses
  /\ NonFailures = TerminalStatuses \ Unsuccessful
  /\ EarlyExitStatuses \subseteq Unsuccessful
BY DEF Image, ActiveOrder, TerminalPrecedence, TerminalStatuses, Statuses,
       Unsuccessful, NonFailures, EarlyExitStatuses

(* No status before the first that is seen is any task's.                    *)
LEMMA FirstSeenIsFirst ==
  ASSUME NEW o, IsFiniteSet(DOMAIN o),
         FirstSeen(TerminalPrecedence, o) # "none"
  PROVE  \E i \in 1..7 : /\ FirstSeen(TerminalPrecedence, o) = TerminalPrecedence[i]
                          /\ \A j \in 1..7, t \in DOMAIN o :
                               o[t] = TerminalPrecedence[j] => i <= j
<1> DEFINE order == TerminalPrecedence
           counted == {i \in DOMAIN order : CountOf(o, {order[i]}) > 0}
<1>1. DOMAIN order = 1..7
  BY DEF TerminalPrecedence
<1>2. counted # {}
  BY DEF FirstSeen
<1>3. \E i \in counted : \A j \in counted : i <= j
  BY <1>1, <1>2, FirstOfSeven
<1>4. FirstSeen(order, o) = order[CHOOSE i \in counted : \A j \in counted : i <= j]
  BY <1>2 DEF FirstSeen
<1>5. PICK i \in counted : FirstSeen(order, o) = order[i] /\ \A j \in counted : i <= j
  BY <1>3, <1>4
<1>6. ASSUME NEW j \in 1..7, NEW t \in DOMAIN o, o[t] = order[j] PROVE i <= j
  <2>1. j \in counted
    BY <1>1, <1>6, CountPositive
  <2> QED BY <1>5, <2>1
<1> QED BY <1>1, <1>5, <1>6

(* An observation without tasks reduces to no status of a task.              *)
LEMMA EmptyStatus ==
  ASSUME NEW o, DOMAIN o = {}, NEW over
  PROVE  PollStatus(o, over) = IF over THEN "ENDED" ELSE "UNKNOWN"
<1>1. IsFiniteSet(DOMAIN o)
  BY FS_EmptySet
<1>2. FirstSeen(ActiveOrder, o) = "none" /\ FirstSeen(TerminalPrecedence, o) = "none"
  BY <1>1, FirstSeenOf
<1> QED BY <1>2 DEF PollStatus, StatusFromCounts

(* Observations that report tasks, and the status some of them has. *)
Reported(o) == /\ IsFiniteSet(DOMAIN o) /\ DOMAIN o # {}
               /\ \A t \in DOMAIN o : o[t] \in Statuses

LEMMA StatusOfSome ==
  ASSUME NEW o, Reported(o)
  PROVE  /\ \E t \in DOMAIN o : o[t] = StatusFromCounts(o)
         /\ StatusFromCounts(o) \in Statuses
<1>1. PICK t \in DOMAIN o : o[t] \in Image(ActiveOrder) \cup Image(TerminalPrecedence)
  BY DEF Reported, Statuses, TerminalStatuses
<1>2. CASE FirstSeen(ActiveOrder, o) # "none"
  BY <1>2, FirstSeenOf DEF Reported, StatusFromCounts
<1>3. CASE FirstSeen(ActiveOrder, o) = "none"
  <2>1. o[t] \in Image(TerminalPrecedence)
    BY <1>1, <1>3, FirstSeenOf, NamesApart DEF Reported
  <2> QED BY <1>3, <2>1, FirstSeenOf DEF Reported, StatusFromCounts
<1> QED BY <1>2, <1>3

(* The reduced status is terminal exactly when every task's is: an active    *)
(* task outranks all that have ended.                                        *)
LEMMA TerminalMeansAll ==
  ASSUME NEW o, Reported(o)
  PROVE  StatusFromCounts(o) \in TerminalStatuses <=>
           \A t \in DOMAIN o : o[t] \in TerminalStatuses
<1>1. CASE FirstSeen(ActiveOrder, o) = "none"
  <2>1. \A t \in DOMAIN o : o[t] \notin Image(ActiveOrder)
    BY <1>1, FirstSeenOf, NamesApart DEF Reported
  <2> QED BY <2>1, StatusOfSome DEF Reported, Statuses
<1>2. CASE FirstSeen(ActiveOrder, o) # "none"
  BY <1>2, FirstSeenOf, NamesApart DEF Reported, StatusFromCounts
<1> QED BY <1>1, <1>2

(* Of tasks that have all ended, the reduced status is unsuccessful exactly  *)
(* when one of them is: the unsuccessful statuses come first in the order.   *)
LEMMA FailuresFirst ==
  ASSUME NEW o, Reported(o), \A t \in DOMAIN o : o[t] \in TerminalStatuses
  PROVE  StatusFromCounts(o) \in Unsuccessful <=>
           \E t \in DOMAIN o : o[t] \in Unsuccessful
<1>1. PICK u \in DOMAIN o : o[u] = StatusFromCounts(o)
  BY StatusOfSome
<1>2. FirstSeen(ActiveOrder, o) = "none"
  BY FirstSeenOf, NamesApart DEF Reported
<1>3. FirstSeen(TerminalPrecedence, o) = o[u] /\ o[u] # "none"
  BY <1>1, <1>2, NamesApart DEF StatusFromCounts
<1>4. ASSUME NEW t \in DOMAIN o, o[t] \in Unsuccessful PROVE o[u] \in Unsuccessful
  <2>1. PICK i \in 1..7 : /\ o[u] = TerminalPrecedence[i]
                          /\ \A j \in 1..7 : o[t] = TerminalPrecedence[j] => i <= j
    BY <1>3, FirstSeenIsFirst DEF Reported
  <2>2. PICK j \in 1..5 : o[t] = TerminalPrecedence[j]
    BY <1>4 DEF Unsuccessful, TerminalPrecedence
  <2>3. i \in 1..5
    BY <2>1, <2>2
  <2> QED BY <2>1, <2>3 DEF Unsuccessful, TerminalPrecedence
<1> QED BY <1>1, <1>4

(* The two tests for a finished poll agree, on the counts and on the status  *)
(* they reduce to: with counts both ask whether every task has ended.        *)
LEMMA TerminalTestsAgree ==
  ASSUME NEW o, IsFiniteSet(DOMAIN o), \A t \in DOMAIN o : o[t] \in Statuses,
         NEW over, NEW graph \in BOOLEAN
  PROVE  PollTerminal(o, over, graph) <=> TerminalName(PollStatus(o, over))
<1>1. CASE graph /\ Total(o) > 0
  <2>1. Reported(o)
    BY <1>1, TotalPositive DEF Reported
  <2>2. PollStatus(o, over) = StatusFromCounts(o) /\ StatusFromCounts(o) # "ENDED"
    BY <2>1, StatusOfSome, NamesApart DEF PollStatus, Statuses
  <2> QED BY <1>1, <2>1, <2>2, TerminalMeansAll, AllCountedMeans
          DEF PollTerminal, TerminalName
<1>2. CASE ~(graph /\ Total(o) > 0)
  BY <1>2, Zenon DEF PollTerminal
<1> QED BY <1>1, <1>2

-----------------------------------------------------------------------------
(* The two waits. *)

USE ConstantsOK

(* What is known of an observation: it reports all tasks or none.            *)
LEMMA ObservationOf ==
  ASSUME NEW o \in Observations
  PROVE  /\ IsFiniteSet(DOMAIN o) /\ \A t \in DOMAIN o : o[t] \in Statuses
         /\ o = Empty => DOMAIN o = {} /\ Total(o) = 0
         /\ o # Empty => /\ o \in [Tasks -> Statuses] /\ DOMAIN o = Tasks
                         /\ Reported(o) /\ Total(o) > 0
<1>1. DOMAIN Empty = {}
  BY DEF Empty
<1>2. CASE o = Empty
  BY <1>1, <1>2, FS_EmptySet, TotalPositive
<1>3. CASE o # Empty
  <2>1. o \in [Tasks -> Statuses] /\ DOMAIN o = Tasks
    BY <1>3 DEF Observations
  <2> QED BY <1>3, <2>1, TotalPositive DEF Reported
<1> QED BY <1>2, <1>3

-----------------------------------------------------------------------------
(* The inductive invariant. *)

(* A status that was terminal when it was read is still the task's.          *)
SeenStands ==
  seen # Empty =>
    \A t \in Tasks : seen[t] \in TerminalStatuses => task[t] = seen[t]

(* A run that was read as ended has ended.                                   *)
EndedStands == ended => Settled

WaitInv == TypeOK /\ SeenStands /\ EndedStands /\ VerdictIsTrue

LEMMA CallIsOne == TypeOK => call \in CallKinds
  BY DEF TypeOK

(* What a terminal poll has seen: no counts of a run that ended, or tasks    *)
(* that are all terminal.                                                    *)
LEMMA TerminalMeans ==
  ASSUME TypeOK, Terminal
  PROVE  \/ seen = Empty /\ ended
         \/ /\ seen # Empty /\ seen \in [Tasks -> Statuses] /\ Reported(seen)
            /\ AllCounted(seen)
            /\ \A t \in Tasks : seen[t] \in TerminalStatuses
<1>0. seen \in Observations /\ UseGraphState \in BOOLEAN /\ ended \in BOOLEAN
  BY CallIsOne DEF TypeOK, UseGraphState, CallKinds
<1>1. TerminalName(PollStatus(seen, ended))
  BY <1>0, ObservationOf, TerminalTestsAgree DEF Terminal
<1>2. CASE seen = Empty
  BY <1>0, <1>1, <1>2, ObservationOf, EmptyStatus, NamesApart DEF TerminalName, Statuses
<1>3. CASE seen # Empty
  <2>1. PollStatus(seen, ended) = StatusFromCounts(seen) /\ PollStatus(seen, ended) # "ENDED"
    BY <1>0, <1>3, ObservationOf, StatusOfSome, NamesApart DEF PollStatus, Statuses
  <2> QED BY <1>0, <1>1, <1>3, <2>1, ObservationOf, TerminalMeansAll, AllCountedMeans
          DEF TerminalName
<1> QED BY <1>2, <1>3

(* The success value of a finished wait, whichever way it finishes.          *)
SuccessOf(kind) ==
  FromPollResult(seen, ended, UseGraphState, kind = "timeout", kind = "early").success

LEMMA TerminalVerdict ==
  ASSUME WaitInv, Terminal
  PROVE  /\ SuccessOf("terminal") \in {"yes", "no", "unknown"}
         /\ SuccessOf("terminal") = "yes" => \A t \in Tasks : task[t] \in NonFailures
         /\ SuccessOf("terminal") = "no" => \E t \in Tasks : Failing(t)
         /\ Settled
<1>1. CASE seen = Empty /\ ended
  <2>1. IsFiniteSet(DOMAIN seen) /\ DOMAIN seen = {} /\ Total(seen) = 0
    BY <1>1, ObservationOf DEF WaitInv, TypeOK
  <2>2. PollStatus(seen, ended) = "ENDED"
    BY <1>1, <2>1, EmptyStatus
  <2>3. ~(CountOf(seen, EarlyExitStatuses) > 0)
    BY <2>1, CountPositive
  <2>4. "ENDED" \notin TerminalStatuses
    BY NamesApart DEF Statuses
  <2>5. SuccessOf("terminal") = "unknown"
    BY <2>1, <2>2, <2>3, <2>4
       DEF SuccessOf, FromPollResult, Outcome, Override, Success
  <2> QED BY <1>1, <2>5 DEF WaitInv, EndedStands
<1>2. CASE /\ seen # Empty /\ AllCounted(seen)
           /\ \A t \in Tasks : seen[t] \in TerminalStatuses
  <2>1. IsFiniteSet(DOMAIN seen) /\ DOMAIN seen = Tasks /\ Total(seen) # 0
    BY <1>2, ObservationOf DEF WaitInv, TypeOK
  <2>2. \A t \in Tasks : seen[t] \in TerminalStatuses /\ task[t] = seen[t]
    BY <1>2 DEF WaitInv, SeenStands
  <2>3. SuccessOf("terminal") =
          IF CountOf(seen, Unsuccessful) > 0 THEN "no" ELSE "yes"
    BY <1>2, <2>1 DEF SuccessOf, FromPollResult, Outcome, Override, Success, Terminal
  <2>4. CountOf(seen, Unsuccessful) > 0 <=> \E t \in Tasks : Failing(t)
    BY <2>1, <2>2, CountPositive DEF Failing
  <2>5. \A t \in Tasks : task[t] \in NonFailures \/ Failing(t)
    BY <2>2, NamesApart DEF Failing
  <2> QED BY <2>2, <2>3, <2>4, <2>5 DEF Settled
<1> QED BY <1>1, <1>2, TerminalMeans DEF WaitInv

LEMMA EarlyVerdict ==
  ASSUME WaitInv, ~Terminal, EarlyExit
  PROVE  SuccessOf("early") = "no" /\ \E t \in Tasks : Failing(t)
<1>1. seen \in Observations
  BY DEF WaitInv, TypeOK
<1>2. PICK t \in DOMAIN seen : seen[t] \in EarlyExitStatuses
  BY <1>1, CountPositive, ObservationOf DEF EarlyExit
<1>3. seen # Empty /\ seen \in [Tasks -> Statuses] /\ t \in Tasks /\ Total(seen) # 0
  BY <1>1, <1>2, ObservationOf
<1>4. Failing(t)
  BY <1>2, <1>3, NamesApart DEF WaitInv, SeenStands, Failing
<1>5. SuccessOf("early") = "no"
  BY <1>3 DEF SuccessOf, FromPollResult, Outcome, Override, Success, Terminal
<1> QED BY <1>3, <1>4, <1>5

LEMMA TimeoutVerdict ==
  ASSUME ~Terminal
  PROVE  SuccessOf("timeout") = "unknown"
BY DEF SuccessOf, FromPollResult, Outcome, Override, Success, Terminal

(* A reduced status is a name the API or the loop knows.                     *)
LEMMA PollStatusType ==
  ASSUME NEW o \in Observations
  PROVE  PollStatus(o, ended) \in Statuses \cup {"ENDED", "UNKNOWN"}
BY ObservationOf, EmptyStatus, StatusOfSome DEF PollStatus

(* A poll that read the run as ended is terminal.                            *)
LEMMA EndedPollTerminal ==
  ASSUME TypeOK, ended,
         seen # Empty => \A t \in Tasks : seen[t] \in TerminalStatuses
  PROVE  Terminal
<1>0. seen \in Observations /\ UseGraphState \in BOOLEAN
  BY CallIsOne DEF TypeOK, UseGraphState, CallKinds
<1>1. CASE seen = Empty
  <2>1. PollStatus(seen, ended) = "ENDED"
    BY <1>0, <1>1, ObservationOf, EmptyStatus
  <2> QED BY <1>0, <2>1, ObservationOf, TerminalTestsAgree DEF Terminal, TerminalName
<1>2. CASE seen # Empty
  <2>1. StatusFromCounts(seen) \in TerminalStatuses
    BY <1>0, <1>2, ObservationOf, TerminalMeansAll
  <2>2. TerminalName(PollStatus(seen, ended))
    BY <2>1, NamesApart DEF PollStatus, TerminalName
  <2> QED BY <1>0, <2>2, ObservationOf, TerminalTestsAgree DEF Terminal
<1> QED BY <1>1, <1>2

-----------------------------------------------------------------------------
(* Every step keeps the invariant. *)

(* No step changes what the caller asked for.                                *)
LEMMA CallFixed == [Next]_vars => UNCHANGED call
BY DEF Next, Read, ReadRun, ReadGraph, ReadFails, Decide, HandleError, ObserveTerminal,
       ExitEarly, TimeOut, PollAgain, Finish, Environment, SetClock, Advance, Finished, vars

Pending == pc # "done" => result = Unsettled

ReadEnded == ended /\ seen # Empty => \A t \in Tasks : seen[t] \in TerminalStatuses

Inv == WaitInv /\ Pending /\ ReadEnded /\ EndedIsTerminal

LEMMA InitInv == Init => Inv
<1> SUFFICES ASSUME Init PROVE Inv
  OBVIOUS
<1>1. "WAITING_FOR_UPSTREAM" \in Statuses
  BY DEF Statuses, Image, ActiveOrder
<1>2. TypeOK
  <2>1. task \in [Tasks -> Statuses] /\ seen \in Observations
    BY <1>1 DEF Init, Observations
  <2>2. result \in [ kind : Kinds, success : {"yes", "no", "unknown"},
                     status : Statuses \cup {"ENDED", "UNKNOWN"},
                     early : BOOLEAN, notified : BOOLEAN ]
    BY DEF Init, Unsettled, Kinds
  <2>3. call \in Calls /\ pc = "poll" /\ left \in Int /\ jumps \in 0..Jumps
    BY DEF Init
  <2>4. ended \in BOOLEAN
    BY Zenon DEF Init
  <2> QED BY <2>1, <2>2, <2>3, <2>4 DEF TypeOK
<1> QED BY <1>2 DEF Init, Inv, Pending, WaitInv, SeenStands, EndedStands, VerdictIsTrue,
                    ReadEnded, EndedIsTerminal, Unsettled

(* A terminal status has no successor; the server never takes one back.      *)
LEMMA AdvanceKeeps ==
  ASSUME Inv, NEW t \in Tasks, Advance(t)
  PROVE  /\ task' \in [Tasks -> Statuses]
         /\ \A u \in Tasks : task[u] \in TerminalStatuses => task'[u] = task[u]
<1>1. task \in [Tasks -> Statuses]
  BY DEF Inv, WaitInv, TypeOK
<1>2. PICK s \in Follows(task[t]) : task' = [task EXCEPT ![t] = s]
  BY DEF Advance
<1>3. s \in Statuses /\ task[t] \notin TerminalStatuses
  BY <1>2 DEF Follows, Statuses, TerminalStatuses, Image, ActiveOrder, TerminalPrecedence
<1> QED BY <1>1, <1>2, <1>3

LEMMA AdvanceInv == ASSUME Inv, NEW t \in Tasks, Advance(t) PROVE Inv'
<1>1. /\ task' \in [Tasks -> Statuses]
      /\ \A u \in Tasks : task[u] \in TerminalStatuses => task'[u] = task[u]
  BY AdvanceKeeps
<1>2. UNCHANGED <<call, pc, seen, ended, left, jumps, result>>
  BY DEF Advance, poller
<1>3. TypeOK'
  BY <1>1, <1>2 DEF Inv, WaitInv, TypeOK
<1>4. SeenStands' /\ EndedStands'
  BY <1>1, <1>2 DEF Inv, WaitInv, SeenStands, EndedStands, Settled
<1>5. VerdictIsTrue'
  BY <1>1, <1>2, NamesApart DEF Inv, WaitInv, VerdictIsTrue, Settled, Failing
<1> QED BY <1>2, <1>3, <1>4, <1>5 DEF Inv, WaitInv, Pending, ReadEnded, EndedIsTerminal

LEMMA SetClockInv == ASSUME Inv, SetClock PROVE Inv'
<1>1. UNCHANGED <<call, task, pc, seen, ended, result>>
  BY DEF SetClock
<1>2. left' \in Int /\ jumps' \in 0..Jumps
  BY DEF SetClock, Inv, WaitInv, TypeOK
<1> QED BY <1>1, <1>2 DEF Inv, WaitInv, TypeOK, SeenStands, EndedStands, Settled,
                          VerdictIsTrue, Failing, Pending, ReadEnded, EndedIsTerminal

LEMMA ReadInv == ASSUME Inv, ReadRun \/ ReadGraph PROVE Inv'
<1>1. /\ UNCHANGED <<call, task, jumps, result>> /\ pc' \in {"graph", "observe"}
      /\ pc # "done"
  BY DEF ReadRun, ReadGraph
<1>2. seen' \in {task, seen, Empty} /\ ended' \in BOOLEAN /\ (ended' => Settled)
  <2>1. CASE ReadRun
    BY <2>1 DEF ReadRun, Settled
  <2>2. CASE ReadGraph
    <3>1. ended' = ended /\ seen' \in {task, seen}
      BY <2>2 DEF ReadGraph
    <3>2. ended \in BOOLEAN /\ (ended => Settled)
      BY DEF Inv, WaitInv, TypeOK, EndedStands
    <3> QED BY <3>1, <3>2
  <2> QED BY <2>1, <2>2
<1>3. left' \in Int
  BY DEF ReadRun, ReadGraph, After, Inv, WaitInv, TypeOK
<1>4. TypeOK'
  BY <1>1, <1>2, <1>3 DEF Inv, WaitInv, TypeOK, Observations
<1>5. SeenStands' /\ EndedStands' /\ VerdictIsTrue'
  BY <1>1, <1>2 DEF Inv, WaitInv, SeenStands, EndedStands, VerdictIsTrue, Settled, Failing
<1>6. ReadEnded'
  BY <1>1 DEF ReadRun, ReadGraph, Inv, WaitInv, ReadEnded, EndedStands, Settled
<1>7. Pending' /\ EndedIsTerminal'
  BY <1>1 DEF Inv, Pending, EndedIsTerminal, Unsettled
<1> QED BY <1>4, <1>5, <1>6, <1>7 DEF Inv, WaitInv

LEMMA ErrorInv == ASSUME Inv, ReadFails \/ HandleError PROVE Inv'
<1>1. /\ UNCHANGED <<call, task, seen, ended, jumps>> /\ pc # "done"
      /\ pc' \in {"error", "poll", "done"}
  BY DEF ReadFails, HandleError
<1>2. result = Unsettled
  BY <1>1 DEF Inv, Pending
<1>3. /\ result' \in {Unsettled, [Unsettled EXCEPT !.kind = "expired"],
                     [Unsettled EXCEPT !.kind = "raised"]}
      /\ pc' # "done" => result' = Unsettled
  BY <1>2 DEF ReadFails, HandleError
<1>4. left' \in Int
  BY DEF ReadFails, HandleError, Sleep, Least, Most, After, Inv, WaitInv, TypeOK
<1>5. result' \in [ kind : Kinds, success : {"yes", "no", "unknown"},
                   status : Statuses \cup {"ENDED", "UNKNOWN"},
                   early : BOOLEAN, notified : BOOLEAN ]
  <2>0. Unsettled = [Unsettled EXCEPT !.kind = "none"]
    BY DEF Unsettled
  <2>1. PICK k \in Kinds : result' = [Unsettled EXCEPT !.kind = k]
    BY <1>3, <2>0 DEF Kinds
  <2>2. result' = [kind |-> k, status |-> "UNKNOWN", success |-> "unknown",
                   early |-> FALSE, notified |-> FALSE]
    BY <2>1 DEF Unsettled
  <2> QED BY <2>2, Zenon
<1>6. TypeOK'
  BY <1>1, <1>4, <1>5 DEF Inv, WaitInv, TypeOK
<1>7. VerdictIsTrue' /\ EndedIsTerminal' /\ Pending'
  BY <1>3 DEF Unsettled, VerdictIsTrue, EndedIsTerminal, Pending
<1> QED BY <1>1, <1>6, <1>7 DEF Inv, WaitInv, SeenStands, EndedStands, Settled, ReadEnded

(* The three ways to finish, from the verdict lemmas.                        *)
LEMMA FinishInv ==
  ASSUME Inv, ObserveTerminal \/ ExitEarly \/ TimeOut
  PROVE  Inv'
<1>1. UNCHANGED <<call, task, seen, ended, left, jumps>> /\ pc' = "done"
  BY DEF ObserveTerminal, ExitEarly, TimeOut, Finish
<1>2. PICK kind \in {"terminal", "early", "timeout"} :
        /\ Finish(kind)
        /\ kind = "terminal" => Terminal
        /\ kind # "terminal" => ~Terminal
        /\ kind = "early" => EarlyExit
  BY DEF ObserveTerminal, ExitEarly, TimeOut
<1>3. /\ result'.kind = kind /\ result'.success = SuccessOf(kind)
      /\ result'.notified => kind = "terminal"
  BY <1>2 DEF Finish, SuccessOf
<1>4. /\ SuccessOf(kind) \in {"yes", "no", "unknown"}
      /\ SuccessOf(kind) = "yes" => \A t \in Tasks : task[t] \in NonFailures
      /\ SuccessOf(kind) = "no" => \E t \in Tasks : Failing(t)
      /\ kind = "terminal" => Settled
  BY <1>2, TerminalVerdict, EarlyVerdict, TimeoutVerdict DEF Inv
<1>5. VerdictIsTrue'
  BY <1>1, <1>3, <1>4 DEF VerdictIsTrue, Failing, Settled
<1>6. EndedIsTerminal'
  <2>1. kind # "terminal" => ~ended
    BY <1>2, EndedPollTerminal DEF Inv, WaitInv, ReadEnded
  <2> QED BY <1>1, <1>3, <2>1 DEF EndedIsTerminal
<1>7. TypeOK'
  <2>1. PollStatus(seen, ended) \in Statuses \cup {"ENDED", "UNKNOWN"}
    BY PollStatusType DEF Inv, WaitInv, TypeOK
  <2>2. DEFINE o == FromPollResult(seen, ended, UseGraphState,
                                   kind = "timeout", kind = "early")
  <2>3. o.early \in BOOLEAN
    BY DEF FromPollResult, Outcome
  <2>4. result' \in [ kind : Kinds, success : {"yes", "no", "unknown"},
                     status : Statuses \cup {"ENDED", "UNKNOWN"},
                     early : BOOLEAN, notified : BOOLEAN ]
    <3>1. result' = [ kind |-> kind, status |-> PollStatus(seen, ended),
                      success |-> o.success, early |-> o.early,
                      notified |-> kind = "terminal"
                                     /\ TerminalName(PollStatus(seen, ended)) ]
      BY <1>2 DEF Finish
    <3>2. o.success \in {"yes", "no", "unknown"}
      BY <1>4 DEF SuccessOf
    <3>3. kind \in Kinds
      BY DEF Kinds
    <3>4. (kind = "terminal" /\ TerminalName(PollStatus(seen, ended))) \in BOOLEAN
      OBVIOUS
    <3> HIDE DEF o
    <3> QED BY <2>1, <2>3, <3>1, <3>2, <3>3, <3>4
  <2> QED BY <1>1, <2>4 DEF Inv, WaitInv, TypeOK
<1> QED BY <1>1, <1>5, <1>6, <1>7
        DEF Inv, WaitInv, SeenStands, EndedStands, Settled, ReadEnded, Pending

LEMMA PollAgainInv == ASSUME Inv, PollAgain PROVE Inv'
<1>1. UNCHANGED <<call, task, seen, ended, jumps, result>> /\ pc # "done" /\ pc' = "poll"
  BY DEF PollAgain
<1>2. left' \in Int
  BY DEF PollAgain, Sleep, Least, Most, After, Inv, WaitInv, TypeOK
<1> QED BY <1>1, <1>2 DEF Inv, WaitInv, TypeOK, SeenStands, EndedStands, Settled,
                          VerdictIsTrue, Failing, Pending, ReadEnded, EndedIsTerminal

(* Inv is inductive.                                                         *)
LEMMA StepInv == Inv /\ [Next]_vars => Inv'
<1> SUFFICES ASSUME Inv, [Next]_vars PROVE Inv'
  OBVIOUS
<1>1. CASE UNCHANGED vars
  BY <1>1 DEF vars, poller, Inv, WaitInv, TypeOK, SeenStands, EndedStands, Settled,
              VerdictIsTrue, Failing, Pending, ReadEnded, EndedIsTerminal
<1>2. CASE Read
  BY <1>2, ReadInv DEF Read
<1>3. CASE ReadFails
  BY <1>3, ErrorInv
<1>4. CASE Decide
  BY <1>4, ErrorInv, FinishInv, PollAgainInv DEF Decide
<1>5. CASE Environment
  BY <1>5, SetClockInv, AdvanceInv DEF Environment
<1> QED BY <1>1, <1>2, <1>3, <1>4, <1>5 DEF Next, Finished

LEMMA Invariance == Spec => []Inv
<1>1. Init => Inv
  BY InitInv
<1>2. Inv /\ [Next]_vars => Inv'
  BY StepInv
<1> QED BY <1>1, <1>2, PTL DEF Spec

(* The loop's variables keep their types, whatever the API answers.          *)
THEOREM TypeCorrect == Spec => []TypeOK
<1>1. Inv => TypeOK
  BY DEF Inv, WaitInv
<1> QED BY <1>1, Invariance, PTL

-----------------------------------------------------------------------------
(* The reported status. *)

LEMMA StatusStep ==
  ASSUME Inv, StatusShowsFailure, [Next]_vars PROVE StatusShowsFailure'
<1>1. CASE ObserveTerminal
  <2>1. /\ result'.kind = "terminal" /\ result'.status = PollStatus(seen, ended)
        /\ UNCHANGED <<task, seen, ended>>
    BY <1>1 DEF ObserveTerminal, Finish
  <2>2. CASE seen = Empty /\ ended
    <3>1. PollStatus(seen, ended) = "ENDED"
      BY <2>2, ObservationOf, EmptyStatus DEF Inv, WaitInv, TypeOK
    <3> QED BY <2>1, <3>1 DEF StatusShowsFailure
  <2>3. CASE /\ seen # Empty /\ seen \in [Tasks -> Statuses] /\ Reported(seen)
             /\ \A t \in Tasks : seen[t] \in TerminalStatuses
    <3>1. DOMAIN seen = Tasks /\ \A t \in Tasks : task[t] = seen[t]
      BY <2>3 DEF Inv, WaitInv, SeenStands
    <3>2. PollStatus(seen, ended) = StatusFromCounts(seen)
      BY <2>3, StatusOfSome, NamesApart DEF PollStatus, Statuses
    <3> QED BY <2>1, <2>3, <3>1, <3>2, FailuresFirst DEF StatusShowsFailure, Failing
  <2> QED BY <1>1, <2>2, <2>3, TerminalMeans DEF ObserveTerminal, Inv, WaitInv
<1>2. CASE HandleError \/ ExitEarly \/ TimeOut
  <2>1. result'.kind # "terminal" \/ UNCHANGED <<result, task>>
    BY <1>2 DEF HandleError, ExitEarly, TimeOut, Finish, Unsettled
  <2> QED BY <2>1 DEF StatusShowsFailure, Failing
<1>3. ASSUME NEW t \in Tasks, Advance(t) PROVE StatusShowsFailure'
  <2>1. result' = result
    BY <1>3 DEF Advance, poller
  <2>2. result.kind = "terminal" => \A u \in Tasks : task'[u] = task[u]
    BY <1>3, AdvanceKeeps DEF Inv, WaitInv, VerdictIsTrue, Settled
  <2> QED BY <2>1, <2>2 DEF StatusShowsFailure, Failing
<1>4. CASE UNCHANGED <<task, result>>
  BY <1>4 DEF StatusShowsFailure, Failing
<1> QED BY <1>1, <1>2, <1>3, <1>4
        DEF Next, Read, ReadRun, ReadGraph, ReadFails, Decide, PollAgain, Environment,
            SetClock, Finished, vars, poller

-----------------------------------------------------------------------------
(* The two outcomes of a wait. *)

(* They are computed from the same poll, and differ only in how they test    *)
(* whether it was terminal; the tests agree.                                 *)
LEMMA OutcomesOfFinish ==
  ASSUME TypeOK, NEW kind, Finish(kind)
  PROVE  OutcomesAgree'
<1> DEFINE status == PollStatus(seen, ended)
           outcome == FromPollResult(seen, ended, UseGraphState,
                                     kind = "timeout", kind = "early")
<1>1. /\ UNCHANGED seen /\ result'.kind = kind /\ result'.status = status
      /\ result'.success = outcome.success /\ result'.early = outcome.early
  BY DEF Finish
<1>2. PollTerminal(seen, ended, UseGraphState) <=> TerminalName(status)
  <2>1. seen \in Observations /\ UseGraphState \in BOOLEAN
    BY CallIsOne DEF TypeOK, UseGraphState, CallKinds
  <2> QED BY <2>1, ObservationOf, TerminalTestsAgree
<1>3. outcome = FromWaitResult(status, seen, kind = "timeout", kind = "early")
  <2> HIDE DEF status
  <2> QED BY <1>2 DEF FromPollResult, FromWaitResult, Outcome, Override, status
<1> HIDE DEF status, outcome
<1> QED BY <1>1, <1>3 DEF OutcomesAgree

LEMMA OutcomesStep ==
  ASSUME Inv, OutcomesAgree, [Next]_vars PROVE OutcomesAgree'
<1>1. CASE ObserveTerminal \/ ExitEarly \/ TimeOut
  BY <1>1, OutcomesOfFinish DEF ObserveTerminal, ExitEarly, TimeOut, Inv, WaitInv
<1>2. CASE HandleError
  <2>1. result'.kind \in {"none", "expired", "raised"}
    BY <1>2 DEF HandleError, Inv, Pending, Unsettled
  <2> QED BY <2>1 DEF OutcomesAgree
<1>3. CASE Read \/ ReadFails \/ PollAgain
  <2>1. result' = Unsettled
    BY <1>3 DEF Read, ReadRun, ReadGraph, ReadFails, PollAgain, Inv, Pending
  <2> QED BY <2>1 DEF OutcomesAgree, Unsettled
<1>4. CASE UNCHANGED <<seen, result>>
  BY <1>4 DEF OutcomesAgree
<1> QED BY <1>1, <1>2, <1>3, <1>4
        DEF Next, Decide, Environment, SetClock, Advance, Finished, vars, poller

(* For every set of tasks and every timing, what wait_for_completion reports *)
(* is true of the server: no success with an unsuccessful task, no failure   *)
(* without one, no end before all have ended, no status that hides a failed  *)
(* task, no timeout or early exit of a run that was read as ended, and the   *)
(* same outcome in the loop's own record and in the public result.           *)
THEOREM ReportsAreTrue == Spec => []ReportIsTrue
<1>1. Init => StatusShowsFailure /\ OutcomesAgree
  BY DEF Init, StatusShowsFailure, OutcomesAgree, Unsettled
<1>2. Inv /\ StatusShowsFailure /\ OutcomesAgree /\ [Next]_vars =>
        StatusShowsFailure' /\ OutcomesAgree'
  BY StatusStep, OutcomesStep
<1>3. Inv /\ StatusShowsFailure /\ OutcomesAgree => ReportIsTrue
  BY DEF Inv, WaitInv, ReportIsTrue
<1> QED BY <1>1, <1>2, <1>3, Invariance, PTL DEF Spec

-----------------------------------------------------------------------------
(* The deadline. *)

Slack == IF UseGraphState THEN 2 * ReadTime ELSE ReadTime

(* How late the loop can be at each of its places.                           *)
OnTime ==
  /\ pc = "graph" => UseGraphState
  /\ Bounded /\ jumps = 0 =>
       /\ pc = "poll" => left >= 0
       /\ pc = "graph" => left >= -ReadTime
       /\ left >= -Slack

(* A sleep that is cut at the deadline ends before it.                       *)
LEMMA SleepInTime ==
  ASSUME NEW d \in Nat, left \in Int, ~Expired, Bounded
  PROVE  Sleep(d) >= 0
BY DEF Sleep, After, Least, Most, Expired

LEMMA OnTimeStep == TypeOK /\ OnTime /\ [Next]_vars => OnTime'
<1> SUFFICES ASSUME TypeOK, OnTime, [Next]_vars PROVE OnTime'
  OBVIOUS
<1>0. left \in Int /\ jumps \in Nat /\ Slack \in Nat
  BY DEF TypeOK, Slack
<1>c. call' = call
  BY CallFixed
<1>s. Slack' = Slack /\ (UseGraphState' <=> UseGraphState) /\ (Bounded' <=> Bounded)
  BY <1>c DEF Slack, UseGraphState, Bounded
<1> USE <1>s
<1>1. CASE UNCHANGED vars
  BY <1>1 DEF vars, poller, OnTime
<1>2. CASE ReadRun
  BY <1>0, <1>2 DEF ReadRun, After, OnTime, Slack
<1>3. CASE ReadGraph
  BY <1>0, <1>3 DEF ReadGraph, After, OnTime, Slack
<1>4. CASE ReadFails
  BY <1>0, <1>4 DEF ReadFails, After, OnTime, Slack
<1>5. CASE HandleError
  <2>1. jumps' = jumps /\ pc' # "graph"
    BY <1>5 DEF HandleError
  <2>2. CASE GiveUp
    BY <1>5, <2>1, <2>2 DEF HandleError, OnTime
  <2>3. CASE ~GiveUp
    <3>1. left' = Sleep(RetryInterval)
      BY <1>5, <2>3 DEF HandleError
    <3>2. left' \in Int
      BY <1>0, <3>1 DEF Sleep, After, Least, Most
    <3>3. Bounded => left' >= 0
      BY <1>0, <2>3, <3>1, SleepInTime DEF GiveUp
    <3> QED BY <1>0, <2>1, <3>2, <3>3 DEF OnTime
  <2> QED BY <2>2, <2>3
<1>6. CASE ObserveTerminal \/ ExitEarly \/ TimeOut
  BY <1>6 DEF ObserveTerminal, ExitEarly, TimeOut, Finish, OnTime
<1>7. CASE PollAgain
  <2>1. jumps' = jumps /\ pc' # "graph" /\ left' = Sleep(PollInterval)
    BY <1>7 DEF PollAgain
  <2>2. left' \in Int
    BY <1>0, <2>1 DEF Sleep, After, Least, Most
  <2>3. Bounded => left' >= 0
    BY <1>0, <1>7, <2>1, SleepInTime DEF PollAgain
  <2> QED BY <1>0, <2>1, <2>2, <2>3 DEF OnTime
<1>8. CASE SetClock
  BY <1>0, <1>8 DEF SetClock, OnTime
<1>9. ASSUME NEW t \in Tasks, Advance(t) PROVE OnTime'
  BY <1>9 DEF Advance, poller, OnTime
<1> QED BY <1>1, <1>2, <1>3, <1>4, <1>5, <1>6, <1>7, <1>8, <1>9
        DEF Next, Read, Decide, Environment, Finished

(* On a clock nobody sets, every poll starts by the deadline and the wait    *)
(* overruns max_wait by the reads of one poll at most, for every max_wait,   *)
(* poll interval and read time.                                              *)
THEOREM PollsAreInTime == Spec => []NoLatePoll
<1>1. Init => OnTime
  BY DEF Init, OnTime, Slack
<1>2. TypeOK /\ OnTime /\ [Next]_vars => OnTime'
  BY OnTimeStep
<1>3. OnTime => NoLatePoll
  BY DEF OnTime, NoLatePoll, Slack
<1> QED BY <1>1, <1>2, <1>3, TypeCorrect, PTL DEF Spec

HIDE ConstantsOK

-----------------------------------------------------------------------------
(* The wait for the tasks of a root. *)

USE TaskConstantsOK

-----------------------------------------------------------------------------
(* The server. *)

(* A child has leaves, so that its state is one of theirs.                   *)
LEMMA StateReported ==
  ASSUME leafStatus \in [Leaves -> Statuses], NEW c \in Children
  PROVE  LET o == [l \in Below(c) |-> leafStatus[l]]
         IN  /\ Reported(o) /\ DOMAIN o = Below(c) /\ \A l \in Below(c) : o[l] = leafStatus[l]
             /\ StateOf(c) = StatusFromCounts(o)
<1> DEFINE o == [l \in Below(c) |-> leafStatus[l]]
<1>1. Below(c) # {} /\ Below(c) \subseteq Leaves
  BY DEF TaskConstantsOK, Below
<1>2. IsFiniteSet(Below(c))
  BY <1>1, FS_Subset DEF TaskConstantsOK
<1>3. \A l \in Below(c) : o[l] \in Statuses
  BY <1>1
<1>4. Reported(o)
  BY <1>1, <1>2, <1>3 DEF Reported
<1> QED BY <1>4 DEF StateOf

(* Its state is terminal when all leaves are, and then unsuccessful when     *)
(* one of them is.                                                           *)
LEMMA StateMeans ==
  ASSUME leafStatus \in [Leaves -> Statuses], NEW c \in Children
  PROVE  /\ StateOf(c) \in Statuses
         /\ StateOf(c) \in TerminalStatuses <=> \A l \in Below(c) : leafStatus[l] \in TerminalStatuses
         /\ StateOf(c) \in TerminalStatuses =>
              (StateOf(c) \in Unsuccessful <=> \E l \in Below(c) : leafStatus[l] \in Unsuccessful)
<1> DEFINE o == [l \in Below(c) |-> leafStatus[l]]
<1>1. /\ Reported(o) /\ DOMAIN o = Below(c) /\ \A l \in Below(c) : o[l] = leafStatus[l]
      /\ StateOf(c) = StatusFromCounts(o)
  BY StateReported
<1> HIDE DEF o
<1>2. StateOf(c) \in Statuses
  BY <1>1, StatusOfSome
<1>3. StateOf(c) \in TerminalStatuses <=> \A l \in DOMAIN o : o[l] \in TerminalStatuses
  BY <1>1, TerminalMeansAll
<1>4. (\A l \in DOMAIN o : o[l] \in TerminalStatuses) =>
        (StateOf(c) \in Unsuccessful <=> \E l \in DOMAIN o : o[l] \in Unsuccessful)
  BY <1>1, FailuresFirst
<1> QED BY <1>1, <1>2, <1>3, <1>4

(* A terminal status has no successor; the server never takes one back.      *)
LEMMA LeafAdvanceKeeps ==
  ASSUME leafStatus \in [Leaves -> Statuses], NEW l \in Leaves, LeafAdvances(l)
  PROVE  /\ leafStatus' \in [Leaves -> Statuses]
         /\ \A k \in Leaves : leafStatus[k] \in TerminalStatuses => leafStatus'[k] = leafStatus[k]
         /\ UNCHANGED <<taskCall, at, todo, asking, found, failures, timeLeft, ending>>
<1>1. PICK s \in Follows(leafStatus[l]) : leafStatus' = [leafStatus EXCEPT ![l] = s]
  BY DEF LeafAdvances
<1>2. s \in Statuses /\ leafStatus[l] \notin TerminalStatuses
  BY <1>1 DEF Follows, Statuses, TerminalStatuses, Image, ActiveOrder, TerminalPrecedence
<1> QED BY <1>1, <1>2 DEF LeafAdvances, waiter

-----------------------------------------------------------------------------
(* The inductive invariant. *)

Typed ==
  /\ taskCall \in TaskCallKinds
  /\ leafStatus \in [Leaves -> Statuses]
  /\ todo \subseteq Children /\ asking \subseteq Children
  /\ found \in [Children -> Statuses \cup {"UNKNOWN"}]
  /\ timeLeft \in Int

(* Whenever a child was found terminal, its leaves have ended for good, and  *)
(* what was found is what they reduce to.                                    *)
Stands(c) == /\ \A l \in Below(c) : leafStatus[l] \in TerminalStatuses
             /\ found[c] = StateOf(c)

FoundStands == \A c \in Children : found[c] \in TerminalStatuses => Stands(c)

(* A result is the judgement of the map that the last poll found.            *)
Judged ==
  /\ at # "done" => ending = "none"
  /\ ending \in {"returned", "failed"} => AllTerminal
  /\ ending = "returned" => AllowFailure \/ \A c \in Children : ~Failed(found[c])
  /\ ending = "failed" => \E c \in Children : Failed(found[c])

TaskInv == Typed /\ FoundStands /\ Judged

LEMMA TaskInitInv == ASSUME TaskInit PROVE TaskInv
<1>1. "WAITING_FOR_UPSTREAM" \in Statuses /\ "UNKNOWN" \notin TerminalStatuses
  BY NamesApart DEF Statuses, Image, ActiveOrder
<1> QED BY <1>1 DEF TaskConstantsOK, TaskInit, TaskInv, Typed, FoundStands, Judged, Nothing

(* While the tasks move on, what stands keeps standing.                      *)
LEMMA LeafAdvanceInv ==
  ASSUME TaskInv, NEW l \in Leaves, LeafAdvances(l) PROVE TaskInv'
<1>1. /\ leafStatus' \in [Leaves -> Statuses]
      /\ \A k \in Leaves : leafStatus[k] \in TerminalStatuses => leafStatus'[k] = leafStatus[k]
      /\ UNCHANGED <<taskCall, at, todo, asking, found, failures, timeLeft, ending>>
  BY LeafAdvanceKeeps DEF TaskInv, Typed
<1>2. ASSUME NEW c \in Children, Stands(c) PROVE Stands(c)'
  <2>1. \A k \in Below(c) : k \in Leaves /\ leafStatus'[k] = leafStatus[k]
    BY <1>1, <1>2 DEF Stands, Below
  <2>2. [k \in Below(c) |-> leafStatus'[k]] = [k \in Below(c) |-> leafStatus[k]]
    BY <2>1
  <2>3. StateOf(c)' = StateOf(c) /\ Below(c)' = Below(c)
    BY <2>2 DEF StateOf, Below
  <2> QED BY <1>1, <1>2, <2>1, <2>3 DEF Stands
<1>3. Typed' /\ Judged'
  BY <1>1 DEF TaskInv, Typed, Judged, AllTerminal, AllowFailure
<1>4. FoundStands'
  BY <1>1, <1>2 DEF TaskInv, FoundStands
<1> QED BY <1>3, <1>4 DEF TaskInv

(* A new poll forgets what the last one found.                               *)
LEMMA RootInv ==
  ASSUME TaskInv, SkipRoot \/ FetchRoot PROVE TaskInv'
<1>1. /\ UNCHANGED <<taskCall, leafStatus, asking, ending>> /\ found' = Nothing
      /\ todo' \subseteq Children /\ at = "root" /\ at' # "done"
  BY DEF SkipRoot, FetchRoot, TaskInv, Typed
<1>2. timeLeft' \in Int
  BY DEF SkipRoot, FetchRoot, Request, TimeAfter, TaskInv, Typed, TaskConstantsOK
<1>3. "UNKNOWN" \notin TerminalStatuses
  BY NamesApart DEF Statuses
<1>4. ending' = "none"
  BY <1>1 DEF TaskInv, Judged
<1> QED BY <1>1, <1>2, <1>3, <1>4 DEF TaskInv, Typed, FoundStands, Judged, Nothing

(* A child is noted as unknown or as what its leaves reduce to just then.    *)
LEMMA NoteInv ==
  ASSUME TaskInv, NEW c \in Children, SkipChild(c) \/ AskChild(c)
  PROVE  TaskInv'
<1>1. /\ UNCHANGED <<taskCall, leafStatus, ending>> /\ at = "children" /\ at' # "done"
      /\ todo' \subseteq Children /\ asking' \subseteq Children
  BY DEF SkipChild, AskChild, AskContainer, NoContainer, AskGraph, NoGraph, Turn, Note,
         TaskInv, Typed
<1>2. timeLeft' \in Int
  BY DEF SkipChild, AskChild, AskContainer, NoContainer, AskGraph, NoGraph, Request, TimeAfter,
         TaskInv, Typed, TaskConstantsOK
<1>3. \/ found' = found
      \/ found' = [found EXCEPT ![c] = "UNKNOWN"]
      \/ found' = [found EXCEPT ![c] = StateOf(c)]
  BY DEF SkipChild, AskChild, AskContainer, NoContainer, AskGraph, NoGraph, Note
<1>4. /\ StateOf(c) \in Statuses
      /\ StateOf(c) \in TerminalStatuses => \A l \in Below(c) : leafStatus[l] \in TerminalStatuses
  BY StateMeans DEF TaskInv, Typed
<1>5. "UNKNOWN" \notin TerminalStatuses
  BY NamesApart DEF Statuses
<1>6. \A d \in Children : StateOf(d)' = StateOf(d) /\ Below(d)' = Below(d)
  BY <1>1 DEF StateOf, Below
<1>7. found' \in [Children -> Statuses \cup {"UNKNOWN"}]
  BY <1>3, <1>4 DEF TaskInv, Typed
<1>8. FoundStands'
  <2>1. ASSUME NEW d \in Children, found'[d] \in TerminalStatuses
        PROVE  /\ \A l \in Below(d) : leafStatus[l] \in TerminalStatuses
               /\ found'[d] = StateOf(d)
    <3>1. CASE found'[d] = found[d]
      BY <2>1, <3>1 DEF TaskInv, FoundStands, Stands
    <3>2. CASE d = c /\ found'[d] = StateOf(c)
      BY <1>4, <2>1, <3>2
    <3> QED BY <1>3, <1>5, <2>1, <3>1, <3>2 DEF TaskInv, Typed
  <2> QED BY <1>1, <1>6, <2>1 DEF FoundStands, Stands
<1>9. Judged'
  BY <1>1 DEF TaskInv, Judged
<1> QED BY <1>1, <1>2, <1>7, <1>8, <1>9 DEF TaskInv, Typed

(* Ending the wait or going round again leaves what was found alone.         *)
LEMMA JudgeInv ==
  ASSUME TaskInv, Judge \/ ServerError \/ RaiseError
  PROVE  TaskInv'
<1> USE DEF Judge, RaiseOutage, RetryLater, Return, RaiseFailed, RaiseTimeout, PollTasksAgain,
            PollNext, Ends, ServerError, RaiseError, Asks
<1>1. /\ UNCHANGED <<taskCall, leafStatus, todo, found>> /\ asking' \in {asking, {}}
      /\ at # "done"
  OBVIOUS
<1>2. timeLeft' \in Int
  BY DEF SleepBeforeNextPoll, Request, TimeAfter, TaskInv, Typed, TaskConstantsOK
<1>3. \A c \in Children : StateOf(c)' = StateOf(c) /\ Below(c)' = Below(c)
  BY <1>1 DEF StateOf, Below
<1>4. Typed' /\ FoundStands'
  BY <1>1, <1>2, <1>3 DEF TaskInv, Typed, FoundStands, Stands
<1>5. /\ at' # "done" => ending' = "none"
      /\ ending' = "returned" => Return
      /\ ending' = "failed" => RaiseFailed
  BY <1>1 DEF TaskInv, Judged
<1>6. Judged'
  BY <1>1, <1>5 DEF Judged, AllTerminal, AllowFailure
<1> QED BY <1>4, <1>6 DEF TaskInv

LEMMA TaskStep == ASSUME TaskInv, [TaskNext]_taskVars PROVE TaskInv'
<1>1. CASE UNCHANGED taskVars
  <2>1. UNCHANGED <<taskCall, leafStatus, at, todo, asking, found, failures, timeLeft, ending>>
    BY <1>1 DEF taskVars, waiter
  <2>2. \A c \in Children : StateOf(c)' = StateOf(c) /\ Below(c)' = Below(c)
    BY <2>1 DEF StateOf, Below
  <2> QED BY <2>1, <2>2 DEF TaskInv, Typed, FoundStands, Stands, Judged, AllTerminal, AllowFailure
<1>2. CASE Poll
  BY <1>2, RootInv, NoteInv DEF Poll
<1>3. CASE Judge \/ ServerError \/ RaiseError
  BY <1>3, JudgeInv
<1>4. ASSUME NEW l \in Leaves, LeafAdvances(l) PROVE TaskInv'
  BY <1>4, LeafAdvanceInv
<1> QED BY <1>1, <1>2, <1>3, <1>4 DEF TaskNext, TaskFinished

LEMMA TaskInvariance == TaskSpec => []TaskInv
<1>1. TaskInit => TaskInv
  BY TaskInitInv
<1>2. TaskInv /\ [TaskNext]_taskVars => TaskInv'
  BY TaskStep
<1> QED BY <1>1, <1>2, PTL DEF TaskSpec

-----------------------------------------------------------------------------
(* The statuses a wait hands out. *)

LEMMA EveryLeafFound ==
  ASSUME TaskInv, AllTerminal
  PROVE  /\ \A l \in Leaves : Parent[l] \in Children /\ l \in Below(Parent[l])
         /\ \A l \in Leaves : leafStatus[l] \in TerminalStatuses
         /\ \A c \in Children : found[c] = StateOf(c) /\ found[c] \in TerminalStatuses
<1>1. \A l \in Leaves : Parent[l] \in Children /\ l \in Below(Parent[l])
  BY DEF TaskConstantsOK, Below
<1>2. \A c \in Children : found[c] \in TerminalStatuses /\ Stands(c)
  BY DEF AllTerminal, TaskInv, FoundStands
<1> QED BY <1>1, <1>2 DEF Stands

(* For every root, every kind of child and every interleaving of a poll's    *)
(* requests with the tasks' progress: the map a finished wait for tasks      *)
(* returns, or fails with, is what every task ended as; without              *)
(* allow_failure it returns only if no leaf was unsuccessful, and it reports *)
(* a failure only if one was.                                                *)
THEOREM TaskReportsAreFinal == TaskSpec => []TaskStatusesSurface
<1>1. TaskInv => FinalStatuses
  <2>1. ASSUME TaskInv, AllTerminal
        PROVE  LeavesSettled /\ \A c \in Children : found[c] = StateOf(c)
    BY <2>1, EveryLeafFound DEF LeavesSettled
  <2> QED BY <2>1 DEF TaskInv, Judged, FinalStatuses
<1>2. TaskInv => FailuresSurface
  <2> SUFFICES ASSUME TaskInv, ending \in {"returned", "failed"} PROVE FailuresSurface
    BY DEF FailuresSurface
  <2>1. AllTerminal
    BY DEF TaskInv, Judged
  <2>2. \A c \in Children : /\ found[c] \in TerminalStatuses
                            /\ found[c] \in Unsuccessful <=>
                                 \E l \in Below(c) : leafStatus[l] \in Unsuccessful
    BY <2>1, EveryLeafFound, StateMeans DEF TaskInv, Typed
  <2>3. \A c \in Children : Failed(found[c]) <=> found[c] \in Unsuccessful
    BY <2>2, NamesApart DEF Failed
  <2>4. ending = "failed" => \E l \in Leaves : leafStatus[l] \in Unsuccessful
    BY <2>2, <2>3 DEF TaskInv, Judged, Below
  <2>5. ASSUME ending = "returned", ~AllowFailure, NEW l \in Leaves
        PROVE  leafStatus[l] \in NonFailures
    <3>1. ~Failed(found[Parent[l]])
      BY <2>1, <2>5, EveryLeafFound DEF TaskInv, Judged
    <3> QED BY <2>1, <2>2, <2>3, <3>1, EveryLeafFound, NamesApart
  <2> QED BY <2>4, <2>5 DEF FailuresSurface
<1>3. TaskInv => TaskStatusesSurface
  BY <1>1, <1>2 DEF TaskStatusesSurface
<1> QED BY <1>3, TaskInvariance, PTL

-----------------------------------------------------------------------------
(* The deadline. *)

(* Only the request that was admitted just before the deadline is answered   *)
(* after it, and a sleep is cut to the time that is left.                    *)
LEMMA LateStep ==
  ASSUME TaskInv, OneRequestLate, [TaskNext]_taskVars
  PROVE  OneRequestLate'
<1>0. timeLeft \in Int /\ RequestTime \in Nat /\ TaskInterval \in Nat
  BY DEF TaskInv, Typed, TaskConstantsOK
<1>1. CASE UNCHANGED <<taskCall, timeLeft>>
  BY <1>1 DEF OneRequestLate, HasMaxWait
<1>2. CASE taskCall' = taskCall /\ Request
  BY <1>0, <1>2 DEF Request, TimeIsUp, TimeAfter, OneRequestLate, HasMaxWait
<1>3. CASE taskCall' = taskCall /\ ~TimeIsUp /\ SleepBeforeNextPoll
  BY <1>0, <1>3 DEF SleepBeforeNextPoll, TimeIsUp, TimeAfter, OneRequestLate, HasMaxWait
<1>4. CASE Poll
  BY <1>1, <1>2, <1>4 DEF Poll, SkipRoot, FetchRoot, SkipChild, AskChild, AskContainer,
     NoContainer, AskGraph, NoGraph, Note
<1>5. CASE Judge
  BY <1>1, <1>3, <1>5 DEF Judge, RaiseOutage, RetryLater, Return, RaiseFailed, RaiseTimeout,
     PollTasksAgain, PollNext, Ends, TooMany
<1>6. CASE ServerError \/ RaiseError
  BY <1>1, <1>2, <1>6 DEF ServerError, RaiseError, Ends
<1>7. CASE UNCHANGED taskVars \/ \E l \in Leaves : LeafAdvances(l)
  BY <1>1, <1>7 DEF taskVars, waiter, LeafAdvances
<1> QED BY <1>4, <1>5, <1>6, <1>7 DEF TaskNext, TaskFinished

(* However many children a poll asks for, and whatever max_wait and the      *)
(* interval are, a wait for tasks is late by one request at most.            *)
THEOREM RequestsAreInTime == TaskSpec => []OneRequestLate
<1>1. TaskInit => OneRequestLate
  BY DEF TaskInit, OneRequestLate, TaskConstantsOK
<1>2. TaskInv /\ OneRequestLate /\ [TaskNext]_taskVars => OneRequestLate'
  BY LateStep
<1> QED BY <1>1, <1>2, TaskInvariance, PTL DEF TaskSpec
=============================================================================
