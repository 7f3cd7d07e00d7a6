---------------------------- MODULE PreparedRun ----------------------------
(* PipelineRunner.run_pipeline (pipeline_runner.py): RunLifecycle with the   *)
(* preparation of the pipeline (hydrate, validate, lay out, pre-submit hooks)*)
(* inside the retry loop, and the clean-up of every preparation behind it.   *)
(* A preparation is named by the attempt that built it.                      *)
EXTENDS RunLifecycle

VARIABLES
  prep,     \* preparations: attempt -> the preparation it uses, or None
  stage,    \* "idle", "ready": prepared for this attempt; "cleaning", "over"
  cleanups, \* preparation -> calls of the cleanup_prepared_pipeline hook
  dropped,  \* preparations under way when an interrupt left prepare: no result
  broken,   \* the preparation whose clean-up hook raised, or None
  result,   \* the preparation the formatted result was made from, or None
  outcome   \* "none", or how run_pipeline ends: "result", "error", "interrupt"

runner == <<prep, stage, cleanups, dropped, broken, result, outcome>>
allVars == <<vars, runner>>

Keep == UNCHANGED <<setting, net>>

RunnerInit == /\ Init
              /\ prep = [a \in Attempts |-> None]
              /\ stage = "idle"
              /\ cleanups = [a \in Attempts |-> 0]
              /\ dropped = {}
              /\ broken = None
              /\ result = None
              /\ outcome = "none"

-----------------------------------------------------------------------------
(* prepare_attempt, prepare_pipeline_for_run: part of the body factory. *)

NeedsPreparation == pc = "start" /\ stage = "idle" /\ ~ReusesFrozenBody

Prepare == /\ NeedsPreparation
           /\ stage' = "ready"
           /\ prep' = [prep EXCEPT ![attempt] = attempt]
           /\ UNCHANGED <<vars, cleanups, dropped, broken, result, outcome>>

(* A step of the preparation, validation included, raises: the preparation   *)
(* is not in the table yet, so its own except clause cleans it up.           *)
PreparationRaises ==
  /\ NeedsPreparation
  /\ PrepareFails /\ Keep
  /\ stage' = "cleaning"
  /\ cleanups' = [cleanups EXCEPT ![attempt] = @ + 1]
  /\ outcome' = "error"
  /\ UNCHANGED <<prep, dropped, broken, result>>

(* Ctrl-C during the preparation is not an Exception: nobody cleans it up.   *)
PreparationInterrupted ==
  /\ NeedsPreparation
  /\ PrepareFails /\ Keep
  /\ stage' = "cleaning"
  /\ dropped' = {attempt}
  /\ outcome' = "interrupt"
  /\ UNCHANGED <<prep, cleanups, broken, result>>

(* metadata_factory: an attempt that reuses the frozen body takes over the   *)
(* preparation of the attempt before it.                                     *)
SharesNothing == FALSE  \* mutant: a retry looks only under its own number
SharesPreparation ==
  /\ prep[attempt] = None
  /\ attempt > 1
  /\ run[attempt - 1] = None
  /\ body[attempt - 1] # None

Preparation == IF SharesPreparation THEN prep[attempt - 1] ELSE prep[attempt]

Start ==
  /\ pc = "start"
  /\ ReusesFrozenBody \/ stage = "ready"
  /\ Preparation # None
  /\ StartAttempt /\ Keep
  /\ prep' = [prep EXCEPT ![attempt] = Preparation]
  /\ stage' = "idle"
  /\ UNCHANGED <<cleanups, dropped, broken, result, outcome>>

(* The payload, the metadata or before_run_lifecycle raises.  The error       *)
(* "metadata requested before preparation" would be a dead end here.         *)
StartFails ==
  /\ pc = "start"
  /\ ReusesFrozenBody \/ stage = "ready"
  /\ PrepareFails /\ Keep
  /\ \/ UNCHANGED prep
     \/ Preparation # None /\ prep' = [prep EXCEPT ![attempt] = Preparation]
  /\ stage' = "cleaning"
  /\ outcome' \in {"error", "interrupt"}
  /\ UNCHANGED <<cleanups, dropped, broken, result>>

Loop == /\ Submit \/ Recover \/ Conclude
        /\ UNCHANGED setting
        /\ UNCHANGED runner

-----------------------------------------------------------------------------
(* The loop has returned or raised. *)

Returned == pc = "done" /\ stage \in {"idle", "ready"}

FormatResult ==
  /\ Returned /\ verdict = "success"
  /\ result' = prep[attempt]
  /\ outcome' = "result"
  /\ stage' = "cleaning"
  /\ UNCHANGED <<vars, prep, cleanups, dropped, broken>>

(* format_run_result raises, though the run was submitted and waited for.    *)
FormatFails ==
  /\ Returned /\ verdict = "success"
  /\ "escape" \in Faults
  /\ outcome' = "error"
  /\ stage' = "cleaning"
  /\ UNCHANGED <<vars, prep, cleanups, dropped, broken, result>>

LoopRaised ==
  /\ Returned /\ verdict # "success"
  /\ outcome' \in IF verdict = "aborted" THEN {"error", "interrupt"} ELSE {"error"}
  /\ stage' = "cleaning"
  /\ UNCHANGED <<vars, prep, cleanups, dropped, broken, result>>

(* The finally clause: preparations.values() in the order of the attempts,   *)
(* each distinct one once.                                                   *)
PendingPerAttempt ==  \* mutant: the loop does not skip what it has cleaned
  {prep[a] : a \in {b \in Attempts : prep[b] # None}}
     \ {p \in Attempts : cleanups[p] >= Cardinality({a \in Attempts : prep[a] = p})}
Pending == {prep[a] : a \in Attempts} \ ({None} \cup {p \in Attempts : cleanups[p] > 0})

CleansUp(p) ==
  /\ stage = "cleaning" /\ broken = None
  /\ p \in Pending /\ \A q \in Pending : p <= q
  /\ cleanups' = [cleanups EXCEPT ![p] = @ + 1]

Clean == /\ \E p \in Pending : CleansUp(p)
         /\ UNCHANGED <<vars, prep, stage, dropped, broken, result, outcome>>

(* A hook that raises takes the place of the result or of the error, and     *)
(* the preparations behind it are not cleaned up.                            *)
CleanRaises ==
  /\ "hook" \in Faults
  /\ \E p \in Pending : CleansUp(p) /\ broken' = p
  /\ result' = None
  /\ outcome' = "error"
  /\ UNCHANGED <<vars, prep, stage, dropped>>

Leave == /\ stage = "cleaning"
         /\ Pending = {} \/ broken # None
         /\ stage' = "over"
         /\ UNCHANGED <<vars, prep, cleanups, dropped, broken, result, outcome>>

Over == stage = "over" /\ UNCHANGED allVars

Runner == \/ Prepare \/ PreparationRaises \/ PreparationInterrupted
          \/ Start \/ StartFails \/ Loop
          \/ FormatResult \/ FormatFails \/ LoopRaised
          \/ Clean \/ CleanRaises \/ Leave

RunnerNext == \/ Runner
              \/ Server /\ UNCHANGED runner
              \/ Over

RunnerSpec == RunnerInit /\ [][RunnerNext]_allVars

(* One synchronous thread, so it keeps stepping; a request is bounded by the *)
(* transport timeout, so what is flying lands or is lost.                    *)
FairRunnerSpec == RunnerSpec /\ WF_allVars(Runner) /\ WF_allVars(Server /\ UNCHANGED runner)

-----------------------------------------------------------------------------
(* Properties. *)

(* Type invariant of the runner's own state.                                 *)
RunnerTypeOK ==
  /\ prep \in [Attempts -> MaybeAttempt]
  /\ stage \in {"idle", "ready", "cleaning", "over"}
  /\ cleanups \in [Attempts -> Nat]
  /\ dropped \subseteq Attempts
  /\ broken \in MaybeAttempt
  /\ result \in MaybeAttempt
  /\ outcome \in {"none", "result", "error", "interrupt"}

(* However many attempts share one frozen body, fail in their preparation or *)
(* are interrupted, no preparation is cleaned up twice or before the loop    *)
(* has ended; and when the call is over every preparation that was begun has *)
(* been cleaned up, except the one an interrupt cut short and those behind a *)
(* clean-up hook that raised.                                                *)
CleanedOnce ==
  /\ \A p \in Attempts : cleanups[p] <= 1 /\ (cleanups[p] = 1 => pc = "done")
  /\ stage = "over" =>
       \A p \in Attempts :
         cleanups[p] = 0 =>
           \/ p \in dropped
           \/ broken # None /\ broken < p
           \/ \A a \in Attempts : prep[a] # p /\ body[a] # p

(* The hooks of a call are paired, of each attempt and of each preparation:  *)
(* whatever was entered is released once, on every path.                     *)
HooksPaired == LifecyclePaired /\ CleanedOnce

(* The preparation an attempt reports, in its metadata and in the result of  *)
(* the call, is the one that built the body it submitted, across retries     *)
(* that reuse the body, retries that rebuild it and runs that a recovery     *)
(* adopted; and a retry that reuses a body always finds it.                  *)
PreparationOfBody ==
  /\ \A a \in Attempts : body[a] # None => prep[a] = body[a]
  /\ result # None => result = body[attempt] /\ outcome = "result"
  /\ pc = "start" /\ ReusesFrozenBody => Preparation = body[attempt - 1]

(* The call ends, clean-up included.                                         *)
CallEnds == <>(stage = "over")
=============================================================================
