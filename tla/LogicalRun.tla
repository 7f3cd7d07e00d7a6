----------------------------- MODULE LogicalRun -----------------------------
(***************************************************************************)
(* What the submit/recover/retry loop promises, without its attempts,       *)
(* lookups and hooks.  A call works through a sequence of logical           *)
(* submissions.  The server makes runs for them, possibly more than one and *)
(* possibly late; the manager tracks at most one run per submission and     *)
(* starts the next submission only when the run of the last one is known.   *)
(***************************************************************************)
EXTENDS Integers

CONSTANTS
  Submissions,  \* the logical submissions, positive numbers in starting order
  Runs,         \* run identities
  NoRun         \* not a run

VARIABLES
  promise,  \* "exact": no submission gets two runs; "tracked": it may, while
            \* in doubt; "none": the caller names submissions as it likes
  current,  \* the submission being worked on, 0 before the first
  made,     \* submission -> the runs the server made for it
  tracked,  \* submission -> the run the manager tracks for it, or NoRun
  result    \* "open", "success", "ambiguous", "failed" or "aborted"

logical == <<promise, current, made, tracked, result>>

Init == /\ promise \in {"exact", "tracked", "none"}
        /\ current = 0
        /\ made = [s \in Submissions |-> {}]
        /\ tracked = [s \in Submissions |-> NoRun]
        /\ result = "open"

(* No new submission while the fate of the current one is in doubt. *)
Begin(s) == /\ result = "open"
            /\ s > current
            /\ current # 0 => tracked[current] # NoRun
            /\ current' = s
            /\ UNCHANGED <<made, tracked, result>>

(* A late request may still make a run after the call has ended. *)
Make(s, r) == /\ s <= current
              /\ \A t \in Submissions : r \notin made[t]
              /\ promise = "exact" => made[s] = {}
              /\ made' = [made EXCEPT ![s] = @ \cup {r}]
              /\ UNCHANGED <<current, tracked, result>>

Track(s, r) == /\ result = "open"
               /\ s = current
               /\ tracked[s] = NoRun
               /\ r \in made[s]
               /\ tracked' = [tracked EXCEPT ![s] = r]
               /\ UNCHANGED <<current, made, result>>

(* Ambiguity is reported only for an untracked submission with rival runs. *)
End(v) == /\ result = "open"
          /\ v = "ambiguous" => /\ current # 0
                                /\ tracked[current] = NoRun
                                /\ \E r, q \in made[current] : r # q
          /\ result' = v
          /\ UNCHANGED <<current, made, tracked>>

Step == \/ \E s \in Submissions : Begin(s)
        \/ \E s \in Submissions, r \in Runs : Make(s, r) \/ Track(s, r)
        \/ \E v \in {"success", "ambiguous", "failed", "aborted"} : End(v)

Next == /\ promise = "none" \/ Step
        /\ UNCHANGED promise

Spec == Init /\ [][Next]_logical
=============================================================================
