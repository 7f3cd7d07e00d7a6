---------------------------- MODULE PacedStarts ----------------------------
(***************************************************************************)
(* What the shared rate limiter promises, without its locks, sleeps and      *)
(* owners: requests start at least an interval apart, and none starts while  *)
(* a pause that the server asked any of the workers for is still open.       *)
(***************************************************************************)
EXTENDS Integers

CONSTANTS
  Workers,    \* the threads that share one client
  Intervals,  \* the distances between starts that may be configured, 0 for none
  Delays      \* the pauses that servers ask for

VARIABLES
  interval,  \* the distance in force
  since,     \* time since the last start, up to the longest interval
  asked      \* worker -> time left of the longest pause it was asked for

paced == <<interval, since, asked>>

Longest == CHOOSE i \in Intervals : \A j \in Intervals : j <= i

Init == /\ interval \in Intervals
        /\ since = Longest
        /\ asked = [w \in Workers |-> 0]

Start == /\ since >= interval
         /\ \A w \in Workers : asked[w] = 0
         /\ since' = 0
         /\ UNCHANGED <<interval, asked>>

Ask(w, d) == /\ asked' = [asked EXCEPT ![w] = IF d > @ THEN d ELSE @]
             /\ UNCHANGED <<interval, since>>

SetRate(i) == /\ interval' = i
              /\ UNCHANGED <<since, asked>>

Pass == /\ since' = IF since < Longest THEN since + 1 ELSE since
        /\ asked' = [w \in Workers |-> IF asked[w] > 0 THEN asked[w] - 1 ELSE 0]
        /\ UNCHANGED interval

Next == \/ Start \/ Pass
        \/ \E w \in Workers, d \in Delays : Ask(w, d)
        \/ \E i \in Intervals : SetRate(i)

Spec == Init /\ [][Next]_paced
=============================================================================
