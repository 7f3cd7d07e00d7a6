---------------------------- MODULE StagedPublish ----------------------------
(***************************************************************************)
(* _publish of the decompiler (pipeline_decompiler.py): the products of one  *)
(* run, a generation, are renamed into place one by one, the script last.    *)
(* What was there is moved aside, brought back when a rename fails, and      *)
(* deleted when the script is in place.  Runs follow each other; one may be  *)
(* killed or interrupted between any two renames, or fail to roll back.      *)
(***************************************************************************)
EXTENDS Integers

CONSTANTS
  Sidecars,  \* the number of products beside the script
  Runs,      \* bound: runs after the one that published generation 1
  Pids

ASSUME ConstantsOK == Sidecars \in Nat /\ Runs \in Nat

Products == 1..Sidecars   \* in the order of the sidecars argument
Nothing == 0
Generations == 1..(Runs + 1)

VARIABLES
  dest,       \* product -> the generation at its destination, or Nothing
  script,     \* the generation of the script, or Nothing
  aside,      \* product -> pid -> what is at <name>.replaced-<pid>
  files,      \* generation -> the products it has files for
  pid,        \* generation -> the pid of the run that makes it
  gen,        \* the generation of the latest run
  before,     \* dest when it began
  pc,         \* "aside", "place", "undo", "discard"; "returned", "raised", "stopped"
  at,         \* the product the loop has got to
  sidelined,  \* those moved aside
  placed      \* those put in place

given == <<files, pid, gen, before>>   \* fixed during a run
disk == <<dest, script, aside>>
lists == <<at, sidelined, placed>>
vars == <<disk, given, pc, lists>>

Init == /\ dest \in [Products -> {Nothing, 1}]
        /\ script \in {Nothing, 1}
        /\ aside = [k \in Products |-> [p \in Pids |-> Nothing]]
        /\ files \in [Generations -> SUBSET Products]
        /\ files[1] = {k \in Products : dest[k] = 1}
        /\ pid \in [Generations -> Pids]
        /\ gen = 1 /\ before = dest
        /\ pc = "raised" /\ at = 1 /\ sidelined = {} /\ placed = {}

Running == pc \in {"aside", "place", "undo", "discard"}

Start == /\ ~Running /\ gen \in 1..Runs
         /\ gen' = gen + 1 /\ before' = dest
         /\ pc' = "aside" /\ at' = 1 /\ sidelined' = {} /\ placed' = {}
         /\ UNCHANGED <<disk, files, pid>>

-----------------------------------------------------------------------------
PutDest(k, g) == dest' = [dest EXCEPT ![k] = g]
PutAsideShared(k, g) ==  \* mutant: <name>.replaced, whatever the pid
  aside' = [aside EXCEPT ![k] = [p \in Pids |-> g]]
PutAside(k, g) == aside' = [aside EXCEPT ![k][pid[gen]] = g]

SidelineDeletes ==  \* mutant: deleted, not moved aside
  /\ pc = "aside" /\ at \in Products
  /\ pc' = "place"
  /\ PutDest(at, Nothing)
  /\ sidelined' = IF dest[at] = Nothing THEN sidelined ELSE sidelined \cup {at}
  /\ UNCHANGED <<script, aside, given, at, placed>>
Sideline == /\ pc = "aside" /\ at \in Products
            /\ pc' = "place"
            /\ IF dest[at] = Nothing
                 THEN UNCHANGED <<dest, aside, sidelined>>
                 ELSE /\ PutAside(at, dest[at]) /\ PutDest(at, Nothing)
                      /\ sidelined' = sidelined \cup {at}
            /\ UNCHANGED <<script, given, at, placed>>

Place == /\ pc = "place"
         /\ pc' = "aside" /\ at' = at + 1
         /\ IF at \in files[gen]
              THEN PutDest(at, gen) /\ placed' = placed \cup {at}
              ELSE UNCHANGED <<dest, placed>>
         /\ UNCHANGED <<script, aside, given, sidelined>>

PlaceScript == /\ pc = "aside" /\ at = Sidecars + 1
               /\ script' = gen /\ pc' = "discard"
               /\ UNCHANGED <<dest, aside, given, lists>>

(* A rename that is due fails: everything is undone, newest first. *)
RenameFails == /\ \/ pc = "aside" /\ at \in Products /\ dest[at] # Nothing
                  \/ pc = "place" /\ at \in files[gen]
                  \/ pc = "aside" /\ at = Sidecars + 1
               /\ pc' = "undo"
               /\ UNCHANGED <<disk, given, lists>>

Newest(k, S) == k \in S /\ \A j \in S : j <= k

UndoPlaced(k) == /\ pc = "undo" /\ Newest(k, placed)
                 /\ placed' = placed \ {k}
                 /\ PutDest(k, Nothing)
                 /\ UNCHANGED <<script, aside, given, pc, at, sidelined>>

UndoSidelined(k) == /\ pc = "undo" /\ placed = {} /\ Newest(k, sidelined)
                    /\ sidelined' = sidelined \ {k}
                    /\ PutDest(k, aside[k][pid[gen]]) /\ PutAside(k, Nothing)
                    /\ UNCHANGED <<script, given, pc, at, placed>>

ReraiseEarly ==  \* mutant: what was aside stays there
  /\ pc = "undo" /\ placed = {}
  /\ pc' = "raised"
  /\ UNCHANGED <<disk, given, lists>>
Reraise == /\ pc = "undo" /\ placed = {} /\ sidelined = {}
           /\ pc' = "raised"
           /\ UNCHANGED <<disk, given, lists>>

(* Errors of the deletions are ignored. *)
Discard == /\ pc = "discard"
           /\ \E gone \in SUBSET sidelined :
                aside' = [k \in Products |->
                            IF k \in gone THEN [aside[k] EXCEPT ![pid[gen]] = Nothing]
                                          ELSE aside[k]]
           /\ pc' = "returned"
           /\ UNCHANGED <<dest, script, given, lists>>

(* The process is killed or interrupted, or a rename of the rollback fails. *)
Stop == /\ Running
        /\ pc' = "stopped"
        /\ UNCHANGED <<disk, given, lists>>

Finished == ~Running /\ gen = Runs + 1 /\ UNCHANGED vars

Next == \/ Start \/ Sideline \/ Place \/ PlaceScript \/ RenameFails
        \/ \E k \in Products : UndoPlaced(k) \/ UndoSidelined(k)
        \/ Reraise \/ Discard \/ Stop \/ Finished

Spec == Init /\ [][Next]_vars

-----------------------------------------------------------------------------
MaybeGeneration == Generations \cup {Nothing}

(* The state has its types. *)
TypeOK == /\ dest \in [Products -> MaybeGeneration]
          /\ script \in MaybeGeneration
          /\ aside \in [Products -> [Pids -> MaybeGeneration]]
          /\ files \in [Generations -> SUBSET Products]
          /\ pid \in [Generations -> Pids]
          /\ gen \in Generations
          /\ before \in [Products -> MaybeGeneration]
          /\ pc \in {"aside", "place", "undo", "discard", "returned", "raised", "stopped"}
          /\ at \in 1..(Sidecars + 1)
          /\ sidelined \subseteq Products /\ placed \subseteq Products

(* "Moved aside, not deleted, until the script rename has succeeded": what a *)
(* run found is at its place or aside whenever the run may stop, even in the *)
(* middle of a rollback.                                                     *)
NothingLost ==
  script # gen =>
    \A k \in Products : before[k] \in {Nothing, dest[k], aside[k][pid[gen]]}

(* A failed publication that could be rolled back leaves every product as it *)
(* was, "the previous generation together, not mismatched".                  *)
RestoredTogether == pc = "raised" /\ gen > 1 => dest = before /\ script # gen

(* The script is never newer than its products: whenever it is in place, so  *)
(* is every file of its run, and none that the run no longer has.            *)
PublishedTogether ==
  script = gen /\ gen > 1 =>
    \A k \in Products : dest[k] = IF k \in files[gen] THEN gen ELSE Nothing

(* Over any series of stopped and failed runs of different pids, the files   *)
(* of the script that is in place can be found at their place or aside.      *)
PidsDiffer == \A g, h \in Generations \ {1} : pid[g] = pid[h] => g = h
ScriptKeepsItsFiles ==
  PidsDiffer /\ script # Nothing =>
    \A k \in files[script] : dest[k] = script \/ \E p \in Pids : aside[k][p] = script

(* The products at their destinations are of one generation: all of the last *)
(* one after a rollback, all of the new one once its script is there.        *)
OneGeneration == RestoredTogether /\ PublishedTogether
=============================================================================
