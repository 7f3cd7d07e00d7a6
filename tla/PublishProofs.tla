---------------------------- MODULE PublishProofs ----------------------------
(***************************************************************************)
(* What the two publications guarantee: of a decompiled pipeline's files      *)
(* (StagedPublish), for any number of products, runs and pids, and of         *)
(* components (ComponentPublish), for any number of concurrent publishers of  *)
(* one component, any versions and any failures.                              *)
(***************************************************************************)
EXTENDS StagedPublish, ComponentPublish, TLAPS

-----------------------------------------------------------------------------
(* Staged files.  The argument: what happened to a product can be read off    *)
(* the two lists (ProductOK), and how far the lists have got off the place in *)
(* the loop (ProgressOK).                                                     *)
USE ConstantsOK

Me == pid[gen]

(* Where the old and the new file of a product are, given the lists. *)
ProductOK(k) ==
  /\ k \in sidelined /\ script # gen => aside[k][Me] = before[k]
  /\ k \in sidelined => before[k] # Nothing
  /\ k \in placed => dest[k] = gen /\ k \in files[gen]
  /\ k \in placed /\ k \notin sidelined => before[k] = Nothing
  /\ k \notin placed /\ k \in sidelined => dest[k] = Nothing
  /\ k \notin placed /\ k \notin sidelined => dest[k] = before[k]

Handled(k) == /\ k \in files[gen] => k \in placed
              /\ before[k] # Nothing => k \in sidelined
Untouched(k) == k \notin placed /\ k \notin sidelined

(* How far the lists have got. *)
ProgressOK ==
  /\ script \in 0..gen
  /\ Running => gen > 1
  /\ pc \in {"aside", "place", "undo"} => script # gen
  /\ pc = "discard" => script = gen
  /\ pc \in {"aside", "place"} =>
       /\ \A k \in Products : k < at => Handled(k)
       /\ \A k \in Products : k > at => Untouched(k)
  /\ pc = "aside" /\ at \in Products => Untouched(at)
  /\ pc = "place" => /\ at \in Products /\ at \notin placed
                     /\ before[at] # Nothing => at \in sidelined
  /\ script = gen /\ gen > 1 => \A k \in Products : Handled(k)
  /\ pc = "raised" => placed = {} /\ sidelined = {} /\ (gen > 1 => script # gen)

StageInv == TypeOK /\ ProgressOK /\ \A k \in Products : ProductOK(k)

LEMMA StageInitInv == Init => StageInv
<1> SUFFICES ASSUME Init PROVE StageInv
  OBVIOUS
<1>1. TypeOK
  BY DEF Init, TypeOK, Generations, MaybeGeneration, Nothing
<1>2. ProgressOK
  BY DEF Init, ProgressOK, Running, Nothing
<1>3. \A k \in Products : ProductOK(k)
  BY DEF Init, ProductOK
<1> QED BY <1>1, <1>2, <1>3 DEF StageInv

LEMMA StartInv == ASSUME StageInv, Start PROVE StageInv'
<1> USE DEF StageInv, Start, disk
<1>1. TypeOK'
  BY DEF TypeOK, Generations, MaybeGeneration, Products
<1>2. gen \in Nat /\ script # gen' /\ script \in 0..gen'
  BY DEF TypeOK, ProgressOK, Generations
<1>3. ProgressOK'
  BY <1>2 DEF ProgressOK, Handled, Untouched, Products, Running
<1>4. \A k \in Products : ProductOK(k)'
  BY DEF ProductOK
<1> QED BY <1>1, <1>3, <1>4

(* The facts about types that every step uses. *)
LEMMA Types ==
  ASSUME StageInv
  PROVE  /\ dest \in [Products -> MaybeGeneration]
         /\ aside \in [Products -> [Pids -> MaybeGeneration]]
         /\ before \in [Products -> MaybeGeneration]
         /\ Me \in Pids /\ gen \in Nat /\ gen \in MaybeGeneration /\ at \in Nat
         /\ gen # Nothing
         /\ Nothing \in MaybeGeneration
         /\ Sidecars + 1 \notin Products
BY DEF StageInv, TypeOK, Me, Generations, MaybeGeneration, Nothing, Products

LEMMA SidelineInv == ASSUME StageInv, Sideline PROVE StageInv'
<1> USE Types
<1>0. /\ UNCHANGED <<script, given, at, placed>> /\ pc = "aside" /\ pc' = "place"
      /\ at \in Products
  BY DEF Sideline
<1>1. /\ Untouched(at) /\ dest[at] = before[at] /\ script # gen
      /\ \A k \in Products : k < at => Handled(k)
      /\ \A k \in Products : k > at => Untouched(k)
  BY <1>0 DEF StageInv, ProgressOK, ProductOK, Untouched
<1>2. CASE dest[at] = Nothing
  <2>1. UNCHANGED <<dest, aside, sidelined>>
    BY <1>2 DEF Sideline
  <2>2. TypeOK'
    BY <1>0, <2>1 DEF StageInv, TypeOK, given
  <2>3. ProgressOK'
    BY <1>0, <1>1, <1>2, <2>1 DEF StageInv, ProgressOK, Handled, Untouched, Running, given
  <2>4. \A k \in Products : ProductOK(k)'
    BY <1>0, <2>1 DEF StageInv, ProductOK, Me, given
  <2> QED BY <2>2, <2>3, <2>4 DEF StageInv
<1>3. CASE dest[at] # Nothing
  <2>1. /\ aside' = [aside EXCEPT ![at][Me] = dest[at]]
        /\ dest' = [dest EXCEPT ![at] = Nothing]
        /\ sidelined' = sidelined \cup {at}
    BY <1>3 DEF Sideline, PutAside, PutDest, Me
  <2>2. TypeOK'
    BY <1>0, <2>1 DEF StageInv, TypeOK, given
  <2>3. ProgressOK'
    BY <1>0, <1>1, <2>1 DEF StageInv, ProgressOK, Handled, Untouched, Running, given
  <2>4. ASSUME NEW k \in Products, k # at PROVE ProductOK(k)'
    BY <1>0, <2>1, <2>4 DEF StageInv, ProductOK, Me, given
  <2>5. ProductOK(at)'
    BY <1>0, <1>1, <1>3, <2>1 DEF StageInv, ProductOK, Me, given, Untouched
  <2> QED BY <1>0, <2>2, <2>3, <2>4, <2>5 DEF StageInv
<1> QED BY <1>2, <1>3

LEMMA PlaceInv == ASSUME StageInv, Place PROVE StageInv'
<1> USE Types
<1>0. /\ UNCHANGED <<script, aside, given, sidelined>> /\ pc = "place" /\ pc' = "aside"
      /\ at' = at + 1 /\ at \in Products
  BY DEF Place, StageInv, ProgressOK
<1>1. /\ script # gen /\ at \notin placed /\ (before[at] # Nothing => at \in sidelined)
      /\ \A k \in Products : k < at => Handled(k)
      /\ \A k \in Products : k > at => Untouched(k)
  BY <1>0 DEF StageInv, ProgressOK
<1>2. at \in 1..Sidecars /\ at' \in 1..(Sidecars + 1)
      /\ \A k \in Products : (k < at' => k < at \/ k = at) /\ (k > at' => k > at)
      /\ at' > at
  BY <1>0 DEF Products
<1>3. /\ \/ at \in files[gen] /\ dest' = [dest EXCEPT ![at] = gen]
              /\ placed' = placed \cup {at}
         \/ at \notin files[gen] /\ UNCHANGED <<dest, placed>>
  BY DEF Place, PutDest
<1>4. TypeOK'
  <2>0. placed \subseteq Products
    BY DEF StageInv, TypeOK
  <2>1. dest' \in [Products -> MaybeGeneration]
    BY <1>0, <1>3
  <2>4. placed' \subseteq Products
    BY <1>0, <1>3, <2>0
  <2>2. /\ script' \in MaybeGeneration /\ sidelined' \subseteq Products
        /\ aside' \in [Products -> [Pids -> MaybeGeneration]]
        /\ before' \in [Products -> MaybeGeneration]
    BY <1>0 DEF StageInv, TypeOK, given
  <2>3. /\ files' \in [Generations -> SUBSET Products]
        /\ pid' \in [Generations -> Pids] /\ gen' \in Generations
    BY <1>0 DEF StageInv, TypeOK, given
  <2> QED BY <1>0, <1>2, <2>1, <2>2, <2>3, <2>4 DEF TypeOK
<1>5. ProgressOK'
  <2>1. \A k \in Products : k < at' => Handled(k)'
    BY <1>0, <1>1, <1>2, <1>3 DEF Handled, given
  <2>2. \A k \in Products : k > at => Untouched(k)'
    BY <1>0, <1>1, <1>2, <1>3 DEF Untouched, Products
  <2> QED BY <1>0, <1>1, <1>2, <2>1, <2>2 DEF StageInv, ProgressOK, Running, given
<1>6. ASSUME NEW k \in Products PROVE ProductOK(k)'
  BY <1>0, <1>1, <1>3 DEF StageInv, ProductOK, Me, given
<1> QED BY <1>4, <1>5, <1>6 DEF StageInv

LEMMA PlaceScriptInv == ASSUME StageInv, PlaceScript PROVE StageInv'
<1> USE Types
<1>0. /\ UNCHANGED <<dest, aside, given, lists>> /\ pc = "aside" /\ pc' = "discard"
      /\ at = Sidecars + 1 /\ script' = gen
  BY DEF PlaceScript
<1>1. TypeOK'
  BY <1>0 DEF StageInv, TypeOK, given, lists
<1>2. \A k \in Products : Handled(k)
  BY <1>0 DEF StageInv, ProgressOK, Products
<1>3. ProgressOK'
  BY <1>0, <1>2 DEF StageInv, ProgressOK, Handled, Running, given, lists
<1>4. \A k \in Products : ProductOK(k)'
  BY <1>0 DEF StageInv, ProductOK, Me, given, lists
<1> QED BY <1>1, <1>3, <1>4 DEF StageInv

LEMMA UndoPlacedInv ==
  ASSUME StageInv, NEW k \in Products, UndoPlaced(k)
  PROVE  StageInv'
<1> USE Types
<1>0. /\ UNCHANGED <<script, aside, given, pc, at, sidelined>> /\ pc = "undo"
      /\ k \in placed /\ placed' = placed \ {k} /\ dest' = [dest EXCEPT ![k] = Nothing]
  BY DEF UndoPlaced, PutDest, Newest
<1>1. TypeOK'
  BY <1>0 DEF StageInv, TypeOK, given
<1>2. ProgressOK'
  BY <1>0 DEF StageInv, ProgressOK, Running, given
<1>3. ASSUME NEW j \in Products PROVE ProductOK(j)'
  BY <1>0 DEF StageInv, ProductOK, Me, given
<1> QED BY <1>1, <1>2, <1>3 DEF StageInv

LEMMA UndoSidelinedInv ==
  ASSUME StageInv, NEW k \in Products, UndoSidelined(k)
  PROVE  StageInv'
<1> USE Types
<1>0. /\ UNCHANGED <<script, given, pc, at, placed>> /\ pc = "undo" /\ placed = {}
      /\ k \in sidelined /\ sidelined' = sidelined \ {k}
      /\ dest' = [dest EXCEPT ![k] = aside[k][Me]]
      /\ aside' = [aside EXCEPT ![k][Me] = Nothing]
  BY DEF UndoSidelined, PutDest, PutAside, Newest, Me
<1>1. TypeOK'
  BY <1>0 DEF StageInv, TypeOK, given
<1>2. script # gen
  BY <1>0 DEF StageInv, ProgressOK
<1>3. ProgressOK'
  BY <1>0, <1>2 DEF StageInv, ProgressOK, Running, given
<1>4. ASSUME NEW j \in Products PROVE ProductOK(j)'
  BY <1>0, <1>2 DEF StageInv, ProductOK, Me, given
<1> QED BY <1>1, <1>3, <1>4 DEF StageInv

(* The steps that rename nothing, or only delete what is aside. *)
LEMMA StageQuietInv ==
  ASSUME StageInv, RenameFails \/ Reraise \/ Discard \/ Stop
  PROVE  StageInv'
<1> USE Types
<1>1. CASE RenameFails \/ Reraise \/ Stop
  <2>0. UNCHANGED <<disk, given, lists>> /\ Running
        /\ \/ pc' = "undo" /\ pc \in {"aside", "place"}
           \/ pc' = "raised" /\ pc = "undo" /\ placed = {} /\ sidelined = {}
           \/ pc' = "stopped"
    BY <1>1 DEF RenameFails, Reraise, Stop, Running
  <2>1. TypeOK'
    BY <2>0 DEF StageInv, TypeOK, disk, given, lists
  <2>2. ProgressOK'
    BY <2>0 DEF StageInv, ProgressOK, Handled, Running, disk, given, lists
  <2>3. \A k \in Products : ProductOK(k)'
    BY <2>0 DEF StageInv, ProductOK, Me, disk, given, lists
  <2> QED BY <2>1, <2>2, <2>3 DEF StageInv
<1>2. CASE Discard
  <2>0. UNCHANGED <<dest, script, given, lists>> /\ pc = "discard" /\ pc' = "returned"
    BY <1>2 DEF Discard
  <2>1. PICK gone \in SUBSET sidelined :
          aside' = [k \in Products |->
                      IF k \in gone THEN [aside[k] EXCEPT ![Me] = Nothing] ELSE aside[k]]
    BY <1>2 DEF Discard, Me
  <2>2. aside' \in [Products -> [Pids -> MaybeGeneration]]
    BY <2>1
  <2>3. TypeOK'
    BY <2>0, <2>2 DEF StageInv, TypeOK, given, lists
  <2>4. ProgressOK'
    BY <2>0 DEF StageInv, ProgressOK, Handled, Running, given, lists
  <2>5. script = gen
    BY <2>0 DEF StageInv, ProgressOK
  <2>6. \A k \in Products : ProductOK(k)'
    BY <2>0, <2>5 DEF StageInv, ProductOK, given, lists
  <2> QED BY <2>3, <2>4, <2>6 DEF StageInv
<1> QED BY <1>1, <1>2

LEMMA StageInvHolds == Spec => []StageInv
<1>1. StageInv /\ [Next]_vars => StageInv'
  <2> SUFFICES ASSUME StageInv, [Next]_vars PROVE StageInv'
    OBVIOUS
  <2>1. CASE UNCHANGED vars
    BY <2>1 DEF StageInv, TypeOK, ProgressOK, ProductOK, Handled, Untouched, Running, Me,
                vars, disk, given, lists
  <2>2. CASE Next
    BY <2>1, <2>2, StartInv, SidelineInv, PlaceInv, PlaceScriptInv, UndoPlacedInv,
       UndoSidelinedInv, StageQuietInv DEF Next, Finished
  <2> QED BY <2>1, <2>2
<1> QED BY <1>1, StageInitInv, PTL DEF Spec

(* The state keeps its types. *)
THEOREM StageTypes == Spec => []TypeOK
<1>1. StageInv => TypeOK
  BY DEF StageInv
<1> QED BY <1>1, StageInvHolds, PTL

(* Whatever number of products and wherever the run stops, also in the middle *)
(* of its rollback, what it found is at its place or aside.                  *)
THEOREM PreviousIsKept == Spec => []NothingLost
<1>1. StageInv => NothingLost
  BY DEF StageInv, ProductOK, NothingLost, Me
<1> QED BY <1>1, StageInvHolds, PTL

(* A run that fails and is rolled back leaves every product as it found it.  *)
THEOREM RollbackRestores == Spec => []RestoredTogether
<1>1. StageInv => RestoredTogether
  <2> SUFFICES ASSUME StageInv, pc = "raised", gen > 1
               PROVE  dest = before /\ script # gen
    BY DEF RestoredTogether
  <2>1. placed = {} /\ sidelined = {} /\ script # gen
    BY DEF StageInv, ProgressOK
  <2>2. \A k \in Products : dest[k] = before[k]
    BY <2>1 DEF StageInv, ProductOK
  <2> QED BY <2>1, <2>2, Types
<1> QED BY <1>1, StageInvHolds, PTL

(* The script of a run is in place only together with all of its products. *)
LEMMA Together == StageInv => PublishedTogether
<1> SUFFICES ASSUME StageInv, script = gen, gen > 1, NEW k \in Products
             PROVE  dest[k] = IF k \in files[gen] THEN gen ELSE Nothing
  BY DEF PublishedTogether
<1>1. Handled(k) /\ ProductOK(k)
  BY DEF StageInv, ProgressOK
<1> QED BY <1>1 DEF Handled, ProductOK

THEOREM ScriptComesLast == Spec => []PublishedTogether
BY Together, StageInvHolds, PTL

-----------------------------------------------------------------------------
(* A series of runs. *)

(* What a pid of its own gives a run: nothing is aside under it beforehand.  *)
FreshAside ==
  PidsDiffer =>
    /\ \A g \in Generations, k \in Products : g > gen => aside[k][pid[g]] = Nothing
    /\ pc \in {"aside", "place"} =>
         \A k \in Products \ sidelined : aside[k][Me] = Nothing

SeriesInv == FreshAside /\ ScriptKeepsItsFiles

LEMMA FreshStep == ASSUME StageInv, FreshAside, Next PROVE FreshAside'
<1> SUFFICES ASSUME PidsDiffer PROVE FreshAside'
  BY DEF FreshAside, PidsDiffer, Next, Start, Sideline, Place, PlaceScript, RenameFails,
         UndoPlaced, UndoSidelined, Reraise, Discard, Stop, Finished, given, vars
<1> USE Types DEF FreshAside
<1>0. Running => \A g \in Generations : g > gen => pid[g] # Me
  BY DEF StageInv, TypeOK, ProgressOK, PidsDiffer, Me, Generations
<1>1. CASE Start
  BY <1>1 DEF Start, disk, Me, StageInv, TypeOK, Generations
<1>2. CASE Sideline
  BY <1>0, <1>2 DEF Sideline, PutAside, given, Me, Running, StageInv, TypeOK
<1>3. CASE Place \/ PlaceScript
  BY <1>3 DEF Place, PlaceScript, given, lists, Me
<1>4. CASE RenameFails \/ Reraise \/ Stop \/ Finished
  BY <1>4 DEF RenameFails, Reraise, Stop, Finished, vars, disk, given, lists, Me
<1>5. ASSUME NEW k \in Products, UndoPlaced(k) PROVE FreshAside'
  BY <1>5 DEF UndoPlaced, given, Me
<1>6. ASSUME NEW k \in Products, UndoSidelined(k) PROVE FreshAside'
  BY <1>0, <1>6 DEF UndoSidelined, PutAside, given, Me, Running, StageInv, TypeOK
<1>7. CASE Discard
  BY <1>0, <1>7 DEF Discard, given, Me, Running, StageInv, TypeOK
<1> QED BY <1>1, <1>2, <1>3, <1>4, <1>5, <1>6, <1>7 DEF Next

Kept(k) == dest[k] = script \/ \E p \in Pids : aside[k][p] = script

LEMMA KeptStep ==
  ASSUME StageInv, StageInv', SeriesInv, Next
  PROVE  ScriptKeepsItsFiles'
<1>0. UNCHANGED <<files, pid>>
  BY DEF Next, Start, Sideline, Place, PlaceScript, RenameFails, UndoPlaced,
         UndoSidelined, Reraise, Discard, Stop, Finished, given, vars
<1> SUFFICES ASSUME PidsDiffer, script' # Nothing, NEW k \in files[script'],
                    k \in Products
             PROVE  Kept(k)'
  <2>1. script' # Nothing => files[script'] \subseteq Products
    BY <1>0 DEF StageInv, TypeOK, MaybeGeneration
  <2> QED BY <1>0, <2>1 DEF ScriptKeepsItsFiles, PidsDiffer, Kept
<1> USE Types
<1>1. ASSUME script' = script PROVE Kept(k)
  BY <1>1 DEF SeriesInv, ScriptKeepsItsFiles, Kept
<1>2. CASE UNCHANGED disk
  BY <1>1, <1>2 DEF disk, Kept
<1>3. CASE Sideline
  <2>1. script' = script /\ aside[at][Me] = Nothing /\ at \in Products
    <3>1. at \notin sidelined
      BY <1>3 DEF Sideline, StageInv, ProgressOK, Untouched
    <3> QED BY <1>3, <3>1 DEF Sideline, SeriesInv, FreshAside
  <2>2. CASE dest[at] = Nothing
    BY <1>1, <1>3, <2>1, <2>2 DEF Sideline, Kept
  <2>3. CASE dest[at] # Nothing
    <3>1. /\ aside' = [aside EXCEPT ![at][Me] = dest[at]]
          /\ dest' = [dest EXCEPT ![at] = Nothing]
      BY <1>3, <2>3 DEF Sideline, PutAside, PutDest, Me
    <3>2. CASE k # at
      BY <1>1, <2>1, <3>1, <3>2 DEF Kept
    <3>3. CASE k = at /\ dest[k] = script
      BY <2>1, <3>1, <3>3 DEF Kept
    <3>4. CASE k = at /\ dest[k] # script
      <4>1. PICK p \in Pids : aside[k][p] = script
        BY <1>1, <2>1, <3>4 DEF Kept
      <4>2. aside'[k][p] = script
        BY <2>1, <3>1, <3>4, <4>1
      <4> QED BY <2>1, <4>2 DEF Kept
    <3> QED BY <3>2, <3>3, <3>4
  <2> QED BY <2>2, <2>3
<1>4. CASE Place
  <2>1. script' = script /\ aside' = aside /\ dest[at] = Nothing /\ at \in Products
    BY <1>4 DEF Place, StageInv, ProgressOK, ProductOK
  <2> QED BY <1>1, <1>4, <2>1 DEF Place, PutDest, Kept
<1>5. CASE PlaceScript \/ Discard
  <2>1. gen > 1 /\ gen' = gen /\ script' = gen
    BY <1>5 DEF PlaceScript, Discard, StageInv, ProgressOK, Running, given
  <2>2. PublishedTogether'
    BY Together, PTL
  <2> QED BY <1>0, <2>1, <2>2 DEF PublishedTogether, Kept
<1>6. ASSUME NEW j \in Products, UndoPlaced(j) PROVE Kept(k)'
  <2>1. script' = script /\ aside' = aside /\ dest[j] = gen /\ script # gen
    BY <1>6 DEF UndoPlaced, Newest, StageInv, ProgressOK, ProductOK
  <2> QED BY <1>1, <1>6, <2>1 DEF UndoPlaced, PutDest, Kept
<1>7. ASSUME NEW j \in Products, UndoSidelined(j) PROVE Kept(k)'
  <2>1. /\ script' = script /\ dest[j] = Nothing
        /\ dest' = [dest EXCEPT ![j] = aside[j][Me]]
        /\ aside' = [aside EXCEPT ![j][Me] = Nothing]
    BY <1>7 DEF UndoSidelined, Newest, PutDest, PutAside, StageInv, ProductOK, Me
  <2> QED BY <1>1, <2>1 DEF Kept
<1> QED BY <1>2, <1>3, <1>4, <1>5, <1>6, <1>7
        DEF Next, Start, RenameFails, Reraise, Stop, Finished, vars

(* Over any series of runs with pids of their own, however they stop, the     *)
(* files of the script in place are at their place or aside.                 *)
THEOREM SeriesKeepsScript == Spec => []ScriptKeepsItsFiles
<1>1. Init => SeriesInv
  BY DEF Init, SeriesInv, FreshAside, ScriptKeepsItsFiles, PidsDiffer, Generations,
         Me, Nothing
<1>2. StageInv /\ StageInv' /\ SeriesInv /\ [Next]_vars => SeriesInv'
  <2>1. SeriesInv /\ UNCHANGED vars => SeriesInv'
    BY DEF SeriesInv, FreshAside, ScriptKeepsItsFiles, PidsDiffer, Me, vars, disk, given,
           lists
  <2> QED BY <2>1, FreshStep, KeptStep DEF SeriesInv
<1>3. SeriesInv => ScriptKeepsItsFiles
  BY DEF SeriesInv
<1> QED BY <1>1, <1>2, <1>3, StageInvHolds, PTL DEF Spec

(* What is in place is of one generation, after a rollback and after the     *)
(* script.                                                                   *)
THEOREM GenerationsStayTogether == Spec => []OneGeneration
<1>1. RestoredTogether /\ PublishedTogether => OneGeneration
  BY DEF OneGeneration
<1> QED BY <1>1, RollbackRestores, ScriptComesLast, PTL

-----------------------------------------------------------------------------
(* Components.  The argument: what a publisher is going to deprecate is      *)
(* older than what it publishes (TodoIsOlder), which it has created by then  *)
(* (OwnIsPublished), and neither versions nor rows ever go away.             *)
USE PublishConstantsOK

TodoIsOlder == \A p \in Publishers : \A d \in todo[p] : version[d] < Local(p)

OwnIsPublished ==
  \A p \in Publishers : phase[p] = "deprecate" => Published(digest[p])

(* Without a version a publisher does not get beyond the start.              *)
VersionedAtWork == \A p \in Publishers : Publishing(p) => digest[p] \in Digests

PublisherInv == /\ PublishTypeOK /\ TodoIsOlder /\ OwnIsPublished /\ VersionedAtWork
        /\ SupersededByNewer /\ NewestStaysLive

LEMMA PublisherInitInv == PublishInit => PublisherInv
<1> SUFFICES ASSUME PublishInit PROVE PublisherInv
  OBVIOUS
<1>1. PublishTypeOK
  <2>1. batch \in BOOLEAN
    BY Zenon DEF PublishInit
  <2> QED BY <2>1 DEF PublishInit, PublishTypeOK
<1>2. TodoIsOlder /\ OwnIsPublished /\ SupersededByNewer
  BY DEF PublishInit, TodoIsOlder, OwnIsPublished, SupersededByNewer
<1>4. VersionedAtWork
  BY DEF PublishInit, VersionedAtWork, Publishing
<1>3. NewestStaysLive
  BY DEF PublishInit, NewestStaysLive, Published, Live, Versions
<1> QED BY <1>1, <1>2, <1>3, <1>4 DEF PublisherInv

-----------------------------------------------------------------------------
(* What a step may do to the registry, and what that preserves. *)

(* A publisher's own row appears, or one that is older than a published row  *)
(* is deprecated in its favour.                                              *)
RegistryStep ==
  \/ UNCHANGED registry
  \/ \E d \in Digests : /\ row' = [row EXCEPT ![d] = "live"]
                        /\ successor' = successor
  \/ \E d, n \in Digests : /\ Published(n) /\ version[d] < version[n]
                           /\ row' = [row EXCEPT ![d] = "deprecated"]
                           /\ successor' = [successor EXCEPT ![d] = n]

LEMMA RegistryInv ==
  ASSUME PublisherInv, RegistryStep, UNCHANGED version
  PROVE  /\ SupersededByNewer' /\ NewestStaysLive'
         /\ row' \in [Digests -> {"none", "live", "deprecated"}]
         /\ successor' \in [Digests -> Digests \cup {NoDigest}]
         /\ \A d \in Digests : Published(d) => Published(d)'
<1> USE DEF Published, Live
<1>0. /\ row \in [Digests -> {"none", "live", "deprecated"}]
      /\ successor \in [Digests -> Digests \cup {NoDigest}]
      /\ version \in [Digests -> Int]
  BY DEF PublisherInv, PublishTypeOK, Versions
<1>1. CASE UNCHANGED registry
  BY <1>0, <1>1 DEF PublisherInv, SupersededByNewer, NewestStaysLive, registry
<1>2. ASSUME NEW d \in Digests, row' = [row EXCEPT ![d] = "live"],
             successor' = successor
      PROVE  /\ SupersededByNewer' /\ NewestStaysLive'
             /\ row' \in [Digests -> {"none", "live", "deprecated"}]
             /\ \A e \in Digests : Published(e) => Published(e)'
  <2>1. SupersededByNewer'
    BY <1>0, <1>2 DEF PublisherInv, SupersededByNewer
  <2>2. NewestStaysLive'
    <3> SUFFICES ASSUME NEW e \in Digests, Published(e)'
                 PROVE  \E f \in Live' : version[f] >= version[e]
      BY DEF NewestStaysLive
    <3>1. CASE e = d
      BY <1>0, <1>2, <3>1
    <3>2. CASE e # d
      <4>1. PICK f \in Live : version[f] >= version[e]
        BY <1>0, <1>2, <3>2 DEF PublisherInv, NewestStaysLive
      <4>2. f \in Live'
        BY <1>0, <1>2, <4>1
      <4> QED BY <4>1, <4>2
    <3> QED BY <3>1, <3>2
  <2> QED BY <1>0, <1>2, <2>1, <2>2
<1>3. ASSUME NEW d \in Digests, NEW n \in Digests,
             Published(n), version[d] < version[n],
             row' = [row EXCEPT ![d] = "deprecated"],
             successor' = [successor EXCEPT ![d] = n]
      PROVE  /\ SupersededByNewer' /\ NewestStaysLive'
             /\ row' \in [Digests -> {"none", "live", "deprecated"}]
             /\ successor' \in [Digests -> Digests \cup {NoDigest}]
             /\ \A e \in Digests : Published(e) => Published(e)'
  <2>1. SupersededByNewer'
    BY <1>0, <1>3 DEF PublisherInv, SupersededByNewer
  <2>2. PICK top \in Live : version[top] >= version[n]
    BY <1>3 DEF PublisherInv, NewestStaysLive
  <2>3. top \in Live' /\ version[top] > version[d]
    BY <1>0, <1>3, <2>2
  <2>4. NewestStaysLive'
    <3> SUFFICES ASSUME NEW e \in Digests, Published(e)'
                 PROVE  \E f \in Live' : version[f] >= version[e]
      BY DEF NewestStaysLive
    <3>1. CASE e = d
      BY <1>0, <2>3, <3>1
    <3>2. CASE e # d
      <4>1. PICK f \in Live : version[f] >= version[e]
        BY <1>0, <1>3, <3>2 DEF PublisherInv, NewestStaysLive
      <4>2. CASE f = d
        BY <1>0, <2>3, <4>1, <4>2
      <4>3. CASE f # d
        BY <1>0, <1>3, <4>1, <4>3
      <4> QED BY <4>2, <4>3
    <3> QED BY <3>1, <3>2
  <2> QED BY <1>0, <1>3, <2>1, <2>4
<1> QED BY <1>0, <1>1, <1>2, <1>3 DEF RegistryStep

(* A step that leaves versions and digests alone need only be looked at for  *)
(* its registry step, the types of the publishers' state, and two facts.     *)
LEMMA StepInv ==
  ASSUME PublisherInv, RegistryStep, UNCHANGED <<batch, version, digest>>,
         phase' \in [Publishers -> {"start", "checked", "create", "deprecate", "done"}],
         todo' \in [Publishers -> SUBSET Digests],
         failed' \in [Publishers -> SUBSET Digests],
         outcome' \in [Publishers -> {"none", "success", "skip", "error"}],
         pin' \in [Publishers -> Digests \cup {NoDigest}],
         TodoIsOlder', OwnIsPublished', VersionedAtWork'
  PROVE  PublisherInv'
<1>1. PublishTypeOK'
  BY RegistryInv DEF PublisherInv, PublishTypeOK, Versions
<1> QED BY <1>1, RegistryInv DEF PublisherInv

-----------------------------------------------------------------------------
(* The steps of one publisher. *)

(* A publisher that leaves the registry and its candidates alone, or drops    *)
(* some, and does not get to the deprecations by this step.                  *)
LEMMA QuietInv ==
  ASSUME PublisherInv, NEW p \in Publishers,
         UNCHANGED <<batch, version, digest, registry>>,
         NEW to \in {"start", "checked", "create", "done"},
         phase' = [phase EXCEPT ![p] = to],
         to \in {"start", "done"} \/ digest[p] \in Digests,
         todo' \in [Publishers -> SUBSET Digests],
         failed' \in [Publishers -> SUBSET Digests],
         outcome' \in [Publishers -> {"none", "success", "skip", "error"}],
         pin' \in [Publishers -> Digests \cup {NoDigest}],
         \A q \in Publishers :
           todo'[q] \subseteq todo[q]
             \/ \A d \in todo'[q] : d \in Digests /\ version[d] < Local(q)
  PROVE  PublisherInv'
<1>1. RegistryStep
  BY DEF RegistryStep
<1>2. phase' \in [Publishers -> {"start", "checked", "create", "deprecate", "done"}]
  BY DEF PublisherInv, PublishTypeOK
<1>3. TodoIsOlder'
  BY DEF PublisherInv, TodoIsOlder, Local
<1>4. OwnIsPublished'
  BY DEF PublisherInv, PublishTypeOK, OwnIsPublished, Published, registry
<1>5. VersionedAtWork'
  BY DEF PublisherInv, PublishTypeOK, VersionedAtWork, Publishing
<1> QED BY <1>1, <1>2, <1>3, <1>4, <1>5, StepInv

LEMMA ChecksInv ==
  ASSUME PublisherInv, NEW p \in Publishers, NEW seen \in SUBSET Live,
         Check(p, seen) \/ Recheck(p, seen)
  PROVE  PublisherInv'
<1>0. /\ todo \in [Publishers -> SUBSET Digests]
      /\ failed \in [Publishers -> SUBSET Digests]
      /\ outcome \in [Publishers -> {"none", "success", "skip", "error"}]
      /\ pin \in [Publishers -> Digests \cup {NoDigest}]
      /\ seen \subseteq Digests
  BY DEF PublisherInv, PublishTypeOK, Live
<1>1. ASSUME NEW from, Stops(p, from, seen), todo' = todo, failed' = failed,
             UNCHANGED <<batch, version, digest, registry>>
      PROVE  PublisherInv'
  <2>1. /\ phase' = [phase EXCEPT ![p] = "done"]
        /\ outcome' \in [Publishers -> {"none", "success", "skip", "error"}]
        /\ pin' \in [Publishers -> Digests \cup {NoDigest}]
    BY <1>0, <1>1 DEF Stops, Ends, Goes, Latest
  <2> QED BY <1>0, <1>1, <2>1, QuietInv
<1>2. ASSUME Goes(p, "start", "checked"), digest[p] \in Digests, todo' = todo, failed' = failed,
             UNCHANGED <<batch, version, digest, registry, outcome, pin>>
      PROVE  PublisherInv'
  BY <1>0, <1>2, QuietInv DEF Goes
<1>3. ASSUME Goes(p, "checked", "create"),
             todo' = [todo EXCEPT ![p] = OlderThan(p, seen)], failed' = failed,
             UNCHANGED <<batch, version, digest, registry, outcome, pin>>
      PROVE  PublisherInv'
  <2>1. todo' \in [Publishers -> SUBSET Digests]
    BY <1>0, <1>3 DEF OlderThan
  <2>2. \A q \in Publishers :
          todo'[q] \subseteq todo[q]
            \/ \A d \in todo'[q] : d \in Digests /\ version[d] < Local(q)
    BY <1>0, <1>3 DEF OlderThan
  <2>3. digest[p] \in Digests
    BY <1>3 DEF Goes, PublisherInv, VersionedAtWork, Publishing
  <2> QED BY <1>0, <1>3, <2>1, <2>2, <2>3, QuietInv DEF Goes
<1>4. CASE Check(p, seen)
  <2>1. digest[p] \in Digests
    BY <1>4 DEF Check, PublisherInv, PublishTypeOK
  <2> QED BY <1>1, <1>2, <1>4, <2>1 DEF Check
<1>5. CASE Recheck(p, seen)
  BY <1>1, <1>3, <1>5 DEF Recheck
<1> QED BY <1>4, <1>5

LEMMA EndsInv ==
  ASSUME PublisherInv, NEW p \in Publishers,
         SkipUnversioned(p) \/ Abort(p) \/ Rerun(p) \/ Succeed(p)
  PROVE  PublisherInv'
<1>0. /\ todo \in [Publishers -> SUBSET Digests]
      /\ failed \in [Publishers -> SUBSET Digests]
      /\ outcome \in [Publishers -> {"none", "success", "skip", "error"}]
      /\ pin \in [Publishers -> Digests \cup {NoDigest}]
      /\ digest \in [Publishers -> Digests \cup {NoDigest}]
  BY DEF PublisherInv, PublishTypeOK
<1>1. CASE SkipUnversioned(p) \/ Abort(p) \/ Succeed(p)
  <2>1. /\ phase' = [phase EXCEPT ![p] = "done"]
        /\ outcome' \in [Publishers -> {"none", "success", "skip", "error"}]
        /\ pin' \in [Publishers -> Digests \cup {NoDigest}]
        /\ UNCHANGED <<batch, version, digest, registry, todo, failed>>
    BY <1>0, <1>1 DEF SkipUnversioned, Abort, Succeed, Ends, Goes
  <2> QED BY <1>0, <2>1, QuietInv
<1>2. CASE Rerun(p)
  <2>1. /\ phase' = [phase EXCEPT ![p] = "start"]
        /\ outcome' \in [Publishers -> {"none", "success", "skip", "error"}]
        /\ todo' \in [Publishers -> SUBSET Digests]
        /\ failed' \in [Publishers -> SUBSET Digests]
        /\ \A q \in Publishers : todo'[q] \subseteq todo[q]
        /\ UNCHANGED <<batch, version, digest, registry, pin>>
    BY <1>0, <1>2 DEF Rerun, Goes
  <2> QED BY <1>0, <2>1, QuietInv
<1> QED BY <1>1, <1>2

LEMMA CreateInv ==
  ASSUME PublisherInv, NEW p \in Publishers, Create(p) \/ CreateFails(p)
  PROVE  PublisherInv'
<1>0. /\ digest[p] \in Digests
      /\ UNCHANGED <<batch, version, digest, successor, todo, failed>>
      /\ row \in [Digests -> {"none", "live", "deprecated"}]
  BY DEF PublisherInv, PublishTypeOK, Create, CreateFails, Ends, Goes, VersionedAtWork, Publishing
<1>1. RegistryStep
  BY <1>0 DEF Create, CreateFails, Created, RegistryStep, registry
<1>2. TodoIsOlder'
  BY <1>0 DEF PublisherInv, TodoIsOlder, Local
<1>3. OwnIsPublished'
  <2>1. \A d \in Digests : Published(d) => Published(d)'
    BY <1>0, <1>1, RegistryInv
  <2>2. \A q \in Publishers : phase[q] = "deprecate" => digest[q] \in Digests
    BY DEF PublisherInv, VersionedAtWork, Publishing
  <2>3. CASE Create(p)
    <3>1. Published(digest[p])'
      BY <1>0, <2>3 DEF Create, Created, Published
    <3>2. \A q \in Publishers \ {p} : phase'[q] = phase[q]
      BY <2>3 DEF Create, Goes, PublisherInv, PublishTypeOK
    <3> QED BY <1>0, <2>1, <2>2, <3>1, <3>2 DEF OwnIsPublished, PublisherInv, PublishTypeOK
  <2>4. CASE CreateFails(p)
    BY <1>0, <2>1, <2>2, <2>4 DEF CreateFails, Ends, Goes, OwnIsPublished, PublisherInv, PublishTypeOK
  <2> QED BY <2>3, <2>4
<1>4. /\ phase' \in [Publishers -> {"start", "checked", "create", "deprecate", "done"}]
      /\ outcome' \in [Publishers -> {"none", "success", "skip", "error"}]
      /\ pin' \in [Publishers -> Digests \cup {NoDigest}]
  BY DEF PublisherInv, PublishTypeOK, Create, CreateFails, Ends, Goes
<1>5. todo' \in [Publishers -> SUBSET Digests] /\ failed' \in [Publishers -> SUBSET Digests]
  BY <1>0 DEF PublisherInv, PublishTypeOK
<1>6. VersionedAtWork'
  BY <1>0 DEF PublisherInv, PublishTypeOK, VersionedAtWork, Publishing, Create, CreateFails, Ends, Goes
<1> QED BY <1>0, <1>1, <1>2, <1>3, <1>4, <1>5, <1>6, StepInv

LEMMA DeprecateInv ==
  ASSUME PublisherInv, NEW p \in Publishers, NEW d \in todo[p],
         Deprecate(p, d) \/ DeprecateFails(p, d)
  PROVE  PublisherInv'
<1>0. /\ phase[p] = "deprecate" /\ UNCHANGED <<batch, version, digest, phase, outcome, pin>>
      /\ todo' = [todo EXCEPT ![p] = todo[p] \ {d}]
      /\ Deprecated(p, d) \/ UNCHANGED registry
      /\ failed' = failed \/ failed' = [failed EXCEPT ![p] = failed[p] \cup {d}]
  BY DEF Deprecate, DeprecateFails
<1>1. /\ d \in Digests /\ digest[p] \in Digests
      /\ version[d] < version[digest[p]] /\ Published(digest[p])
  BY <1>0 DEF PublisherInv, PublishTypeOK, TodoIsOlder, OwnIsPublished, Local, VersionedAtWork, Publishing
<1>2. RegistryStep
  BY <1>0, <1>1 DEF RegistryStep, Deprecated
<1>3. \A e \in Digests : Published(e) => Published(e)'
  BY <1>0, <1>2, RegistryInv
<1>4. /\ todo' \in [Publishers -> SUBSET Digests]
      /\ failed' \in [Publishers -> SUBSET Digests]
  BY <1>0, <1>1 DEF PublisherInv, PublishTypeOK
<1>5. TodoIsOlder'
  BY <1>0 DEF PublisherInv, PublishTypeOK, TodoIsOlder, Local
<1>6. OwnIsPublished'
  BY <1>0, <1>1, <1>3 DEF PublisherInv, PublishTypeOK, OwnIsPublished, VersionedAtWork, Publishing
<1>7. VersionedAtWork'
  BY <1>0 DEF PublisherInv, VersionedAtWork, Publishing
<1> QED BY <1>0, <1>2, <1>4, <1>5, <1>6, <1>7, StepInv DEF PublisherInv, PublishTypeOK

LEMMA PublisherInvHolds == PublishSpec => []PublisherInv
<1>1. PublisherInv /\ [PublishNext \/ Done]_publishVars => PublisherInv'
  <2> SUFFICES ASSUME PublisherInv, [PublishNext \/ Done]_publishVars PROVE PublisherInv'
    OBVIOUS
  <2>1. CASE UNCHANGED publishVars
    BY <2>1 DEF PublisherInv, PublishTypeOK, TodoIsOlder, OwnIsPublished, SupersededByNewer,
                NewestStaysLive, Published, Live, Local, VersionedAtWork, Publishing, publishVars, registry
  <2>2. CASE PublishNext
    BY <2>2, ChecksInv, EndsInv, CreateInv, DeprecateInv DEF PublishNext
  <2> QED BY <2>1, <2>2 DEF Done
<1> QED BY <1>1, PublisherInitInv, PTL DEF PublishSpec

(* The state of the publishers and of the registry keeps its types. *)
THEOREM PublisherTypes == PublishSpec => []PublishTypeOK
<1>1. PublisherInv => PublishTypeOK
  BY DEF PublisherInv
<1> QED BY <1>1, PublisherInvHolds, PTL

(* For any number of publishers and any failures of their requests, a row is  *)
(* only ever deprecated in favour of a newer one that exists.                *)
THEOREM OnlyNewerSupersedes == PublishSpec => []SupersededByNewer
<1>1. PublisherInv => SupersededByNewer
  BY DEF PublisherInv
<1> QED BY <1>1, PublisherInvHolds, PTL

(* No interleaving of publishers deprecates the newest version there is,     *)
(* with or without downgrades.                                               *)
THEOREM NewestIsKept == PublishSpec => []NewestStaysLive
<1>1. PublisherInv => NewestStaysLive
  BY DEF PublisherInv
<1> QED BY <1>1, PublisherInvHolds, PTL

(* Both: what the registry offers stays current.                             *)
THEOREM RegistryCurrent == PublishSpec => []RegistryStaysCurrent
<1>1. SupersededByNewer /\ NewestStaysLive => RegistryStaysCurrent
  BY DEF RegistryStaysCurrent
<1> QED BY <1>1, OnlyNewerSupersedes, NewestIsKept, PTL

-----------------------------------------------------------------------------
(* What a caller may pin. *)

(* The latest row of a complete view that stops a publisher is as new as its  *)
(* own version.                                                              *)
LEMMA SkippedIsCurrent ==
  ASSUME PublisherInv, NEW p \in Publishers, NEW seen \in SUBSET Live,
         digest[p] \in Digests, ~Newer(p, seen), NEW d \in Latest(seen)
  PROVE  d \in Digests /\ Published(d) /\ version[d] >= Local(p)
<1>1. /\ d \in Live /\ \A e \in seen : version[e] <= version[d]
      /\ seen \subseteq Digests
  BY DEF Latest, Live
<1>2. PICK e \in seen : ~(version[e] < Local(p))
  BY DEF Newer
<1>3. version[d] \in Int /\ version[e] \in Int /\ Local(p) \in Int
  BY <1>1, <1>2 DEF PublisherInv, PublishTypeOK, Versions, Local, Live
<1> QED BY <1>1, <1>2, <1>3 DEF Live, Published

PinOK(p) == outcome[p] \in {"success", "skip"} =>
              IF digest[p] = NoDigest THEN outcome[p] = "skip" /\ pin[p] = NoDigest
              ELSE /\ pin[p] \in Digests /\ Published(pin[p])
                   /\ version[pin[p]] >= Local(p)

LEMMA PinStep ==
  ASSUME PublisherInv, PinsAreCurrent, PublisherInv', PublishNext
  PROVE  PinsAreCurrent'
<1>0. /\ UNCHANGED <<batch, version, digest>>
      /\ \A d \in Digests : Published(d) => Published(d)'
  <2>1. UNCHANGED <<batch, version, digest>>
    BY DEF PublishNext, SkipUnversioned, Check, Recheck, Create, CreateFails, Deprecate, DeprecateFails,
           Succeed, Abort, Rerun
  <2>2. ASSUME NEW d \in Digests, Published(d) PROVE Published(d)'
    BY <2>2 DEF PublishNext, SkipUnversioned, Check, Recheck, Create, CreateFails, Deprecate, DeprecateFails,
           Succeed, Abort, Rerun, Published, Created, Deprecated, registry, PublisherInv, PublishTypeOK
  <2> QED BY <2>1, <2>2
<1>1. ASSUME NEW p \in Publishers, outcome'[p] = outcome[p], pin'[p] = pin[p]
      PROVE  PinOK(p)'
  BY <1>0, <1>1 DEF PinsAreCurrent, PinOK, Local
<1>2. ASSUME NEW p \in Publishers, outcome'[p] \in {"none", "error"}
      PROVE  PinOK(p)'
  BY <1>2 DEF PinOK
<1>3. ASSUME NEW p \in Publishers, NEW seen \in SUBSET Live,
             Check(p, seen) \/ Recheck(p, seen)
      PROVE  PinsAreCurrent'
  <2>0. digest[p] \in Digests
    BY <1>3 DEF Check, Recheck, PublisherInv, PublishTypeOK, VersionedAtWork, Publishing
  <2>1. ASSUME NEW from, Stops(p, from, seen) PROVE PinsAreCurrent'
    <3>1. \A q \in Publishers \ {p} : outcome'[q] = outcome[q] /\ pin'[q] = pin[q]
      BY <2>1 DEF Stops, Ends, PublisherInv, PublishTypeOK
    <3>2. CASE outcome'[p] = "error"
      BY <1>1, <1>2, <3>1, <3>2 DEF PinsAreCurrent, PinOK
    <3>3. CASE outcome'[p] # "error"
      <4>1. ~Newer(p, seen) /\ pin'[p] \in Latest(seen)
        BY <2>1, <3>3 DEF Stops, Ends, PublisherInv, PublishTypeOK
      <4>2. PinOK(p)'
        BY <1>0, <2>0, <4>1, SkippedIsCurrent DEF PinOK, Local
      <4> QED BY <1>1, <3>1, <4>2 DEF PinsAreCurrent, PinOK
    <3> QED BY <3>2, <3>3
  <2>2. ASSUME UNCHANGED <<outcome, pin>> PROVE PinsAreCurrent'
    BY <1>1, <2>2 DEF PinsAreCurrent, PinOK
  <2> QED BY <1>3, <2>1, <2>2 DEF Check, Recheck
<1>4. ASSUME NEW p \in Publishers, Create(p) \/ CreateFails(p) \/ Abort(p) \/ Rerun(p)
      PROVE  PinsAreCurrent'
  <2>1. \A q \in Publishers :
          \/ outcome'[q] \in {"none", "error"}
          \/ outcome'[q] = outcome[q] /\ pin'[q] = pin[q]
    BY <1>4 DEF Create, CreateFails, Abort, Rerun, Ends, PublisherInv, PublishTypeOK
  <2> QED BY <1>1, <1>2, <2>1 DEF PinsAreCurrent, PinOK
<1>5. ASSUME NEW p \in Publishers, NEW d, Deprecate(p, d) \/ DeprecateFails(p, d)
      PROVE  PinsAreCurrent'
  BY <1>1, <1>5 DEF Deprecate, DeprecateFails, PinsAreCurrent, PinOK
<1>6. ASSUME NEW p \in Publishers, Succeed(p) PROVE PinsAreCurrent'
  <2>1. \A q \in Publishers \ {p} : outcome'[q] = outcome[q] /\ pin'[q] = pin[q]
    BY <1>6 DEF Succeed, Ends, PublisherInv, PublishTypeOK
  <2>2. pin'[p] = digest[p] /\ Published(digest[p]) /\ digest[p] \in Digests
    BY <1>6 DEF Succeed, Ends, Goes, PublisherInv, PublishTypeOK, OwnIsPublished, VersionedAtWork, Publishing
  <2>3. PinOK(p)'
    BY <1>0, <2>2 DEF PinOK, Local, PublisherInv, PublishTypeOK, Versions
  <2> QED BY <1>1, <2>1, <2>3 DEF PinsAreCurrent, PinOK
<1>7. ASSUME NEW p \in Publishers, SkipUnversioned(p) PROVE PinsAreCurrent'
  <2>1. \A q \in Publishers \ {p} : outcome'[q] = outcome[q] /\ pin'[q] = pin[q]
    BY <1>7 DEF SkipUnversioned, Ends, PublisherInv, PublishTypeOK
  <2>2. outcome'[p] = "skip" /\ pin'[p] = NoDigest /\ digest[p] = NoDigest
    BY <1>7 DEF SkipUnversioned, Ends, PublisherInv, PublishTypeOK
  <2>3. PinOK(p)'
    BY <1>0, <2>2 DEF PinOK
  <2> QED BY <1>1, <2>1, <2>3 DEF PinsAreCurrent, PinOK
<1> QED BY <1>3, <1>4, <1>5, <1>6, <1>7 DEF PublishNext

(* After a success or a skip, "the digest to pin" exists and is not older    *)
(* than what the caller has, whatever the other publishers do.               *)
THEOREM PinsStayCurrent == PublishSpec => []PinsAreCurrent
<1>1. PublishInit => PinsAreCurrent
  BY DEF PublishInit, PinsAreCurrent
<1>2. PublisherInv /\ PublisherInv' /\ PinsAreCurrent /\ [PublishNext \/ Done]_publishVars => PinsAreCurrent'
  <2>1. PinsAreCurrent /\ UNCHANGED publishVars => PinsAreCurrent'
    BY DEF PinsAreCurrent, Published, Local, publishVars, registry
  <2> QED BY <2>1, PinStep DEF Done
<1> QED BY <1>1, <1>2, PublisherInvHolds, PTL DEF PublishSpec
-----------------------------------------------------------------------------
(* Batches. *)

Phases == {"start", "checked", "create", "deprecate", "done"}

(* One publisher of a batch is at work at a time, so what its last check saw *)
(* is still all that is live when it creates its row.                        *)
OneAtATime ==
  batch => \A p, q \in Publishers : Publishing(p) /\ Publishing(q) => p = q

CheckHolds ==
  batch => \A p \in Publishers \ Downgraders :
             phase[p] = "create" => \A d \in Live : version[d] < Local(p)

BatchInv == OneAtATime /\ CheckHolds

(* A publisher that does not turn to the create, while the registry is left  *)
(* alone, and that is at work already or now stops.                          *)
LEMMA BatchQuiet ==
  ASSUME BatchInv, UNCHANGED <<batch, version, digest, registry>>,
         NEW p \in Publishers, NEW to \in {"start", "checked", "deprecate", "done"},
         phase \in [Publishers -> Phases],
         phase' = [phase EXCEPT ![p] = to],
         to \in {"start", "done"} \/ Publishing(p)
  PROVE  BatchInv'
  BY DEF BatchInv, OneAtATime, CheckHolds, Publishing, Live, Local, registry

(* The publisher at work changes the registry, and leaves the create behind. *)
LEMMA BatchWrites ==
  ASSUME BatchInv, UNCHANGED <<batch, version, digest>>,
         NEW p \in Publishers, NEW to \in {"deprecate", "done"},
         phase \in [Publishers -> Phases],
         Publishing(p), phase' = [phase EXCEPT ![p] = to]
  PROVE  BatchInv'
  BY DEF BatchInv, OneAtATime, CheckHolds, Publishing, Live, Local

LEMMA BatchStep ==
  ASSUME PublishTypeOK, BatchInv, PublishNext
  PROVE  BatchInv'
<1>0. phase \in [Publishers -> Phases]
  BY DEF PublishTypeOK, Phases
<1>1. ASSUME NEW p \in Publishers, NEW from, NEW how, NEW d, Ends(p, from, how, d),
             UNCHANGED <<batch, version, digest, registry>>
      PROVE  BatchInv'
  BY <1>0, <1>1, BatchQuiet DEF Ends, Goes
<1>2. ASSUME NEW p \in Publishers, NEW from, NEW seen, Stops(p, from, seen),
             UNCHANGED <<batch, version, digest, registry>>
      PROVE  BatchInv'
  BY <1>1, <1>2 DEF Stops
<1>3. ASSUME NEW p \in Publishers, NEW seen, Check(p, seen) PROVE BatchInv'
  <2>1. CASE Goes(p, "start", "checked")
    <3>1. batch => \A q \in Publishers \ {p} : ~Publishing(q)
      BY <1>3 DEF Check, MayRun
    <3>2. UNCHANGED <<batch, version, digest, registry>>
      BY <1>3 DEF Check
    <3> QED BY <1>0, <2>1, <3>1, <3>2
            DEF Goes, BatchInv, OneAtATime, CheckHolds, Publishing, Live, Local, registry
  <2>2. CASE Stops(p, "start", seen)
    BY <1>2, <1>3, <2>2 DEF Check
  <2> QED BY <1>3, <2>1, <2>2 DEF Check
<1>4. ASSUME NEW p \in Publishers, NEW seen, Recheck(p, seen) PROVE BatchInv'
  <2>0. UNCHANGED <<batch, version, digest, registry>>
    BY <1>4 DEF Recheck
  <2>1. CASE Proceeds(p, seen) /\ Goes(p, "checked", "create")
    <3>1. OneAtATime'
      BY <1>0, <2>0, <2>1 DEF Goes, BatchInv, OneAtATime, Publishing
    <3>2. p \notin Downgraders => \A d \in Live : version[d] < Local(p)
      BY <2>1 DEF Proceeds, Complete, Newer
    <3>3. CheckHolds'
      BY <1>0, <2>0, <2>1, <3>2 DEF Goes, BatchInv, CheckHolds, Live, Local, registry
    <3> QED BY <3>1, <3>3 DEF BatchInv
  <2>2. CASE Stops(p, "checked", seen)
    BY <1>2, <2>0, <2>2
  <2> QED BY <1>4, <2>1, <2>2 DEF Recheck
<1>5. ASSUME NEW p \in Publishers, Create(p) \/ CreateFails(p) PROVE BatchInv'
  <2>1. /\ UNCHANGED <<batch, version, digest>> /\ Publishing(p)
        /\ \E to \in {"deprecate", "done"} : phase' = [phase EXCEPT ![p] = to]
    BY <1>5 DEF Create, CreateFails, Ends, Goes, Publishing
  <2> QED BY <1>0, <2>1, BatchWrites
<1>6. ASSUME NEW p \in Publishers, NEW d, Deprecate(p, d) \/ DeprecateFails(p, d)
      PROVE  BatchInv'
  <2>1. /\ UNCHANGED <<batch, version, digest>> /\ Publishing(p)
        /\ phase' = [phase EXCEPT ![p] = "deprecate"]
    BY <1>0, <1>6 DEF Deprecate, DeprecateFails, Publishing
  <2> QED BY <1>0, <2>1, BatchWrites
<1>7. ASSUME NEW p \in Publishers, SkipUnversioned(p) \/ Succeed(p) \/ Abort(p) PROVE BatchInv'
  <2>1. UNCHANGED <<batch, version, digest, registry>>
    BY <1>7 DEF SkipUnversioned, Succeed, Abort
  <2> QED BY <1>1, <1>7, <2>1 DEF SkipUnversioned, Succeed, Abort
<1>8. ASSUME NEW p \in Publishers, Rerun(p) PROVE BatchInv'
  BY <1>0, <1>8, BatchQuiet DEF Rerun, Goes
<1> QED BY <1>3, <1>4, <1>5, <1>6, <1>7, <1>8 DEF PublishNext

(* For any number of components in a batch, and however reads and writes     *)
(* fail: what is created is newer than every row that is live.               *)
THEOREM BatchPublishesNewer == PublishSpec => PublishesNewer
<1>1. PublishInit => BatchInv
  BY DEF PublishInit, BatchInv, OneAtATime, CheckHolds, Publishing
<1>2. PublishTypeOK /\ BatchInv /\ [PublishNext \/ Done]_publishVars => BatchInv'
  <2>1. BatchInv /\ UNCHANGED publishVars => BatchInv'
    BY DEF BatchInv, OneAtATime, CheckHolds, Publishing, Live, Local, publishVars, registry
  <2> QED BY <2>1, BatchStep DEF Done
<1>3. BatchInv => \A p \in Publishers : batch /\ Creates(p) =>
                    \A d \in Live : version[d] < Local(p)
  BY DEF BatchInv, CheckHolds, Creates
<1> QED BY <1>1, <1>2, <1>3, PublisherTypes, PTL DEF PublishSpec, PublishesNewer
=============================================================================
