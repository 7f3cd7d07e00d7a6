------------------------- MODULE ExecutionTreeProofs -------------------------
(***************************************************************************)
(* A tree of executions is handed out whole, for every tree, every pool of  *)
(* threads and every order in which the requests of a level are answered.   *)
(*                                                                         *)
(* The levels are put together by FlattenSeq, which is recursive: what it   *)
(* computes is shown by contradiction from the least length at which it     *)
(* would not, as every nonempty set of naturals has a least element.        *)
(***************************************************************************)
EXTENDS ExecutionTree, SequenceTheorems, WellFoundedInduction, TLAPS

-----------------------------------------------------------------------------
(* Flattening. *)

(* Every nonempty set of naturals has a least element.                       *)
LEMMA LeastOf ==
  ASSUME NEW T \in SUBSET Nat, T # {}
  PROVE  \E x \in T : \A y \in T : x <= y
<1> DEFINE R == OpToRel(<, Nat)
<1>1. IsWellFoundedOn(R, Nat)
  BY NatLessThanWellFounded, Zenon
<1>2. R = {ss \in Nat \X Nat : ss[1] < ss[2]}
  BY DEF OpToRel
<1> HIDE DEF R
<1>3. PICK x \in T : \A y \in T : <<y, x>> \notin R
  BY <1>1, WFMin
<1>4. \A y \in T : <<y, x>> \in Nat \X Nat
  OBVIOUS
<1>5. \A y \in T : ~(y < x)
  BY <1>2, <1>3
<1> QED BY <1>5

(* How FlattenSeq joins the first n of its sequences, by its recursion.      *)
Joins(f, seqs, n) ==
  \A i \in 1..n : f[i] = IF i = 1 THEN seqs[i] ELSE f[i-1] \o seqs[i]

LEMMA JoinsExist ==
  ASSUME NEW seqs, NEW n \in Nat
  PROVE  \E f : Joins(f, seqs, n)
<1> DEFINE Bad == {k \in Nat : ~\E f : Joins(f, seqs, k)}
<1> SUFFICES ASSUME Bad # {} PROVE FALSE
  OBVIOUS
<1>1. PICK k \in Bad : \A j \in Bad : k <= j
  BY LeastOf
<1>2. k \in Nat /\ k # 0
  <2>1. Joins(<<>>, seqs, 0)
    BY DEF Joins
  <2> QED BY <2>1
<1>3. PICK f : Joins(f, seqs, k - 1)
  BY <1>1, <1>2
<1> DEFINE g == [i \in 1..k |-> IF i = k
                                  THEN IF k = 1 THEN seqs[k] ELSE f[k-1] \o seqs[k]
                                  ELSE f[i]]
<1>4. ASSUME NEW i \in 1..k
      PROVE  g[i] = IF i = 1 THEN seqs[i] ELSE g[i-1] \o seqs[i]
  <2>1. CASE i = k
    BY <1>2, <2>1
  <2>2. CASE i # k
    <3>1. i \in 1..(k-1)
      BY <1>2, <2>2
    <3>2. f[i] = IF i = 1 THEN seqs[i] ELSE f[i-1] \o seqs[i]
      BY <1>3, <3>1 DEF Joins
    <3>3. g[i] = f[i] /\ (i # 1 => g[i-1] = f[i-1])
      BY <1>2, <3>1
    <3> QED BY <3>2, <3>3
  <2> QED BY <2>1, <2>2
<1>5. Joins(g, seqs, k)
  BY <1>4 DEF Joins
<1> QED BY <1>1, <1>5

LEMMA FlattenJoins ==
  ASSUME NEW seqs, Len(seqs) \in Nat \ {0}
  PROVE  \E f : Joins(f, seqs, Len(seqs)) /\ FlattenSeq(seqs) = f[Len(seqs)]
<1> DEFINE n == Len(seqs)
           F == CHOOSE f : f = [i \in 1..n |-> IF i = 1 THEN seqs[i] ELSE f[i-1] \o seqs[i]]
<1>1. PICK f : Joins(f, seqs, n)
  BY JoinsExist
<1>2. \E g : g = [i \in 1..n |-> IF i = 1 THEN seqs[i] ELSE g[i-1] \o seqs[i]]
  <2> DEFINE g == [i \in 1..n |-> f[i]]
  <2>1. g = [i \in 1..n |-> IF i = 1 THEN seqs[i] ELSE g[i-1] \o seqs[i]]
    BY <1>1 DEF Joins
  <2> QED BY <2>1
<1>3. F = [i \in 1..n |-> IF i = 1 THEN seqs[i] ELSE F[i-1] \o seqs[i]]
  BY <1>2
<1>4. FlattenSeq(seqs) = F[n]
  BY DEF FlattenSeq
<1> HIDE DEF F
<1>5. Joins(F, seqs, n)
  BY <1>3 DEF Joins
<1> QED BY <1>4, <1>5

LEMMA RangeOfJoin ==
  ASSUME NEW S, NEW a \in Seq(S), NEW b \in Seq(S)
  PROVE  a \o b \in Seq(S) /\ ToSet(a \o b) = ToSet(a) \cup ToSet(b)
<1>1. /\ a \o b \in Seq(S)
      /\ DOMAIN (a \o b) = 1..(Len(a) + Len(b))
      /\ Len(a) \in Nat /\ Len(b) \in Nat
      /\ DOMAIN a = 1..Len(a) /\ DOMAIN b = 1..Len(b)
  BY ConcatProperties, LenProperties
<1>2. /\ \A i \in DOMAIN a : (a \o b)[i] = a[i]
      /\ \A i \in DOMAIN b : (a \o b)[Len(a) + i] = b[i]
      /\ \A i \in 1..(Len(a) + Len(b)) : i \notin DOMAIN a => i - Len(a) \in DOMAIN b
  BY <1>1
<1>3. ASSUME NEW i \in DOMAIN (a \o b)
      PROVE  (a \o b)[i] \in ToSet(a) \cup ToSet(b)
  <2>1. CASE i \in DOMAIN a
    BY <1>2, <2>1 DEF ToSet
  <2>2. CASE i \notin DOMAIN a
    <3>1. i - Len(a) \in DOMAIN b /\ i = Len(a) + (i - Len(a))
      BY <1>1, <1>2, <2>2
    <3> QED BY <1>2, <3>1 DEF ToSet
  <2> QED BY <2>1, <2>2
<1>4. /\ \A i \in DOMAIN a : i \in DOMAIN (a \o b)
      /\ \A i \in DOMAIN b : Len(a) + i \in DOMAIN (a \o b)
  BY <1>1
<1> QED BY <1>1, <1>2, <1>3, <1>4 DEF ToSet

(* Flattening sequences of S gives a sequence of S, of exactly their         *)
(* elements.                                                                 *)
LEMMA FlattenRange ==
  ASSUME NEW S, NEW seqs \in Seq(Seq(S))
  PROVE  /\ FlattenSeq(seqs) \in Seq(S)
         /\ \A i \in DOMAIN seqs : ToSet(seqs[i]) \subseteq ToSet(FlattenSeq(seqs))
         /\ \A x \in ToSet(FlattenSeq(seqs)) : \E i \in DOMAIN seqs : x \in ToSet(seqs[i])
<1>0. Len(seqs) \in Nat /\ DOMAIN seqs = 1..Len(seqs) /\ \A i \in DOMAIN seqs : seqs[i] \in Seq(S)
  BY LenProperties
<1>1. CASE Len(seqs) = 0
  <2>1. seqs = <<>> /\ FlattenSeq(seqs) = <<>>
    BY <1>0, <1>1, EmptySeq DEF FlattenSeq
  <2>2. FlattenSeq(seqs) \in Seq(S) /\ ToSet(FlattenSeq(seqs)) = {} /\ DOMAIN seqs = {}
    <3>1. DOMAIN seqs = {}
      BY <1>0, <1>1
    <3>2. <<>> \in Seq(S)
      BY EmptySeq
    <3> QED BY <2>1, <3>1, <3>2, Zenon DEF ToSet
  <2> QED BY <2>2, Zenon
<1>2. CASE Len(seqs) # 0
  <2>1. PICK f : Joins(f, seqs, Len(seqs)) /\ FlattenSeq(seqs) = f[Len(seqs)]
    BY <1>0, <1>2, FlattenJoins
  <2> DEFINE Good(k) == /\ f[k] \in Seq(S)
                        /\ \A i \in 1..k : ToSet(seqs[i]) \subseteq ToSet(f[k])
                        /\ \A x \in ToSet(f[k]) : \E i \in 1..k : x \in ToSet(seqs[i])
             Bad == {k \in 1..Len(seqs) : ~Good(k)}
  <2>2. ASSUME Bad # {} PROVE FALSE
    <3>0. Bad \in SUBSET Nat
      BY <1>0
    <3>1. PICK k \in Bad : \A j \in Bad : k <= j
      <4> HIDE DEF Bad
      <4> QED BY <2>2, <3>0, LeastOf
    <3>2. k \in 1..Len(seqs) /\ seqs[k] \in Seq(S)
      BY <1>0, <3>1
    <3>3. CASE k = 1
      <4>1. f[k] = seqs[k]
        BY <1>0, <2>1, <3>2, <3>3 DEF Joins
      <4>2. 1..k = {k}
        BY <3>3
      <4> QED BY <3>1, <3>2, <4>1, <4>2
    <3>4. CASE k # 1
      <4>1. k-1 \in 1..Len(seqs) /\ ~(k <= k-1)
        BY <1>0, <3>2, <3>4
      <4>2. Good(k-1)
        BY <3>1, <4>1
      <4>3. f[k] = f[k-1] \o seqs[k]
        BY <1>0, <2>1, <3>2, <3>4 DEF Joins
      <4>4. f[k] \in Seq(S) /\ ToSet(f[k]) = ToSet(f[k-1]) \cup ToSet(seqs[k])
        BY <3>2, <4>2, <4>3, RangeOfJoin
      <4>5. 1..k = 1..(k-1) \cup {k}
        BY <1>0, <3>2
      <4>6. Good(k)
        BY <4>2, <4>4, <4>5
      <4> QED BY <3>1, <4>6
    <3> QED BY <3>3, <3>4
  <2>3. Good(Len(seqs))
    <3>1. Len(seqs) \in 1..Len(seqs)
      BY <1>0, <1>2
    <3> QED BY <2>2, <3>1, Zenon
  <2> QED BY <1>0, <2>1, <2>3
<1> QED BY <1>1, <1>2

-----------------------------------------------------------------------------
(* The levels. *)

Entries == [id : Ids, parent : Ids \cup {"none"}]
Kept == [details : Ids, parent : Ids \cup {"none"}]

LevelIds == {level[i].id : i \in DOMAIN level}

TreeTyped ==
  /\ tree \in [Ids -> Seq(Ids)]
  /\ step \in {"run", "level", "fetch", "drain", "done", "raised"}
  /\ Fetched \subseteq Ids /\ nodes \in [Fetched -> Kept]
  /\ level \in Seq(Entries)
  /\ started \in Nat /\ collected \in Nat /\ landed \in Seq(Nat)

(* The children of all that is fetched are fetched, or are in the level: so  *)
(* when nothing of a level is left, nothing of the tree is.                  *)
Covered == \A x \in Fetched : \A c \in DOMAIN tree[x] :
             tree[x][c] \in Fetched \cup LevelIds

(* An execution is kept with the response to its own request, and with a     *)
(* parent that was fetched, and given to the persist hook, before it.        *)
Owned == /\ persisted = Fetched
         /\ \A x \in Fetched : /\ nodes[x].details = x
                               /\ x # Root => nodes[x].parent \in Fetched

Descend == \A i \in DOMAIN level : level[i].id # Root => level[i].parent \in Fetched

(* The root comes first.                                                     *)
RootFirst == /\ Fetched # {} => Root \in Fetched
             /\ step \in {"level", "fetch", "drain"} => Root \in Fetched \cup LevelIds
             /\ step = "done" => LevelIds \subseteq Fetched

(* Only while a level is fetched, or after a failure, are requests under way. *)
Pooled == /\ step \notin {"fetch", "drain"} => Flying = {}
          /\ step = "run" => level = <<>>
          /\ step = "fetch" => /\ started <= Len(level)
                              /\ 1..collected \subseteq ToSet(landed)

TreeInv == TreeTyped /\ Covered /\ Owned /\ Descend /\ RootFirst /\ Pooled

LEMMA TreeInvInit == ASSUME TreeInit PROVE TreeInv
<1>1. DOMAIN nodes = {} /\ nodes \in [{} -> Kept]
  BY DEF TreeInit, NoNodes
<1>2. /\ tree \in [Ids -> Seq(Ids)] /\ step = "run" /\ level = <<>> /\ persisted = {}
      /\ started = 0 /\ collected = 0 /\ landed = <<>>
  BY TreeConstantsOK DEF TreeInit, TreeConstantsOK
<1>3. <<>> \in Seq(Entries) /\ <<>> \in Seq(Nat) /\ DOMAIN <<>> = {}
  BY EmptySeq
<1>4. Flying = {}
  BY <1>2 DEF Flying
<1> QED BY <1>1, <1>2, <1>3, <1>4 DEF TreeInv, TreeTyped, Covered, Owned, Descend, RootFirst,
           Pooled, Fetched

(* What only depends on the executions fetched and the level to fetch.       *)
Shape == Covered /\ Owned /\ Descend

LEMMA ShapeKept ==
  ASSUME Shape, UNCHANGED <<tree, nodes, level, persisted>> PROVE Shape'
BY DEF Shape, Covered, Owned, Descend, Fetched, LevelIds

LEMMA FindRootInv == ASSUME TreeInv, FindRoot PROVE TreeInv'
<1>1. /\ UNCHANGED <<tree, nodes, started, landed, collected, persisted>>
      /\ level = <<>> /\ Flying = {} /\ Flying' = {}
  BY DEF FindRoot, TreeInv, Pooled, Flying
<1>2. Root \in Ids
  BY TreeConstantsOK DEF TreeConstantsOK
<1>3. CASE step' = "level" /\ level' = <<[id |-> Root, parent |-> "none"]>>
  <2>1. /\ level' \in Seq(Entries) /\ DOMAIN level' = {1} /\ level'[1].id = Root
        /\ LevelIds' = {Root} /\ LevelIds = {}
    BY <1>1, <1>2, <1>3 DEF Entries, LevelIds
  <2> QED BY <1>1, <1>3, <2>1 DEF TreeInv, TreeTyped, Covered, Owned, Descend, RootFirst,
             Pooled, Fetched
<1>4. CASE step' \in {"done", "raised"} /\ level' = level
  <2>1. LevelIds = {} /\ LevelIds' = {}
    BY <1>1, <1>4 DEF LevelIds
  <2> QED BY <1>1, <1>4, <2>1 DEF TreeInv, TreeTyped, Covered, Owned, Descend, RootFirst,
             Pooled, Fetched
<1> QED BY <1>3, <1>4 DEF FindRoot

(* The frontier is what of the level is not fetched.                         *)
LEMMA FrontierIs ==
  ASSUME TreeInv
  PROVE  /\ Frontier \in Seq(Entries)
         /\ \A i \in DOMAIN level : level[i].id \notin Fetched =>
              \E j \in DOMAIN Frontier : Frontier[j] = level[i]
         /\ \A j \in DOMAIN Frontier : \E i \in DOMAIN level : Frontier[j] = level[i]
<1> DEFINE pieces == [i \in DOMAIN level |->
                       IF level[i].id \in Fetched THEN <<>> ELSE <<level[i]>>]
<1>0. level \in Seq(Entries) /\ DOMAIN level = 1..Len(level) /\ Len(level) \in Nat
  BY LenProperties DEF TreeInv, TreeTyped
<1>1. \A i \in DOMAIN level : pieces[i] \in Seq(Entries)
  BY <1>0, EmptySeq
<1>2. pieces \in Seq(Seq(Entries)) /\ DOMAIN pieces = DOMAIN level
  BY <1>0, <1>1, SeqDef
<1>3. /\ Frontier \in Seq(Entries)
      /\ \A i \in DOMAIN level : ToSet(pieces[i]) \subseteq ToSet(Frontier)
      /\ \A x \in ToSet(Frontier) : \E i \in DOMAIN level : x \in ToSet(pieces[i])
  <2> HIDE DEF pieces
  <2>1. /\ FlattenSeq(pieces) \in Seq(Entries)
        /\ \A i \in DOMAIN level : ToSet(pieces[i]) \subseteq ToSet(FlattenSeq(pieces))
        /\ \A x \in ToSet(FlattenSeq(pieces)) : \E i \in DOMAIN level : x \in ToSet(pieces[i])
    BY <1>2, FlattenRange
  <2> QED BY <2>1 DEF Frontier, pieces
<1>4. \A i \in DOMAIN level :
        /\ level[i].id \notin Fetched => level[i] \in ToSet(pieces[i])
        /\ \A x \in ToSet(pieces[i]) : x = level[i]
  BY DEF ToSet
<1> HIDE DEF pieces
<1>5. \A x : x \in ToSet(Frontier) <=> \E j \in DOMAIN Frontier : Frontier[j] = x
  BY Zenon DEF ToSet
<1>6. ASSUME NEW i \in DOMAIN level, level[i].id \notin Fetched
      PROVE  \E j \in DOMAIN Frontier : Frontier[j] = level[i]
  <2>1. level[i] \in ToSet(Frontier)
    BY <1>3, <1>4, <1>6
  <2> QED BY <1>5, <2>1
<1>7. ASSUME NEW j \in DOMAIN Frontier
      PROVE  \E i \in DOMAIN level : Frontier[j] = level[i]
  <2>1. Frontier[j] \in ToSet(Frontier)
    BY <1>5
  <2> QED BY <1>3, <1>4, <2>1
<1> QED BY <1>3, <1>6, <1>7

LEMMA BeginLevelInv == ASSUME TreeInv, BeginLevel PROVE TreeInv'
<1>1. /\ UNCHANGED <<tree, nodes, persisted>> /\ step = "level" /\ Flying = {}
  BY DEF BeginLevel, TreeInv, Pooled
<1>2. CASE Frontier = <<>> /\ step' = "done" /\ UNCHANGED fetching
  <2>1. LevelIds \subseteq Fetched
    BY <1>2, FrontierIs DEF LevelIds
  <2>2. Flying' = {} /\ LevelIds' = LevelIds /\ Fetched' = Fetched
    BY <1>1, <1>2 DEF fetching, Flying, LevelIds, Fetched
  <2>3. Shape'
    BY <1>1, <1>2, ShapeKept DEF Shape, TreeInv, fetching
  <2> QED BY <1>1, <1>2, <2>1, <2>2, <2>3
          DEF TreeInv, TreeTyped, RootFirst, Pooled, Shape, fetching
<1>3. CASE /\ step' = "fetch" /\ level' = Frontier
           /\ started' = 0 /\ landed' = <<>> /\ failed' = {} /\ collected' = 0
  <2>1. /\ level' \in Seq(Entries) /\ Fetched' = Fetched /\ Len(level') \in Nat
        /\ <<>> \in Seq(Nat) /\ 1..0 = {}
    BY <1>1, <1>3, FrontierIs, EmptySeq, LenProperties DEF Fetched
  <2>2. LevelIds \subseteq Fetched \cup LevelIds'
    BY <1>3, FrontierIs DEF LevelIds
  <2>3. Descend'
    BY <1>3, <2>1, FrontierIs DEF TreeInv, Descend
  <2>4. Covered' /\ Owned' /\ RootFirst'
    BY <1>1, <1>3, <2>1, <2>2 DEF TreeInv, Covered, Owned, RootFirst
  <2>5. TreeTyped' /\ Pooled'
    BY <1>1, <1>3, <2>1 DEF TreeInv, TreeTyped, Pooled
  <2> QED BY <2>3, <2>4, <2>5 DEF TreeInv
<1> QED BY <1>2, <1>3 DEF BeginLevel

(* The pool.                                                                 *)
LEMMA PoolInv ==
  ASSUME TreeInv,
         Start \/ (\E i \in Flying : Land(i)) \/ Collect \/ CollectFailure \/ LeavePool
  PROVE  TreeInv'
<1>1. UNCHANGED <<tree, nodes, level, persisted>>
  BY DEF Start, Land, Collect, CollectFailure, LeavePool, fetching
<1>2. Shape' /\ LevelIds' = LevelIds /\ Fetched' = Fetched
  BY <1>1, ShapeKept DEF TreeInv, Shape, LevelIds, Fetched
<1>3. CASE Start
  <2>1. step = "fetch" /\ step' = step /\ started' = started + 1 /\ started < Len(level)
        /\ UNCHANGED <<landed, collected>> /\ Len(level) \in Nat
    BY <1>3, LenProperties DEF Start, TreeInv, TreeTyped
  <2> QED BY <1>1, <1>2, <2>1 DEF TreeInv, TreeTyped, RootFirst, Pooled, Shape
<1>4. ASSUME NEW i \in Flying, Land(i) PROVE TreeInv'
  <2>1. step \in {"fetch", "drain"} /\ i \in Nat /\ landed' = Append(landed, i)
        /\ UNCHANGED <<step, started, collected>>
    BY <1>4 DEF Land, TreeInv, TreeTyped, Pooled, Flying
  <2>2. landed' \in Seq(Nat) /\ ToSet(landed) \subseteq ToSet(landed')
    <3>1. landed \in Seq(Nat) /\ DOMAIN landed = 1..Len(landed) /\ Len(landed) \in Nat
      BY LenProperties DEF TreeInv, TreeTyped
    <3>2. landed' \in Seq(Nat) /\ DOMAIN landed' = 1..(Len(landed) + 1)
      BY <2>1, <3>1
    <3>3. \A j \in DOMAIN landed : j \in DOMAIN landed' /\ landed'[j] = landed[j]
      BY <2>1, <3>1, <3>2
    <3> QED BY <3>2, <3>3 DEF ToSet
  <2> QED BY <1>1, <1>2, <2>1, <2>2 DEF TreeInv, TreeTyped, RootFirst, Pooled, Shape
<1>5. CASE Collect
  <2>1. step = "fetch" /\ step' = step /\ collected' = collected + 1
        /\ collected + 1 \in ToSet(landed) /\ UNCHANGED <<landed, started>>
    BY <1>5 DEF Collect
  <2>2. collected \in Nat /\ 1..collected' = 1..collected \cup {collected + 1}
    BY <2>1 DEF TreeInv, TreeTyped
  <2> QED BY <1>1, <1>2, <2>1, <2>2 DEF TreeInv, TreeTyped, RootFirst, Pooled, Shape
<1>6. CASE CollectFailure \/ LeavePool
  <2>1. /\ UNCHANGED <<started, landed, collected>>
        /\ \/ step = "fetch" /\ step' = "drain"
           \/ step' = "raised" /\ Flying = {}
    BY <1>6 DEF CollectFailure, LeavePool, Idle, fetching
  <2>2. Flying' = Flying
    BY <2>1 DEF Flying
  <2> QED BY <1>1, <1>2, <2>1, <2>2 DEF TreeInv, TreeTyped, RootFirst, Pooled, Shape
<1> QED BY <1>3, <1>4, <1>5, <1>6

(* The last entry of an id is one of the level's.                            *)
LEMMA LastOfIs ==
  ASSUME level \in Seq(Entries), NEW x \in LevelIds
  PROVE  LastOf(x) \in DOMAIN level /\ level[LastOf(x)].id = x
<1> DEFINE n == Len(level)
           From == {k \in 0..n : \E i \in DOMAIN level : level[i].id = x /\ k = n - i}
<1>0. n \in Nat /\ DOMAIN level = 1..n
  BY LenProperties
<1>1. From \in SUBSET Nat /\ From # {}
  <2>1. PICK i \in DOMAIN level : level[i].id = x
    BY DEF LevelIds
  <2>2. n - i \in From
    BY <1>0, <2>1
  <2> QED BY <1>0, <2>2
<1>2. PICK k \in From : \A m \in From : k <= m
  <2> HIDE DEF From
  <2> QED BY <1>1, LeastOf
<1>3. PICK i \in DOMAIN level : level[i].id = x /\ k = n - i
  BY <1>2
<1>4. ASSUME NEW j \in DOMAIN level, level[j].id = x PROVE j <= i
  <2>1. n - j \in From
    BY <1>0, <1>4
  <2> QED BY <1>0, <1>2, <1>3, <2>1
<1>5. \E m \in DOMAIN level : level[m].id = x /\ \A j \in DOMAIN level : level[j].id = x => j <= m
  BY <1>3, <1>4
<1> QED BY <1>5 DEF LastOf

(* The next level: the children of all of this one, and nothing else.        *)
LEMMA NextLevelIs ==
  ASSUME TreeInv, CloseLevel
  PROVE  /\ level' \in Seq(Entries)
         /\ \A i \in DOMAIN level : \A c \in DOMAIN tree[level[i].id] :
              tree[level[i].id][c] \in LevelIds'
         /\ \A j \in DOMAIN level' : level'[j].parent \in LevelIds
<1> DEFINE pieces == [i \in DOMAIN level |-> ChildrenOf(level[i])]
<1>0. /\ level \in Seq(Entries) /\ DOMAIN level = 1..Len(level) /\ Len(level) \in Nat
      /\ \A i \in DOMAIN level : level[i].id \in Ids
  <2>1. level \in Seq(Entries) /\ DOMAIN level = 1..Len(level) /\ Len(level) \in Nat
    BY LenProperties DEF TreeInv, TreeTyped
  <2>2. \A i \in DOMAIN level : level[i] \in Entries
    BY <2>1, ElementOfSeq
  <2> QED BY <2>1, <2>2 DEF Entries
<1>1. ASSUME NEW i \in DOMAIN level
      PROVE  /\ pieces[i] \in Seq(Entries)
             /\ \A c \in DOMAIN tree[level[i].id] : /\ c \in DOMAIN pieces[i]
                                                     /\ pieces[i][c].id = tree[level[i].id][c]
             /\ \A e \in ToSet(pieces[i]) : e.parent = level[i].id
  <2> DEFINE children == tree[level[i].id]
  <2>1. children \in Seq(Ids) /\ Len(children) \in Nat /\ DOMAIN children = 1..Len(children)
    BY <1>0, LenProperties DEF TreeInv, TreeTyped
  <2>2. pieces[i] = [c \in DOMAIN children |-> [id |-> children[c], parent |-> level[i].id]]
    BY DEF ChildrenOf
  <2>3. \A c \in DOMAIN children : children[c] \in Ids
    BY <2>1, ElementOfSeq
  <2> HIDE DEF children, pieces
  <2>4. pieces[i] \in [1..Len(children) -> Entries]
    BY <1>0, <2>1, <2>2, <2>3 DEF Entries
  <2>5. pieces[i] \in Seq(Entries)
    BY <2>1, <2>4, SeqDef
  <2> QED BY <2>2, <2>5 DEF ToSet, children
<1>2. pieces \in Seq(Seq(Entries)) /\ DOMAIN pieces = DOMAIN level
  BY <1>0, <1>1, SeqDef
<1>3. level' = FlattenSeq(pieces)
  BY DEF CloseLevel
<1> HIDE DEF pieces
<1>4. /\ level' \in Seq(Entries)
      /\ \A i \in DOMAIN level : ToSet(pieces[i]) \subseteq ToSet(level')
      /\ \A e \in ToSet(level') : \E i \in DOMAIN level : e \in ToSet(pieces[i])
  BY <1>2, <1>3, FlattenRange
<1>5. ASSUME NEW i \in DOMAIN level, NEW c \in DOMAIN tree[level[i].id]
      PROVE  tree[level[i].id][c] \in LevelIds'
  <2>1. pieces[i][c] \in ToSet(level') /\ pieces[i][c].id = tree[level[i].id][c]
    BY <1>1, <1>4 DEF ToSet
  <2>2. PICK j \in DOMAIN level' : level'[j] = pieces[i][c]
    BY <2>1 DEF ToSet
  <2> QED BY <2>1, <2>2 DEF LevelIds
<1>6. ASSUME NEW j \in DOMAIN level' PROVE level'[j].parent \in LevelIds
  <2>1. level'[j] \in ToSet(level')
    BY DEF ToSet
  <2> QED BY <1>1, <1>4, <2>1 DEF LevelIds
<1> QED BY <1>4, <1>5, <1>6

LEMMA CloseLevelInv == ASSUME TreeInv, CloseLevel PROVE TreeInv'
<1> DEFINE new(x) == [details |-> ResponseTo(LastOf(x)), parent |-> level[LastOf(x)].parent]
<1>1. /\ step = "fetch" /\ step' = "level" /\ collected = Len(level)
      /\ UNCHANGED <<tree, started, landed, collected>>
      /\ persisted' = persisted \cup LevelIds
      /\ nodes' = [x \in Fetched \cup LevelIds |-> IF x \in Fetched THEN nodes[x] ELSE new(x)]
  BY DEF CloseLevel, LevelIds
<1>2. \A i \in DOMAIN level : level[i] \in Entries
  BY ElementOfSeq, LenProperties DEF TreeInv, TreeTyped
<1>3. ASSUME NEW x \in LevelIds
      PROVE  /\ x \in Ids /\ new(x) \in Kept /\ new(x).details = x
             /\ x # Root => new(x).parent \in Fetched
  <2>1. LastOf(x) \in DOMAIN level /\ level[LastOf(x)].id = x
    BY LastOfIs DEF TreeInv, TreeTyped
  <2> QED BY <1>2, <2>1 DEF ResponseTo, Entries, Kept, TreeInv, Descend
<1>4. Fetched' = Fetched \cup LevelIds
  BY <1>1 DEF Fetched
<1> HIDE DEF new
<1>5. /\ nodes' \in [Fetched' -> Kept] /\ Fetched' \subseteq Ids
      /\ \A x \in Fetched : nodes'[x] = nodes[x]
      /\ \A x \in Fetched' : x \notin Fetched => nodes'[x] = new(x)
  BY <1>1, <1>3, <1>4 DEF TreeInv, TreeTyped
<1>6. TreeTyped'
  BY <1>1, <1>5, NextLevelIs DEF TreeInv, TreeTyped
<1>7. Covered'
  <2>1. ASSUME NEW x \in Fetched', NEW c \in DOMAIN tree[x]
        PROVE  tree[x][c] \in Fetched' \cup LevelIds'
    <3>1. CASE x \in Fetched
      BY <1>4, <2>1, <3>1 DEF TreeInv, Covered
    <3>2. CASE x \in LevelIds
      BY <2>1, <3>2, NextLevelIs DEF LevelIds
    <3> QED BY <1>4, <3>1, <3>2
  <2> QED BY <1>1, <2>1 DEF Covered
<1>8. Owned'
  BY <1>1, <1>3, <1>4, <1>5 DEF TreeInv, Owned
<1>9. Descend' /\ RootFirst'
  BY <1>1, <1>4, NextLevelIs DEF TreeInv, Descend, RootFirst
<1>10. Pooled'
  <2>1. started <= Len(level) /\ 1..Len(level) \subseteq ToSet(landed) /\ Len(level) \in Nat
    BY <1>1, LenProperties DEF TreeInv, TreeTyped, Pooled
  <2>2. Flying = {}
    BY <2>1 DEF Flying, TreeInv, TreeTyped
  <2>3. Flying' = {}
    BY <1>1, <2>2 DEF Flying
  <2> QED BY <1>1, <2>3 DEF Pooled
<1> QED BY <1>6, <1>7, <1>8, <1>9, <1>10 DEF TreeInv

LEMMA TreeStep == ASSUME TreeInv, [TreeNext]_treeVars PROVE TreeInv'
<1>1. CASE UNCHANGED treeVars
  <2>1. UNCHANGED <<tree, step, nodes, level, started, landed, collected, persisted>>
    BY <1>1 DEF treeVars, fetching
  <2>2. Shape' /\ LevelIds' = LevelIds /\ Fetched' = Fetched /\ Flying' = Flying
    BY <2>1, ShapeKept DEF TreeInv, Shape, LevelIds, Fetched, Flying
  <2> QED BY <2>1, <2>2 DEF TreeInv, TreeTyped, RootFirst, Pooled, Shape
<1>2. CASE FetchStep
  BY <1>2, FindRootInv, BeginLevelInv, PoolInv, CloseLevelInv DEF FetchStep
<1> QED BY <1>1, <1>2 DEF TreeNext

(* For every tree of executions, every number of threads and every order in  *)
(* which the requests of its levels are answered or fail: a tree handed out  *)
(* has every execution under the root, each task is given its own child's    *)
(* details, parents are persisted before their children, and no request is   *)
(* under way when the call is over.                                          *)
THEOREM TreesAreWhole == TreeSpec => []TreeIsExact
<1>1. TreeInit => TreeInv
  BY TreeInvInit
<1>2. TreeInv /\ [TreeNext]_treeVars => TreeInv'
  BY TreeStep
<1>3. TreeInv => TreeIsExact
  <2> SUFFICES ASSUME TreeInv PROVE TreeIsExact
    OBVIOUS
  <2>1. Whole
    <3> SUFFICES ASSUME step = "done", nodes # NoNodes PROVE Whole
      BY DEF Whole
    <3>1. Fetched # {}
      <4>1. nodes = [x \in Fetched |-> nodes[x]]
        BY DEF TreeInv, TreeTyped
      <4> QED BY <4>1 DEF NoNodes
    <3> QED BY <3>1 DEF Whole, ContextOf, TreeInv, Covered, Owned, RootFirst
  <2>2. PersistedInOrder
    BY DEF PersistedInOrder, TreeInv, Owned
  <2>3. TreeOver => Flying = {}
    BY DEF TreeOver, TreeInv, Pooled
  <2> QED BY <2>1, <2>2, <2>3 DEF TreeIsExact
<1> QED BY <1>1, <1>2, <1>3, PTL DEF TreeSpec
=============================================================================
