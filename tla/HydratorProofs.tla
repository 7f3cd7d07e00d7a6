--------------------------- MODULE HydratorProofs ---------------------------
(***************************************************************************)
(* What Hydrator guarantees for every set of pipelines and components, also *)
(* when they contain each other: a component out of the cache is the one    *)
(* that a fresh look-up where the task stands would give, and of several    *)
(* references the best is taken.                                            *)
(***************************************************************************)
EXTENDS Hydrator, TLAPS

USE ConstantsOK, PathsOK, InlineOK

-----------------------------------------------------------------------------
(* Parameters. *)

LEMMA ContextFacts ==
  ASSUME NEW f \in Contexts
  PROVE  /\ DOMAIN f \in SUBSET Params
         /\ f \in [DOMAIN f -> Values]
         /\ f = Empty <=> DOMAIN f = {}
<1>1. PICK P \in SUBSET Params : f \in [P -> Values]
  BY DEF Contexts
<1>2. f = Empty <=> DOMAIN f = {}
  BY <1>1 DEF Empty
<1> QED BY <1>1, <1>2

LEMMA EmptyContext == Empty \in Contexts
<1>1. Empty \in [{} -> Values]
  BY DEF Empty
<1> QED BY <1>1 DEF Contexts

LEMMA OverContext ==
  ASSUME NEW f \in Contexts, NEW g \in Contexts
  PROVE  /\ Over(f, g) \in Contexts
         /\ f # Empty \/ g # Empty => Over(f, g) # Empty
<1>1. /\ DOMAIN f \in SUBSET Params /\ f \in [DOMAIN f -> Values]
      /\ DOMAIN g \in SUBSET Params /\ g \in [DOMAIN g -> Values]
  BY ContextFacts
<1> DEFINE D == DOMAIN f \cup DOMAIN g
<1>2. Over(f, g) \in [D -> Values] /\ DOMAIN Over(f, g) = D
  BY <1>1 DEF Over
<1>3. Over(f, g) \in Contexts
  BY <1>1, <1>2 DEF Contexts
<1>4. f # Empty \/ g # Empty => D # {}
  BY ContextFacts
<1> QED BY <1>2, <1>3, <1>4, ContextFacts

\* Parameters merged under a template are parameters again, and not none.
LEMMA MergeContext ==
  ASSUME NEW f \in Contexts, NEW g \in Contexts
  PROVE  Merge(f, g) \in Contexts /\ (g # Empty => Merge(f, g) # Empty)
BY OverContext DEF Merge

-----------------------------------------------------------------------------
(* Loading. *)

LEMMA LoadType ==
  ASSUME NEW r \in Refs, NEW b \in Bases, NEW p \in Contexts
  PROVE  /\ Load(r, b, p) \in Specs
         /\ Load(r, b, p).doc = Means[r][b]
         /\ Load(r, b, p).sourceDir = Dir[Means[r][b]]
         /\ Load(r, b, p).recursiveParams =
              IF Merges(Means[r][b], p) THEN Merge(Own[Means[r][b]], p) ELSE Empty
<1> DEFINE d == Means[r][b]
<1>1. d \in Docs /\ Dir[d] \in Bases /\ Own[d] \in Contexts
  OBVIOUS
<1>2. Merge(Own[d], p) \in Contexts /\ Empty \in Contexts
  BY <1>1, MergeContext, EmptyContext
<1> QED BY <1>1, <1>2 DEF Load, Specs

\* The cache key holds all that the result of loading depends on.
LEMMA KeyIsEnough ==
  ASSUME NEW r \in Refs, NEW b \in Bases, NEW p \in Contexts
  PROVE  LET k == CacheKey(r, b, p) IN
         /\ k \in Keys /\ k.ref = r
         /\ Load(r, b, p) = Load(k.ref, k.base, k.context)
<1> DEFINE k == CacheKey(r, b, p)
<1>1. k \in Keys /\ k.ref = r
  BY EmptyContext DEF CacheKey, Keys, Bases
<1>2. Means[r][k.base] = Means[r][b]
  <2>1. CASE DependsOnBase(r)
    BY <2>1 DEF CacheKey
  <2>2. CASE ~DependsOnBase(r)
    <3>1. r.scheme = "http" \/ r.type # "url" \/ r.absolute
      BY <2>2 DEF DependsOnBase, Schemes
    <3>2. k.base = NoDir /\ NoDir \in Bases
      BY <2>2 DEF CacheKey, Bases
    <3> QED BY <3>1, <3>2
  <2> QED BY <2>1, <2>2
<1>3. \A d : Merges(d, k.context) <=> Merges(d, p)
  BY DEF Merges, CacheKey
<1>4. \A d : Merges(d, p) => k.context = p
  BY DEF Merges, CacheKey
<1> QED BY <1>1, <1>2, <1>3, <1>4 DEF Load

-----------------------------------------------------------------------------
(* The invariant: an entry of the cache is what loading under its key gives, *)
(* the candidates are what loading where the task stands gives, and the best *)
(* is one of them that none of them surpasses.                               *)

CacheCoherent == \A k \in DOMAIN cache : cache[k] = Load(k.ref, k.base, k.context)

CandidatesFresh ==
  \A c \in resolved : stack # <<>> /\ c.spec = Load(c.ref, Top.base, Top.params)

NotSurpassed(b, over) == \A c \in over : AsGood(b, c)

BestIsBest == IF best = NoPick THEN resolved = {}
              ELSE best \in resolved /\ NotSurpassed(best, resolved)

IInv == /\ TypeOK /\ CacheCoherent /\ CandidatesFresh /\ BestIsBest
        /\ GivenIsFresh /\ FramesInContext /\ BestOfResolved

\* The current task and its graph.
LEMMA TopFacts ==
  ASSUME TypeOK, stack # <<>>
  PROVE  /\ Len(stack) \in 1..MaxDepth /\ Top = stack[Len(stack)]
         /\ Top \in Frames
         /\ Top.doc \in Docs /\ Top.at \in Nat \ {0} /\ Top.base \in Bases
         /\ Top.params \in Contexts
         /\ AtTask => /\ Task \in TaskKinds /\ Task.inline \in Docs \cup {NoDoc}
                      /\ Task.refs \in Seq(Refs)
                      /\ Task.inline # NoDoc => Dir[Task.inline] = NoDir
<1>1. Len(stack) \in 1..MaxDepth
  BY DEF TypeOK
<1>2. Top \in Frames
  BY <1>1 DEF TypeOK, Top
<1>3. /\ Top.doc \in Docs /\ Top.at \in Nat \ {0} /\ Top.base \in Bases
      /\ Top.params \in Contexts
  BY <1>2 DEF Frames
<1>4. ASSUME AtTask
      PROVE  /\ Task \in TaskKinds /\ Top.at \in DOMAIN Tasks[Top.doc]
  <2>1. Tasks[Top.doc] \in Seq(TaskKinds)
    BY <1>3
  <2> QED BY <2>1, <1>3, <1>4 DEF AtTask, Task
<1>5. ASSUME AtTask
      PROVE  /\ Task.inline \in Docs \cup {NoDoc} /\ Task.refs \in Seq(Refs)
             /\ Task.inline # NoDoc => Dir[Task.inline] = NoDir
  BY <1>3, <1>4, <1>5 DEF TaskKinds, Task
<1> QED BY <1>1, <1>2, <1>3, <1>4, <1>5 DEF Top

\* Of a task with a reference, the n-th is a reference.
LEMMA RefFacts ==
  ASSUME TypeOK, Resolving, NEW n \in Nat \ {0}, n <= Len(Task.refs)
  PROVE  /\ Task.refs[n] \in Refs
         /\ Load(Task.refs[n], Top.base, Top.params) \in Specs
         /\ CacheKey(Task.refs[n], Top.base, Top.params) \in Keys
<1>1. stack # <<>> /\ AtTask
  BY DEF Resolving, AtTask
<1>2. Task.refs \in Seq(Refs) /\ Top.base \in Bases /\ Top.params \in Contexts
  BY <1>1, TopFacts
<1>3. Task.refs[n] \in Refs
  BY <1>2
<1> QED BY <1>2, <1>3, LoadType, KeyIsEnough

\* A hit gives what loading would.
LEMMA HitIsFresh ==
  ASSUME TypeOK, CacheCoherent, NEW r \in Refs, NEW b \in Bases, NEW p \in Contexts,
         CacheKey(r, b, p) \in DOMAIN cache
  PROVE  cache[CacheKey(r, b, p)] = Load(r, b, p)
BY KeyIsEnough DEF CacheCoherent

-----------------------------------------------------------------------------
(* What a step does to the stack of graphs. *)

\* The graph d is entered with the directory and the parameters of its place.
Enters(d) ==
  /\ d \in Docs /\ Len(stack) < MaxDepth
  /\ stack' = Append(Advanced,
        Frame(d, IF Dir[d] # NoDir THEN Dir[d] ELSE Top.base, ParamsWithin(d, Top.params)))

StackStep ==
  \/ stack' = <<>>
  \/ stack # <<>> /\ stack' = Advanced
  \/ stack # <<>> /\ \E d \in Docs : Enters(d)
  \/ Len(stack) > 1 /\ stack' = SubSeq(stack, 1, Len(stack) - 1)
  \/ stack' = stack
  \/ \E p \in Pipelines, g \in Contexts : stack' = << Frame(p, Dir[p], g) >>

LEMMA ParamsWithinType ==
  ASSUME NEW d \in Docs, NEW p \in Contexts
  PROVE  ParamsWithin(d, p) \in Contexts
BY MergeContext DEF ParamsWithin

\* Descending into a fresh spec enters it with its own annotations.
LEMMA DescendSpec ==
  ASSUME TypeOK, Resolving, NEW r \in Refs, NEW spec,
         spec = Load(r, Top.base, Top.params),
         Descend(spec.doc, BaseIn(spec), ParamsIn(spec))
  PROVE  StackStep
<1>1. stack # <<>> /\ Top.base \in Bases /\ Top.params \in Contexts
  BY TopFacts DEF Resolving, AtTask
<1> DEFINE d == Means[r][Top.base]
<1>2. /\ spec.doc = d /\ spec.sourceDir = Dir[d] /\ d \in Docs
      /\ spec.recursiveParams =
           IF Merges(d, Top.params) THEN Merge(Own[d], Top.params) ELSE Empty
  BY <1>1, LoadType
<1>3. Merges(d, Top.params) => Merge(Own[d], Top.params) # Empty
  BY <1>1, <1>2, MergeContext DEF Merges
<1>4. ParamsIn(spec) = ParamsWithin(d, Top.params)
  BY <1>2, <1>3 DEF ParamsIn, ParamsWithin
<1>5. BaseIn(spec) = IF Dir[d] # NoDir THEN Dir[d] ELSE Top.base
  BY <1>2 DEF BaseIn
<1>6. CASE Len(stack) < MaxDepth /\ stack' = Append(Advanced, Frame(spec.doc, BaseIn(spec), ParamsIn(spec)))
  BY <1>1, <1>2, <1>4, <1>5, <1>6 DEF StackStep, Enters
<1>7. CASE EndAs("failed")
  BY <1>7 DEF EndAs, StackStep
<1> QED BY <1>6, <1>7 DEF Descend

LEMMA GiveStep ==
  ASSUME TypeOK, Resolving, NEW r \in Refs, NEW spec, NEW over,
         spec = Load(r, Top.base, Top.params), Give(r, spec, over)
  PROVE  StackStep
<1>1. stack # <<>>
  BY DEF Resolving, AtTask
<1>2. CASE Descend(spec.doc, BaseIn(spec), ParamsIn(spec))
  BY <1>2, DescendSpec
<1>3. CASE stack' = Advanced
  BY <1>1, <1>3 DEF StackStep
<1> QED BY <1>2, <1>3 DEF Give

\* Advancing the top keeps the place of every graph.
LEMMA AdvancedFacts ==
  ASSUME TypeOK, stack # <<>>
  PROVE  /\ Advanced \in Seq(Frames) /\ Len(Advanced) = Len(stack)
         /\ \A i \in 1..Len(stack) : /\ Advanced[i].doc = stack[i].doc
                                     /\ Advanced[i].base = stack[i].base
                                     /\ Advanced[i].params = stack[i].params
<1> DEFINE n == Len(stack)
<1>1. n \in 1..MaxDepth /\ stack \in Seq(Frames) /\ stack[n] \in Frames
  BY TopFacts DEF TypeOK
<1>2. \A i \in 1..n : stack[i] \in Frames
  BY <1>1
<1> DEFINE f == [stack[n] EXCEPT !.at = @ + 1]
<1>3. /\ f \in Frames /\ f.doc = stack[n].doc /\ f.base = stack[n].base
      /\ f.params = stack[n].params
  <2>1. stack[n].at \in Nat \ {0}
    BY <1>1 DEF Frames
  <2>2. stack[n].at + 1 \in Nat \ {0}
    BY <2>1
  <2> DEFINE a == stack[n].at + 1
  <2> HIDE DEF a
  <2>3. [stack[n] EXCEPT !.at = a] \in Frames
    BY <1>1, <2>2 DEF Frames, a
  <2>4. f.doc = stack[n].doc /\ f.base = stack[n].base /\ f.params = stack[n].params
    BY <1>1 DEF Frames
  <2> QED BY <2>3, <2>4 DEF a
<1>4. Advanced = [stack EXCEPT ![n] = f]
  BY DEF Advanced
<1>5. /\ DOMAIN Advanced = 1..n
      /\ \A i \in 1..n : Advanced[i] = IF i = n THEN f ELSE stack[i]
  BY <1>1, <1>4
<1>6. Advanced \in Seq(Frames) /\ Len(Advanced) = n
  BY <1>1, <1>3, <1>4
<1> QED BY <1>3, <1>5, <1>6

\* Every stack step keeps each graph in the context of the one around it.
LEMMA StackKeepsContext ==
  ASSUME TypeOK, FramesInContext, StackStep
  PROVE  /\ stack' \in Seq(Frames) /\ Len(stack') <= MaxDepth
         /\ FramesInContext'
<1>0. stack \in Seq(Frames) /\ Len(stack) \in Nat /\ Len(stack) <= MaxDepth
  BY DEF TypeOK
<1>a. \A i \in 2..Len(stack) : i - 1 \in 1..Len(stack) /\ i \in 1..Len(stack)
  BY <1>0
<1>1. CASE stack' = <<>>
  BY <1>1 DEF FramesInContext
<1>2. CASE stack # <<>> /\ stack' = Advanced
  <2>1. /\ stack' \in Seq(Frames) /\ Len(stack') = Len(stack)
        /\ \A i \in 1..Len(stack) : /\ stack'[i].doc = stack[i].doc
                                    /\ stack'[i].base = stack[i].base
                                    /\ stack'[i].params = stack[i].params
    BY <1>2, AdvancedFacts
  <2>2. ASSUME NEW i \in 2..Len(stack') PROVE Inherits(stack'[i], stack'[i - 1])
    <3>1. i \in 1..Len(stack) /\ i - 1 \in 1..Len(stack) /\ Inherits(stack[i], stack[i - 1])
      BY <1>a, <2>1 DEF FramesInContext
    <3> QED BY <3>1, <2>1 DEF Inherits
  <2>3. FramesInContext'
    BY <2>2 DEF FramesInContext
  <2> QED BY <1>0, <2>1, <2>3
<1>3. ASSUME stack # <<>>, NEW d \in Docs, Enters(d)
      PROVE  /\ stack' \in Seq(Frames) /\ Len(stack') <= MaxDepth
             /\ FramesInContext'
  <2>1. /\ Len(stack) \in 1..MaxDepth /\ Top = stack[Len(stack)] /\ Top \in Frames
        /\ Top.base \in Bases /\ Top.params \in Contexts
    BY <1>3, TopFacts
  <2> DEFINE b == IF Dir[d] # NoDir THEN Dir[d] ELSE Top.base
             p == ParamsWithin(d, Top.params)
             n == Len(stack) + 1
  <2>2. Frame(d, b, p) \in Frames
    BY <2>1, ParamsWithinType DEF Frame, Frames
  <2>3. /\ Len(Advanced) = Len(stack) /\ Advanced \in Seq(Frames)
        /\ \A i \in 1..Len(stack) : /\ Advanced[i].doc = stack[i].doc
                                    /\ Advanced[i].base = stack[i].base
                                    /\ Advanced[i].params = stack[i].params
    BY <1>3, AdvancedFacts
  <2>4. stack' = Append(Advanced, Frame(d, b, p)) /\ Len(stack) < MaxDepth
    BY <1>3 DEF Enters
  <2>5. /\ stack' \in Seq(Frames) /\ Len(stack') = n
        /\ stack'[n] = Frame(d, b, p)
        /\ \A i \in 1..Len(stack) : stack'[i] = Advanced[i]
    BY <1>0, <2>2, <2>3, <2>4
  <2>6. stack'[n].doc = d /\ stack'[n].base = b /\ stack'[n].params = p
    BY <2>5 DEF Frame
  <2>7. stack'[n - 1].base = Top.base /\ stack'[n - 1].params = Top.params
    <3>1. n - 1 = Len(stack) /\ n - 1 \in 1..Len(stack)
      BY <2>1, <1>0
    <3> QED BY <3>1, <2>1, <2>3, <2>5
  <2>8. ASSUME NEW i \in 2..Len(stack') PROVE Inherits(stack'[i], stack'[i - 1])
    <3>1. CASE i = n
      BY <3>1, <2>6, <2>7 DEF Inherits
    <3>2. CASE i # n
      <4>1. i \in 2..Len(stack)
        BY <3>2, <2>5, <1>0
      <4>2. i \in 1..Len(stack) /\ i - 1 \in 1..Len(stack) /\ Inherits(stack[i], stack[i - 1])
        BY <4>1, <1>a DEF FramesInContext
      <4>3. /\ stack'[i].doc = stack[i].doc /\ stack'[i].base = stack[i].base
            /\ stack'[i].params = stack[i].params
            /\ stack'[i - 1].base = stack[i - 1].base
            /\ stack'[i - 1].params = stack[i - 1].params
        BY <4>2, <2>3, <2>5
      <4> QED BY <4>2, <4>3 DEF Inherits
    <3> QED BY <3>1, <3>2
  <2>9. FramesInContext'
    BY <2>8 DEF FramesInContext
  <2> QED BY <1>0, <2>4, <2>5, <2>9
<1>4. CASE Len(stack) > 1 /\ stack' = SubSeq(stack, 1, Len(stack) - 1)
  <2>1. /\ stack' \in Seq(Frames) /\ Len(stack') = Len(stack) - 1
        /\ \A i \in 1..(Len(stack) - 1) : stack'[i] = stack[i]
    BY <1>0, <1>4
  <2>2. ASSUME NEW i \in 2..Len(stack') PROVE Inherits(stack'[i], stack'[i - 1])
    <3>1. i \in 2..Len(stack) /\ i \in 1..(Len(stack) - 1) /\ i - 1 \in 1..(Len(stack) - 1)
      BY <1>0, <2>1
    <3>2. stack'[i] = stack[i] /\ stack'[i - 1] = stack[i - 1]
      BY <3>1, <2>1
    <3> QED BY <3>1, <3>2 DEF FramesInContext
  <2>3. FramesInContext'
    BY <2>2 DEF FramesInContext
  <2> QED BY <1>0, <2>1, <2>3
<1>5. CASE stack' = stack
  <2>1. FramesInContext'
    BY <1>5 DEF FramesInContext
  <2> QED BY <1>0, <1>5, <2>1
<1>6. ASSUME NEW p \in Pipelines, NEW g \in Contexts, stack' = << Frame(p, Dir[p], g) >>
      PROVE  /\ stack' \in Seq(Frames) /\ Len(stack') <= MaxDepth
             /\ FramesInContext'
  <2>1. Frame(p, Dir[p], g) \in Frames
    BY DEF Frame, Frames
  <2>2. stack' \in Seq(Frames) /\ Len(stack') = 1
    BY <1>6, <2>1
  <2>3. FramesInContext'
    BY <2>2 DEF FramesInContext
  <2> QED BY <2>2, <2>3
<1> QED BY <1>0, <1>1, <1>2, <1>3, <1>4, <1>5, <1>6 DEF StackStep

\* The specs that a step puts into a task are fresh.
LEMMA FetchedFresh ==
  ASSUME IInv, ResolveRef
  PROVE  LET r == Task.refs[1]
             k == CacheKey(r, Top.base, Top.params)
             spec == Load(r, Top.base, Top.params)
         IN /\ r \in Refs /\ k \in Keys /\ spec \in Specs
            /\ Give(r, spec, {})
            /\ cache' = cache \/ cache' = Cached(k, spec)
            /\ UNCHANGED calls
<1>1. Resolving /\ 1 <= Len(Task.refs)
  <2>1. stack # <<>> /\ AtTask
    BY DEF ResolveRef, Resolving, AtTask
  <2>2. Task.refs \in Seq(Refs)
    BY <2>1, TopFacts DEF IInv
  <2> QED BY <2>2 DEF ResolveRef, OnlyRef
<1> DEFINE r == Task.refs[1]
           k == CacheKey(r, Top.base, Top.params)
           spec == Load(r, Top.base, Top.params)
<1>2. r \in Refs /\ k \in Keys /\ spec \in Specs
  BY <1>1, RefFacts DEF IInv
<1>3. Top.base \in Bases /\ Top.params \in Contexts
  BY <1>1, TopFacts DEF IInv, Resolving, AtTask
<1>4. k \in DOMAIN cache => cache[k] = spec
  BY <1>2, <1>3, HitIsFresh DEF IInv
<1> QED BY <1>2, <1>4 DEF ResolveRef, InForce

LEMMA ChosenFresh ==
  ASSUME IInv, Choose
  PROVE  /\ best.ref \in Refs /\ best.spec = Load(best.ref, Top.base, Top.params)
         /\ NotSurpassed(best, resolved)
         /\ Give(best.ref, best.spec, resolved)
<1>1. best \in resolved /\ NotSurpassed(best, resolved)
  BY DEF IInv, Choose, BestIsBest
<1>2. best.ref \in Refs
  BY <1>1 DEF IInv, TypeOK, Candidates
<1> QED BY <1>1, <1>2 DEF IInv, CandidatesFresh, Choose

LEMMA NextStack ==
  ASSUME IInv, [Next]_vars
  PROVE  StackStep
<1>1. ASSUME NEW p \in Pipelines, Start(p) PROVE StackStep
  <2>1. Over(Overrides, Own[p]) \in Contexts /\ Empty \in Contexts
    BY OverContext, EmptyContext
  <2>2. globalParams' \in Contexts
    BY <1>1, <2>1 DEF Start
  <2> QED BY <1>1, <2>2 DEF Start, StackStep
<1>2. CASE StartFails
  BY <1>2 DEF StartFails, EndAs, StackStep
<1>3. CASE EnterInline
  <2>1. /\ stack # <<>> /\ Task.inline \in Docs /\ Dir[Task.inline] = NoDir
    BY <1>3, TopFacts DEF IInv, EnterInline, IsInlineGraph, AtTask
  <2>2. ParamsWithin(Task.inline, Top.params) = Top.params
    BY <2>1 DEF ParamsWithin, Merges
  <2> QED BY <1>3, <2>1, <2>2 DEF EnterInline, Descend, EndAs, StackStep, Enters
<1>4. CASE Skip
  BY <1>4 DEF Skip, Resolving, AtTask, StackStep
<1>5. CASE ResolveRef
  BY <1>5, FetchedFresh, GiveStep DEF IInv, ResolveRef
<1>6. CASE ResolveFails
  BY <1>6 DEF ResolveFails, EndAs, StackStep
<1>7. CASE TryRef
  BY <1>7 DEF TryRef, StackStep
<1>8. CASE Choose
  BY <1>8, ChosenFresh, GiveStep DEF IInv, Choose
<1>9. CASE Return
  <2>1. Len(stack) \in Nat
    BY DEF IInv, TypeOK
  <2> QED BY <1>9, <2>1 DEF Return, EndAs, StackStep
<1>10. CASE WriteFails
  BY <1>10 DEF WriteFails, EndAs, StackStep
<1>11. CASE UNCHANGED vars
  BY <1>11 DEF vars, hydration, StackStep
<1> QED BY <1>1, <1>2, <1>3, <1>4, <1>5, <1>6, <1>7, <1>8, <1>9, <1>10, <1>11 DEF Next, Work

-----------------------------------------------------------------------------
(* The parts of the invariant, one after the other. *)

\* Every step but TryRef leaves no candidates behind.
LEMMA Forgets ==
  ASSUME Next, ~TryRef
  PROVE  tried' = 0 /\ best' = NoPick /\ resolved' = {}
<1>1. \A s : EndAs(s) => ForgetCandidates
  BY DEF EndAs
<1>2. \A d, b, g : Descend(d, b, g) => ForgetCandidates
  BY <1>1 DEF Descend
<1>3. \A r, spec, over : Give(r, spec, over) => ForgetCandidates
  BY <1>2 DEF Give
<1>4. ForgetCandidates
  BY <1>1, <1>2, <1>3
     DEF Next, Work, Start, StartFails, EnterInline, Skip, ResolveRef, ResolveFails,
         Choose, Return, WriteFails
<1> QED BY <1>4 DEF ForgetCandidates

LEMMA CandidateIsPick ==
  ASSUME NEW c \in Candidates
  PROVE  c # NoPick
<1>1. DOMAIN c = {"ref", "spec"}
  BY DEF Candidates
<1>2. DOMAIN NoPick = {"ref"}
  BY DEF NoPick
<1>3. "spec" \in DOMAIN c /\ "spec" \notin DOMAIN NoPick
  BY <1>1, <1>2
<1> QED BY <1>3

LEMMA RankFacts ==
  ASSUME NEW c \in Candidates
  PROVE  /\ Rank[c.ref.type] \in 0..2 /\ c.ref \in Refs
         /\ Version[c.spec.doc] \in Nat
<1>1. c.ref \in Refs /\ c.spec \in Specs
  BY DEF Candidates
<1>2. c.ref.type \in {"digest", "name", "url"}
  BY <1>1
<1>3. c.spec.doc \in Docs
  BY <1>1 DEF Specs
<1> QED BY <1>1, <1>2, <1>3 DEF Rank

\* A candidate is as good as itself and as one that does not better it; the
\* better of two is as good as whatever the other is as good as.
LEMMA AsGoodFacts ==
  ASSUME NEW b \in Candidates, NEW c \in Candidates, NEW e \in Candidates
  PROVE  /\ AsGood(c, c)
         /\ ~IsBetter(c, b) => AsGood(b, c)
         /\ IsBetter(c, b) /\ AsGood(b, e) => AsGood(c, e)
<1> DEFINE R(x) == Rank[x.ref.type]
           V(x) == Version[x.spec.doc]
<1>1. R(b) \in 0..2 /\ R(c) \in 0..2 /\ R(e) \in 0..2
  BY RankFacts
<1>2. V(b) \in Nat /\ V(c) \in Nat /\ V(e) \in Nat
  BY RankFacts
<1>3. \A x, y : AsGood(x, y) <=> V(y) <= V(x) /\ (V(y) = V(x) => R(x) <= R(y))
  BY DEF AsGood
<1>4. IsBetter(c, b) <=> V(c) > V(b) \/ (V(c) = V(b) /\ R(c) < R(b))
  BY DEF IsBetter
<1> HIDE DEF R, V
<1> QED BY <1>1, <1>2, <1>3, <1>4

LEMMA ConsiderKeepsBest ==
  ASSUME resolved \subseteq Candidates, best \in Candidates \cup {NoPick},
         BestIsBest, NEW c \in Candidates, Consider(c)
  PROVE  /\ resolved' \subseteq Candidates
         /\ best' \in Candidates \cup {NoPick}
         /\ BestIsBest'
<1>1. resolved' = resolved \cup {c}
  BY DEF Consider
<1>2. c # NoPick
  BY CandidateIsPick
<1>4. CASE best = NoPick
  <2>1. resolved' = {c} /\ best' = c
    BY <1>1, <1>4 DEF BestIsBest, Consider
  <2>2. AsGood(c, c)
    BY AsGoodFacts
  <2> QED BY <1>2, <2>1, <2>2 DEF BestIsBest, NotSurpassed
<1>5. CASE best # NoPick /\ IsBetter(c, best)
  <2>1. best \in resolved /\ NotSurpassed(best, resolved) /\ best' = c
    BY <1>5 DEF BestIsBest, Consider
  <2>2. AsGood(c, c) /\ \A e \in resolved : AsGood(c, e)
    BY <1>5, <2>1, AsGoodFacts DEF NotSurpassed
  <2> QED BY <1>1, <1>2, <2>1, <2>2 DEF BestIsBest, NotSurpassed
<1>6. CASE best # NoPick /\ ~IsBetter(c, best)
  <2>1. best \in resolved /\ NotSurpassed(best, resolved) /\ best' = best
    BY <1>6 DEF BestIsBest, Consider
  <2>2. AsGood(best, c)
    BY <1>6, <2>1, AsGoodFacts
  <2> QED BY <1>1, <1>6, <2>1, <2>2 DEF BestIsBest, NotSurpassed
<1> QED BY <1>1, <1>4, <1>5, <1>6

\* What TryRef considers and caches.
LEMMA TryFacts ==
  ASSUME IInv, TryRef
  PROVE  LET r == Task.refs[tried + 1]
             k == CacheKey(r, Top.base, Top.params)
             spec == Load(r, Top.base, Top.params)
             c == [ref |-> r, spec |-> spec]
         IN /\ r \in Refs /\ k \in Keys /\ spec \in Specs /\ c \in Candidates
            /\ Consider(c) \/ (resolved' = resolved /\ best' = best)
            /\ cache' = cache \/ cache' = Cached(k, spec)
            /\ stack' = stack /\ stack # <<>>
            /\ UNCHANGED <<status, calls, given>>
            /\ tried' \in Nat /\ globalParams' = Top.params
<1>1. /\ Resolving /\ tried < Len(Task.refs) /\ tried \in Nat
      /\ stack # <<>>
  BY DEF TryRef, IInv, TypeOK, Resolving, AtTask
<1> DEFINE r == Task.refs[tried + 1]
           k == CacheKey(r, Top.base, Top.params)
           spec == Load(r, Top.base, Top.params)
           c == [ref |-> r, spec |-> spec]
<1>2. Task.refs \in Seq(Refs) /\ Top.base \in Bases /\ Top.params \in Contexts
  BY <1>1, TopFacts DEF IInv, Resolving
<1>3. tried + 1 \in Nat \ {0} /\ tried + 1 <= Len(Task.refs)
  BY <1>1, <1>2
<1>a. TypeOK /\ CacheCoherent
  BY DEF IInv
<1>4. r \in Refs /\ k \in Keys /\ spec \in Specs
  BY <1>a, <1>1, <1>3, RefFacts
<1>5. k \in DOMAIN cache => cache[k] = spec
  <2>1. /\ Top.base \in Bases /\ Top.params \in Contexts
        /\ Task.refs[tried + 1] \in Refs
    BY <1>2, <1>4
  <2>2. SUFFICES ASSUME CacheKey(Task.refs[tried + 1], Top.base, Top.params) \in DOMAIN cache
                 PROVE  cache[k] = spec
    OBVIOUS
  <2> QED BY <1>a, <2>1, <2>2, HitIsFresh
<1>6. c \in Candidates
  BY <1>4 DEF Candidates
<1>7. /\ Consider(c) \/ (resolved' = resolved /\ best' = best)
      /\ cache' = cache \/ cache' = Cached(k, spec)
  BY <1>5 DEF TryRef, InForce
<1> QED BY <1>1, <1>4, <1>6, <1>7 DEF TryRef, InForce

LEMMA CandidatesKept ==
  ASSUME IInv, [Next]_vars
  PROVE  /\ tried' \in Nat /\ best' \in Candidates \cup {NoPick}
         /\ resolved' \subseteq Candidates
         /\ CandidatesFresh' /\ BestIsBest'
<1>0. /\ tried \in Nat /\ best \in Candidates \cup {NoPick}
      /\ resolved \subseteq Candidates /\ CandidatesFresh /\ BestIsBest
  BY DEF IInv, TypeOK
<1>1. CASE Next /\ ~TryRef
  <2>1. tried' = 0 /\ best' = NoPick /\ resolved' = {}
    BY <1>1, Forgets
  <2> QED BY <2>1 DEF CandidatesFresh, BestIsBest
<1>2. CASE TryRef
  <2> DEFINE r == Task.refs[tried + 1]
             spec == Load(r, Top.base, Top.params)
             c == [ref |-> r, spec |-> spec]
  <2>1. /\ c \in Candidates /\ tried' \in Nat /\ stack' = stack /\ stack # <<>>
        /\ Consider(c) \/ (resolved' = resolved /\ best' = best)
    BY <1>2, TryFacts
  <2>2. CASE Consider(c)
    <3>1. /\ resolved' \subseteq Candidates /\ best' \in Candidates \cup {NoPick}
          /\ BestIsBest'
      BY <1>0, <2>1, <2>2, ConsiderKeepsBest
    <3>2. resolved' = resolved \cup {c}
      BY <2>2 DEF Consider
    <3>3. CandidatesFresh'
      BY <1>0, <2>1, <3>2 DEF CandidatesFresh, Top
    <3> QED BY <2>1, <3>1, <3>3
  <2>3. CASE resolved' = resolved /\ best' = best
    BY <1>0, <2>1, <2>3 DEF CandidatesFresh, BestIsBest, NotSurpassed, Top
  <2> QED BY <2>1, <2>2, <2>3
<1>3. CASE UNCHANGED vars
  BY <1>0, <1>3 DEF vars, hydration, CandidatesFresh, BestIsBest, NotSurpassed, Top
<1> QED BY <1>1, <1>2, <1>3

LEMMA CacheKept ==
  ASSUME IInv, [Next]_vars
  PROVE  /\ DOMAIN cache' \subseteq Keys /\ \A k \in DOMAIN cache' : cache'[k] \in Specs
         /\ CacheCoherent'
<1>0. /\ DOMAIN cache \subseteq Keys /\ \A k \in DOMAIN cache : cache[k] \in Specs
      /\ CacheCoherent
  BY DEF IInv, TypeOK
<1>1. ASSUME NEW r \in Refs,
             cache' = Cached(CacheKey(r, Top.base, Top.params), Load(r, Top.base, Top.params)),
             stack # <<>>
      PROVE  /\ DOMAIN cache' \subseteq Keys /\ \A k \in DOMAIN cache' : cache'[k] \in Specs
             /\ CacheCoherent'
  <2> DEFINE k == CacheKey(r, Top.base, Top.params)
             spec == Load(r, Top.base, Top.params)
  <2>1. Top.base \in Bases /\ Top.params \in Contexts
    BY <1>1, TopFacts DEF IInv
  <2>2. k \in Keys /\ spec \in Specs /\ spec = Load(k.ref, k.base, k.context)
    BY <2>1, LoadType, KeyIsEnough
  <2>3. /\ DOMAIN cache' = DOMAIN cache \cup {k}
        /\ \A j \in DOMAIN cache' : cache'[j] = IF j = k THEN spec ELSE cache[j]
    BY <1>1 DEF Cached
  <2> HIDE DEF k, spec
  <2>4. CacheCoherent'
    BY <1>0, <2>2, <2>3 DEF CacheCoherent
  <2> QED BY <1>0, <2>2, <2>3, <2>4
<1>2. CASE cache' = cache
  BY <1>0, <1>2 DEF CacheCoherent
<1>3. CASE ResolveRef
  BY <1>1, <1>2, <1>3, FetchedFresh DEF ResolveRef, Resolving, AtTask
<1>4. CASE TryRef
  BY <1>1, <1>2, <1>4, TryFacts
<1>5. CASE UNCHANGED vars
  BY <1>2, <1>5 DEF vars, hydration
<1>6. CASE Next /\ ~ResolveRef /\ ~TryRef
  <2>1. cache' = cache
    BY <1>6 DEF Next, Work, Start, StartFails, EnterInline, Skip, ResolveFails, Choose,
                Return, WriteFails
  <2> QED BY <1>2, <2>1
<1> QED BY <1>3, <1>4, <1>5, <1>6

LEMMA GivenKept ==
  ASSUME IInv, [Next]_vars
  PROVE  GivenIsFresh' /\ BestOfResolved'
<1>1. ASSUME NEW r, NEW over, Give(r, Load(r, Top.base, Top.params), over),
             NotSurpassed([ref |-> r, spec |-> Load(r, Top.base, Top.params)], over)
      PROVE  GivenIsFresh' /\ BestOfResolved'
  <2> DEFINE spec == Load(r, Top.base, Top.params)
  <2>1. /\ given'.ref = r /\ given'.base = Top.base /\ given'.params = Top.params
        /\ given'.spec = spec /\ given'.over = over
    <3>1. given' = [ref |-> r, base |-> Top.base, params |-> Top.params,
                    spec |-> spec, over |-> over]
      BY <1>1 DEF Give
    <3> HIDE DEF spec
    <3> QED BY <3>1
  <2>2. GivenIsFresh'
    BY <2>1 DEF GivenIsFresh
  <2>3. \A c \in over : AsGood(given', c)
    BY <1>1, <2>1 DEF NotSurpassed, AsGood
  <2>4. BestOfResolved'
    BY <2>1, <2>3 DEF BestOfResolved
  <2> QED BY <2>2, <2>4
<1>2. CASE given' = given
  BY <1>2 DEF IInv, GivenIsFresh, BestOfResolved
<1>3. CASE ResolveRef
  <2>1. Give(Task.refs[1], Load(Task.refs[1], Top.base, Top.params), {})
    BY <1>3, FetchedFresh
  <2>2. \A b : NotSurpassed(b, {})
    BY DEF NotSurpassed
  <2> QED BY <1>1, <2>1, <2>2
<1>4. CASE Choose
  <2>1. /\ best.spec = Load(best.ref, Top.base, Top.params)
        /\ NotSurpassed(best, resolved) /\ Give(best.ref, best.spec, resolved)
    BY <1>4, ChosenFresh
  <2>2. NotSurpassed([ref |-> best.ref, spec |-> best.spec], resolved)
    BY <2>1 DEF NotSurpassed, AsGood
  <2> QED BY <1>1, <2>1, <2>2
<1>5. CASE TryRef
  BY <1>2, <1>5 DEF TryRef
<1>6. CASE UNCHANGED vars
  BY <1>2, <1>6 DEF vars, hydration
<1>7. CASE Next /\ ~ResolveRef /\ ~Choose /\ ~TryRef
  <2>1. given' = given
    BY <1>7 DEF Next, Work, Start, StartFails, EnterInline, Skip, ResolveFails, Return,
                WriteFails
  <2> QED BY <1>2, <2>1
<1> QED BY <1>3, <1>4, <1>5, <1>6, <1>7

\* How the call goes on: it runs as long as there is a graph to traverse.
LEMMA StatusKept ==
  ASSUME IInv, [Next]_vars
  PROVE  /\ status' \in {"idle", "running", "done", "failed"}
         /\ status' = "running" <=> stack' # <<>>
<1>0. /\ status \in {"idle", "running", "done", "failed"}
      /\ status = "running" <=> stack # <<>>
      /\ stack \in Seq(Frames) /\ Len(stack) \in Nat
  BY DEF IInv, TypeOK
<1> DEFINE Ended == stack' = <<>> /\ status' \in {"done", "failed"}
           Goes == stack' # <<>> /\ status = "running" /\ status' = status
<1>1. ASSUME stack # <<>> PROVE Advanced # <<>> /\ Len(Advanced) \in Nat
  <2>1. TypeOK
    BY DEF IInv
  <2>2. Len(Advanced) = Len(stack) /\ Len(stack) \in 1..MaxDepth
    BY <1>1, <2>1, AdvancedFacts, TopFacts
  <2> HIDE DEF Advanced
  <2> QED BY <2>2
<1>2. ASSUME NEW d, NEW b, NEW g, status = "running", Descend(d, b, g)
      PROVE  Ended \/ Goes
  <2>1. CASE EndAs("failed")
    BY <2>1 DEF EndAs
  <2>2. CASE /\ stack' = Append(Advanced, Frame(d, b, g)) /\ status' = status
    <3>1. stack # <<>>
      BY <1>0, <1>2
    <3>2. Advanced \in Seq(Frames)
      BY <3>1, AdvancedFacts DEF IInv
    <3>3. Len(stack') = Len(Advanced) + 1 /\ Len(Advanced) \in Nat
      BY <2>2, <3>2
    <3>4. Len(stack') # 0
      BY <3>3
    <3> QED BY <1>2, <2>2, <3>4
  <2> QED BY <1>2, <2>1, <2>2 DEF Descend
<1>3. ASSUME NEW r, NEW spec, NEW over, status = "running", Give(r, spec, over)
      PROVE  Ended \/ Goes
  <2>1. CASE Descend(spec.doc, BaseIn(spec), ParamsIn(spec))
    BY <1>2, <1>3, <2>1
  <2>2. CASE stack' = Advanced /\ status' = status
    BY <1>0, <1>1, <1>3, <2>2
  <2> QED BY <1>3, <2>1, <2>2 DEF Give
<1>4. CASE \E p \in Pipelines : Start(p)
  <2>1. status' = "running" /\ \E f : stack' = <<f>>
    BY <1>4 DEF Start
  <2> QED BY <2>1
<1>5. CASE StartFails \/ ResolveFails \/ WriteFails
  BY <1>5 DEF StartFails, ResolveFails, WriteFails, EndAs
<1>6. CASE EnterInline
  BY <1>2, <1>6 DEF EnterInline
<1>7. CASE Skip
  BY <1>0, <1>1, <1>7 DEF Skip, Resolving
<1>8. CASE ResolveRef
  <2>1. status = "running"
    BY <1>8 DEF ResolveRef, Resolving
  <2> QED BY <1>3, <1>8, <2>1, FetchedFresh
<1>9. CASE TryRef
  BY <1>0, <1>9 DEF TryRef
<1>10. CASE Choose
  BY <1>3, <1>10 DEF Choose, Resolving
<1>11. CASE Return
  <2>1. CASE Len(stack) = 1
    BY <1>0, <1>11, <2>1 DEF Return, EndAs
  <2>2. CASE Len(stack) > 1 /\ stack' = SubSeq(stack, 1, Len(stack) - 1) /\ status' = status
    <3>1. Len(stack') = Len(stack) - 1
      BY <1>0, <2>2
    <3>2. Len(stack') # 0
      BY <1>0, <2>2, <3>1
    <3> QED BY <1>11, <2>2, <3>2 DEF Return
  <2> QED BY <1>11, <2>1, <2>2 DEF Return
<1>12. CASE UNCHANGED vars
  BY <1>0, <1>12 DEF vars, hydration
<1> QED BY <1>4, <1>5, <1>6, <1>7, <1>8, <1>9, <1>10, <1>11, <1>12 DEF Next, Work

LEMMA CallsKept ==
  ASSUME IInv, [Next]_vars
  PROVE  calls' \in 0..MaxCalls
<1>1. calls \in 0..MaxCalls
  BY DEF IInv, TypeOK
<1>2. calls' = calls \/ (calls' = calls + 1 /\ calls < MaxCalls)
  BY DEF Next, Work, Start, StartFails, EnterInline, Skip, ResolveRef, ResolveFails,
         TryRef, Choose, Return, WriteFails, vars
<1> QED BY <1>1, <1>2

LEMMA ParamsKept ==
  ASSUME IInv, [Next]_vars
  PROVE  globalParams' \in Contexts
<1>0. globalParams \in Contexts /\ Empty \in Contexts /\ TypeOK
  BY EmptyContext DEF IInv, TypeOK
<1>2. stack # <<>> => Top.params \in Contexts
  BY <1>0, TopFacts
<1>3. ASSUME NEW s, EndAs(s) PROVE globalParams' \in Contexts
  BY <1>0, <1>3 DEF EndAs
<1>4. ASSUME NEW d, NEW b, NEW g, stack # <<>>, Descend(d, b, g)
      PROVE  globalParams' \in Contexts
  <2>1. CASE globalParams' = globalParams \/ globalParams' = Top.params
    BY <1>0, <1>2, <1>4, <2>1
  <2>2. CASE EndAs("failed")
    BY <1>3, <2>2
  <2> QED BY <1>4, <2>1, <2>2 DEF Descend
<1>5. ASSUME NEW r, NEW spec, NEW over, stack # <<>>, Give(r, spec, over)
      PROVE  globalParams' \in Contexts
  <2>1. CASE Descend(spec.doc, BaseIn(spec), ParamsIn(spec))
    BY <1>4, <1>5, <2>1
  <2>2. CASE globalParams' = InForce
    BY <1>2, <1>5, <2>2 DEF InForce
  <2> QED BY <1>5, <2>1, <2>2 DEF Give
<1>6. ASSUME NEW p \in Pipelines, Start(p) PROVE globalParams' \in Contexts
  <2>1. Over(Overrides, Own[p]) \in Contexts
    BY OverContext
  <2> QED BY <1>0, <1>6, <2>1 DEF Start
<1>7. CASE StartFails \/ ResolveFails \/ WriteFails
  <2>1. EndAs("failed")
    BY <1>7 DEF StartFails, ResolveFails, WriteFails
  <2> QED BY <1>3, <2>1
<1>8. CASE EnterInline
  <2>1. stack # <<>> /\ Descend(Task.inline, Top.base, Top.params)
    BY <1>8 DEF EnterInline, AtTask
  <2> QED BY <1>4, <2>1
<1>9. CASE Skip \/ TryRef
  BY <1>2, <1>9 DEF Skip, TryRef, Resolving, AtTask, InForce
<1>10. CASE ResolveRef
  <2>1. stack # <<>>
    BY <1>10 DEF ResolveRef, Resolving, AtTask
  <2> QED BY <1>5, <1>10, <2>1, FetchedFresh
<1>11. CASE Choose
  <2>1. stack # <<>> /\ Give(best.ref, best.spec, resolved)
    BY <1>11 DEF Choose, Resolving, AtTask
  <2> QED BY <1>5, <2>1
<1>12. CASE Return
  <2>1. CASE EndAs("done")
    BY <1>3, <2>1
  <2>2. CASE globalParams' = globalParams
    BY <1>0, <2>2
  <2> QED BY <1>12, <2>1, <2>2 DEF Return
<1>13. CASE UNCHANGED vars
  BY <1>0, <1>13 DEF vars, hydration
<1> QED BY <1>6, <1>7, <1>8, <1>9, <1>10, <1>11, <1>12, <1>13 DEF Next, Work

-----------------------------------------------------------------------------
(* The theorems. *)

LEMMA InitIInv == Init => IInv
<1> SUFFICES ASSUME Init PROVE IInv
  OBVIOUS
<1>1. stack = <<>> /\ Len(stack) = 0 /\ stack \in Seq(Frames)
  BY DEF Init
<1>2. TypeOK
  BY <1>1, EmptyContext DEF Init, TypeOK
<1>3. CacheCoherent /\ CandidatesFresh /\ BestIsBest /\ GivenIsFresh /\ BestOfResolved
  BY DEF Init, CacheCoherent, CandidatesFresh, BestIsBest, GivenIsFresh, BestOfResolved
<1>4. FramesInContext
  BY <1>1 DEF FramesInContext
<1> QED BY <1>2, <1>3, <1>4 DEF IInv

LEMMA NextIInv == IInv /\ [Next]_vars => IInv'
<1> SUFFICES ASSUME IInv, [Next]_vars PROVE IInv'
  OBVIOUS
<1>1. /\ stack' \in Seq(Frames) /\ Len(stack') <= MaxDepth
      /\ FramesInContext'
  BY NextStack, StackKeepsContext DEF IInv
<1>2. TypeOK'
  BY <1>1, CacheKept, CandidatesKept, StatusKept, ParamsKept, CallsKept DEF TypeOK
<1> QED BY <1>1, <1>2, CacheKept, CandidatesKept, GivenKept DEF IInv

LEMMA Invariance == Spec => []IInv
BY InitIInv, NextIInv, PTL DEF Spec

(* The variables of the hydrator keep their types: in particular the         *)
(* traversal is never nested deeper than Python's recursion limit.           *)
THEOREM TypeCorrect == Spec => []TypeOK
<1>1. IInv => TypeOK
  BY DEF IInv
<1> QED BY Invariance, <1>1, PTL

(* Whatever the cache holds, also from earlier pipelines, every component    *)
(* given to a task is the one a look-up at that place would load             *)
(* (_resolve_component_ref, _resolve_best_ref, _cache_key).                  *)
THEOREM CacheIsTransparent == Spec => []GivenIsFresh
<1>1. IInv => GivenIsFresh
  BY DEF IInv
<1> QED BY Invariance, <1>1, PTL

(* Every nested graph is traversed with the directory and the parameters of  *)
(* its own place (_source_dir and _recursive_params).                        *)
THEOREM ContextIsInherited == Spec => []FramesInContext
<1>1. IInv => FramesInContext
  BY DEF IInv
<1> QED BY Invariance, <1>1, PTL

(* Of several references the best one that could be resolved is taken        *)
(* (_pick_best_candidate).                                                   *)
THEOREM BestIsTaken == Spec => []BestOfResolved
<1>1. IInv => BestOfResolved
  BY DEF IInv
<1> QED BY Invariance, <1>1, PTL

(* All of it: what is resolved and what is traversed fit their place, and    *)
(* nothing better was passed over.                                           *)
THEOREM EverythingFitsItsPlace == Spec => []FitsItsPlace
<1>1. GivenIsFresh /\ FramesInContext /\ BestOfResolved => FitsItsPlace
  BY DEF FitsItsPlace
<1> QED BY <1>1, CacheIsTransparent, ContextIsInherited, BestIsTaken, PTL
=============================================================================
