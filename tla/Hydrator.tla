------------------------------ MODULE Hydrator ------------------------------
(***************************************************************************)
(* PipelineHydrator: replace the component references of a pipeline by the  *)
(* components they mean, depth first, through a cache (pipeline_hydrator.py, *)
(* utils.traverse_pipeline_tasks).                                          *)
(*                                                                          *)
(* What a reference means depends on where it stands: a relative path on    *)
(* the directory of the file that holds it, a template on the parameters    *)
(* of the templates around it.  The traversal carries both down the graph,  *)
(* with the annotations _source_dir and _recursive_params of loaded specs,  *)
(* and the cache, which lives as long as the hydrator, must tell them apart. *)
(***************************************************************************)
EXTENDS Naturals, Sequences

CONSTANTS
  Docs,       \* the specs there are: pipelines, components, inline subgraphs
  Pipelines,  \* those that hydrate_file is called with
  Tasks,      \* Tasks[d]: the tasks of d's graph in order; <<>>: not a graph
  Dir,        \* Dir[d]: the directory of the local file d; NoDir: remote, inline
  Template,   \* Template[d]: d is a template_file config
  Own,        \* Own[d]: the parameters that config gives its template
  Version,    \* Version[d]: the rank of its version; 0: none
  Refs,       \* the component references there are
  Means,      \* Means[r][b]: the spec r means in directory b
  Dirs, NoDir, NoDoc,
  Params, Values,    \* names and values of template parameters
  Overrides,         \* hydrate_file's overrides
  RecursiveContext,  \* "none", "parent-priority", "child-priority"
  MaxDepth,          \* bound: the nesting at which Python's stack overflows
  MaxCalls           \* bound: calls of hydrate_file on one hydrator

Bases == Dirs \cup {NoDir}
Contexts == UNION {[P -> Values] : P \in SUBSET Params}
Empty == [p \in {} |-> 0]

Schemes == {"none", "file", "resolve", "http"}
RefKinds == [type : {"digest", "name", "url"}, scheme : Schemes, absolute : BOOLEAN]

\* A task holds a subgraph inline or names its component, in one or several ways.
TaskKinds == [inline : Docs \cup {NoDoc}, refs : Seq(Refs)]

(* _ref_depends_on_base_dir *)
DependsOnBase(r) ==
  r.type = "url" /\ r.scheme \in {"none", "file", "resolve"} /\ ~r.absolute

ASSUME ConstantsOK ==
  /\ Pipelines \subseteq Docs /\ NoDoc \notin Docs /\ NoDir \notin Dirs
  /\ Tasks \in [Docs -> Seq(TaskKinds)]
  /\ Dir \in [Docs -> Bases]
  /\ Template \in [Docs -> BOOLEAN]
  /\ Own \in [Docs -> Contexts]
  /\ Version \in [Docs -> Nat]
  /\ \A r \in Refs : /\ r.type \in {"digest", "name", "url"}
                     /\ r.scheme \in Schemes
                     /\ r.absolute \in BOOLEAN
  /\ Means \in [Refs -> [Bases -> Docs]]
  /\ Overrides \in Contexts
  /\ RecursiveContext \in {"none", "parent-priority", "child-priority"}
  /\ MaxDepth \in Nat \ {0} /\ MaxCalls \in Nat

\* Only a path that is relative is looked up in the directory of its file.
ASSUME PathsOK ==
  \A r \in Refs : r.scheme = "http" \/ r.type # "url" \/ r.absolute =>
    \A b, c \in Bases : Means[r][b] = Means[r][c]

\* An inline subgraph is part of its file; only local files are templates.
ASSUME InlineOK ==
  /\ \A d \in Docs : \A i \in DOMAIN Tasks[d] :
       Tasks[d][i].inline # NoDoc => Dir[Tasks[d][i].inline] = NoDir
  /\ \A d \in Docs : Template[d] => Dir[d] # NoDir

VARIABLES
  status,        \* "idle", "running", "done", "failed"
  calls,         \* calls of hydrate_file so far
  cache,         \* cache, a function on the keys it holds
  globalParams,  \* _global_params
  stack,         \* the graphs being traversed, outermost first
  tried,         \* how many of the current task's references were tried
  best,          \* the best candidate of them, or NoPick
  resolved,      \* history: all of their candidates
  given          \* history: the last component put into a task, and for what

hydration == <<status, cache, globalParams, stack, tried, best, resolved, given>>
vars == <<hydration, calls>>

-----------------------------------------------------------------------------
(* Parameters and loading. *)

Recursive == RecursiveContext # "none"

Over(f, g) == [p \in DOMAIN f \cup DOMAIN g |-> IF p \in DOMAIN f THEN f[p] ELSE g[p]]

(* _merge_with_global_params *)
Merge(child, inherited) ==
  IF RecursiveContext = "parent-priority" THEN Over(inherited, child)
  ELSE Over(child, inherited)

Merges(d, params) == Template[d] /\ Recursive /\ params # Empty

\* What fetching r yields: the document, the parameters it was rendered with,
\* and the two annotations for the traversal of its own tasks.
Load(r, base, params) ==
  LET d == Means[r][base] IN
  [doc |-> d,
   context |-> IF Merges(d, params) THEN Merge(Own[d], params)
               ELSE IF Template[d] THEN Own[d] ELSE Empty,
   sourceDir |-> Dir[d],
   recursiveParams |-> IF Merges(d, params) THEN Merge(Own[d], params) ELSE Empty]

Specs == [doc : Docs, context : Contexts, sourceDir : Bases, recursiveParams : Contexts]

CacheKeyWithoutContext(r, base, params) ==  \* mutant: templates share an entry
  [ref |-> r, base |-> IF DependsOnBase(r) THEN base ELSE NoDir, context |-> Empty]

(* _cache_key *)
CacheKey(r, base, params) ==
  [ref |-> r,
   base |-> IF DependsOnBase(r) THEN base ELSE NoDir,
   context |-> IF Recursive THEN params ELSE Empty]

Keys == [ref : Refs, base : Bases, context : Contexts]

-----------------------------------------------------------------------------
(* The traversal. *)

Frames == [doc : Docs, at : Nat \ {0}, base : Bases, params : Contexts]
Candidates == [ref : Refs, spec : Specs]
NoPick == [ref |-> "none"]
NotGiven == [base |-> "none"]

Top == stack[Len(stack)]
AtTask == stack # <<>> /\ Top.at <= Len(Tasks[Top.doc])
Task == Tasks[Top.doc][Top.at]
IsGraph(d) == Tasks[d] # <<>>
IsInlineGraph == Task.inline # NoDoc /\ IsGraph(Task.inline)

Advanced == [stack EXCEPT ![Len(stack)].at = @ + 1]
Frame(d, base, params) == [doc |-> d, at |-> 1, base |-> base, params |-> params]

Init ==
  /\ status = "idle" /\ calls = 0
  /\ cache = [k \in {} |-> 0]
  /\ globalParams = Empty
  /\ stack = <<>>
  /\ tried = 0 /\ best = NoPick /\ resolved = {}
  /\ given = NotGiven

ForgetCandidates == tried' = 0 /\ best' = NoPick /\ resolved' = {}

\* The finally of hydrate_file: nothing of this call's parameters stays.
EndAs(s) == /\ status' = s /\ stack' = <<>> /\ globalParams' = Empty
            /\ ForgetCandidates

(* hydrate_file: read the pipeline; its parameters start the recursive ones. *)
Start(p) ==
  /\ status # "running" /\ calls < MaxCalls
  /\ calls' = calls + 1
  /\ status' = "running"
  /\ globalParams' = IF Template[p] /\ Recursive THEN Over(Overrides, Own[p]) ELSE Empty
  /\ stack' = << Frame(p, Dir[p], globalParams') >>
  /\ ForgetCandidates
  /\ UNCHANGED <<cache, given>>

(* The pipeline cannot be read, parsed or rendered. *)
StartFails ==
  /\ status # "running" /\ calls < MaxCalls
  /\ calls' = calls + 1
  /\ EndAs("failed")
  /\ UNCHANGED <<cache, given>>

(* Go on with graph d below the current task, unless Python's stack is full. *)
Descend(d, base, params) ==
  \/ /\ Len(stack) < MaxDepth
     /\ stack' = Append(Advanced, Frame(d, base, params))
     /\ globalParams' = IF IsInlineGraph THEN globalParams ELSE Top.params
     /\ ForgetCandidates
     /\ UNCHANGED status
  \/ /\ Len(stack) = MaxDepth
     /\ EndAs("failed")

(* A task that holds its subgraph is not resolved, only traversed. *)
EnterInline ==
  /\ status = "running" /\ AtTask /\ IsInlineGraph
  /\ Descend(Task.inline, Top.base, Top.params)
  /\ UNCHANGED <<cache, calls, given>>

\* The current task names its component and does not hold it already.
Resolving == /\ status = "running" /\ AtTask
             /\ Task.inline = NoDoc /\ Task.refs # <<>>

(* What _resolve_task sets _global_params to. *)
InForce == Top.params

(* A task that names no component, or holds one that is not a graph. *)
Skip ==
  /\ status = "running" /\ AtTask /\ ~IsInlineGraph
  /\ Task.inline # NoDoc \/ Task.refs = <<>>
  /\ globalParams' = InForce
  /\ stack' = Advanced
  /\ ForgetCandidates
  /\ UNCHANGED <<status, cache, calls, given>>

\* The directory and parameters for the tasks of a spec (_extract_source_dir,
\* _extract_recursive_params).
BaseIn(spec) == IF spec.sourceDir # NoDir THEN spec.sourceDir ELSE Top.base
ParamsIn(spec) == IF spec.recursiveParams # Empty THEN spec.recursiveParams ELSE Top.params

(* Put a copy of the spec into the task; if it is a graph, resolve its tasks. *)
Give(r, spec, over) ==
  /\ given' = [ref |-> r, base |-> Top.base, params |-> Top.params,
               spec |-> spec, over |-> over]
  /\ \/ /\ IsGraph(spec.doc)
        /\ Descend(spec.doc, BaseIn(spec), ParamsIn(spec))
     \/ /\ ~IsGraph(spec.doc)
        /\ stack' = Advanced
        /\ globalParams' = InForce
        /\ ForgetCandidates
        /\ UNCHANGED status

\* The cache after spec was fetched under key k.
Cached(k, spec) == [j \in DOMAIN cache \cup {k} |-> IF j = k THEN spec ELSE cache[j]]

OnlyRefWithoutFallback == Len(Task.refs) = 1  \* mutant: no end when none was found

OnlyRef == Len(Task.refs) = 1 \/ (Len(Task.refs) > 1 /\ tried = Len(Task.refs) /\ best = NoPick)

(* _resolve_component_ref: the task's one reference, or its first one again  *)
(* after none of several could be resolved.                                 *)
ResolveRef ==
  /\ Resolving /\ OnlyRef
  /\ LET r == Task.refs[1]
         k == CacheKey(r, Top.base, InForce)
         fetched == Load(r, Top.base, InForce)
     IN \/ /\ k \in DOMAIN cache
           /\ Give(r, cache[k], {})
           /\ UNCHANGED cache
        \/ /\ k \notin DOMAIN cache
           /\ Give(r, fetched, {})
           /\ cache' = Cached(k, fetched)
  /\ UNCHANGED calls

(* The component is not found or fetching it raises. *)
ResolveFails ==
  /\ Resolving /\ OnlyRef
  /\ CacheKey(Task.refs[1], Top.base, InForce) \notin DOMAIN cache
  /\ EndAs("failed")
  /\ UNCHANGED <<cache, calls, given>>

Rank == [digest |-> 0, name |-> 1, url |-> 2]

IsBetterByKind(c, b) ==  \* mutant: the kind before the version
  Rank[c.ref.type] < Rank[b.ref.type]

(* _pick_best_candidate: the higher version, else the earlier kind.  The     *)
(* candidates are compared as they are found.                                *)
IsBetter(c, b) ==
  LET cv == Version[c.spec.doc]  bv == Version[b.spec.doc] IN
  cv > bv \/ (cv = bv /\ Rank[c.ref.type] < Rank[b.ref.type])

Consider(c) == /\ resolved' = resolved \cup {c}
               /\ best' = IF best = NoPick \/ IsBetter(c, best) THEN c ELSE best

(* _try_resolve_single_ref: one of several; its failure is only logged. *)
TryRef ==
  /\ Resolving /\ Len(Task.refs) > 1 /\ tried < Len(Task.refs)
  /\ globalParams' = InForce
  /\ tried' = tried + 1
  /\ LET r == Task.refs[tried + 1]
         k == CacheKey(r, Top.base, InForce)
         fetched == Load(r, Top.base, InForce)
     IN \/ /\ k \in DOMAIN cache
           /\ Consider([ref |-> r, spec |-> cache[k]])
           /\ UNCHANGED cache
        \/ /\ k \notin DOMAIN cache
           /\ Consider([ref |-> r, spec |-> fetched])
           /\ cache' = Cached(k, fetched)
        \/ /\ k \notin DOMAIN cache
           /\ UNCHANGED <<cache, resolved, best>>
  /\ UNCHANGED <<status, calls, stack, given>>

(* _resolve_best_ref: the best of those that could be resolved. *)
Choose ==
  /\ Resolving /\ Len(Task.refs) > 1 /\ tried = Len(Task.refs) /\ best # NoPick
  /\ Give(best.ref, best.spec, resolved)
  /\ UNCHANGED <<cache, calls>>

(* A graph is finished: go on behind its task, or end the call. *)
Return ==
  /\ status = "running" /\ stack # <<>> /\ ~AtTask
  /\ \/ /\ Len(stack) = 1
        /\ EndAs("done")
     \/ /\ Len(stack) > 1
        /\ stack' = SubSeq(stack, 1, Len(stack) - 1)
        /\ ForgetCandidates
        /\ UNCHANGED <<status, globalParams>>
  /\ UNCHANGED <<cache, calls, given>>

(* The output cannot be written. *)
WriteFails ==
  /\ status = "running" /\ Len(stack) = 1 /\ ~AtTask
  /\ EndAs("failed")
  /\ UNCHANGED <<cache, calls, given>>

Work == \/ EnterInline \/ Skip \/ ResolveRef \/ ResolveFails \/ TryRef \/ Choose
        \/ Return \/ WriteFails
Next == (\E p \in Pipelines : Start(p)) \/ StartFails \/ Work

Spec == Init /\ [][Next]_vars

\* The traversal is one sequential program: it goes on while it can.
FairSpec == Spec /\ WF_vars(Work)

-----------------------------------------------------------------------------
(* Correctness. *)

TypeOK ==
  /\ status \in {"idle", "running", "done", "failed"}
  /\ calls \in 0..MaxCalls
  /\ DOMAIN cache \subseteq Keys /\ \A k \in DOMAIN cache : cache[k] \in Specs
  /\ globalParams \in Contexts
  /\ stack \in Seq(Frames) /\ Len(stack) <= MaxDepth
  /\ status = "running" <=> stack # <<>>
  /\ tried \in Nat
  /\ best \in Candidates \cup {NoPick}
  /\ resolved \subseteq Candidates

(* Every component put into a task, cached or not, is the one its reference *)
(* means where the task stands: in the directory of the file that holds it  *)
(* and under the parameters of the templates around it.  The cache never    *)
(* returns what was loaded for another place, also not of an earlier call.  *)
GivenIsFresh ==
  given # NotGiven => given.spec = Load(given.ref, given.base, given.params)

(* Each graph being traversed has the directory of the innermost local file *)
(* around its tasks, and the parameters that its template and the ones      *)
(* around it make together: neither is lost in the cache or taken from the  *)
(* pipeline that called.                                                    *)
ParamsWithin(d, params) == IF Merges(d, params) THEN Merge(Own[d], params) ELSE params
Inherits(inner, outer) ==
  /\ inner.base = IF Dir[inner.doc] # NoDir THEN Dir[inner.doc] ELSE outer.base
  /\ inner.params = ParamsWithin(inner.doc, outer.params)
FramesInContext == \A i \in 2..Len(stack) : Inherits(stack[i], stack[i - 1])

(* Of a task's several references the one given has the highest version of  *)
(* all that could be resolved, and the most specific kind among equals,     *)
(* whichever of them were cached, missing or failing.                       *)
AsGood(b, c) ==
  LET v == Version[c.spec.doc]  w == Version[b.spec.doc] IN
  /\ v <= w
  /\ v = w => Rank[b.ref.type] <= Rank[c.ref.type]
BestOfResolved == given # NotGiven => \A c \in given.over : AsGood(given, c)

(* What a task is given fits its own place and is the best there was, and    *)
(* its graph is traversed in the context of that place.                      *)
FitsItsPlace == GivenIsFresh /\ FramesInContext /\ BestOfResolved

(* The decompiler relies on a reference carrying several locators to come    *)
(* back unresolved, not as an error, when none of them resolves              *)
(* (pipeline_decompiler.py 1682); only endless nesting may fail such a task. *)
SeveralNeverRaise ==
  [][Resolving /\ Len(Task.refs) > 1 /\ status' = "failed" => Len(stack) = MaxDepth]_vars

(* Every call ends, also when components contain each other: then Python's  *)
(* recursion limit ends it.                                                 *)
Ends == status = "running" ~> status # "running"
=============================================================================
