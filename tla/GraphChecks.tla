---------------------------- MODULE GraphChecks ----------------------------
(***************************************************************************)
(* Validation and layout of a pipeline document (pipeline_validation.py and *)
(* the layout part of pipelines.py), and what the backend makes of the same *)
(* document.  Two collectors read the nested graphs, one for their shape and *)
(* order, one for the wiring of their inputs; they do not descend into the   *)
(* same ones.  The layout sorts each graph by a queue of its own.  The       *)
(* backend starts a task when its graph has started and all it waits for is  *)
(* done; it is what the checks speak about.                                 *)
(***************************************************************************)
EXTENDS Naturals, Sequences, FiniteSets

LOCAL INSTANCE SequencesExt
LOCAL INSTANCE FiniteSetsExt
LOCAL INSTANCE Functions

CONSTANTS
  Components, \* name -> the spec of a component; no graph contains itself
  Sorted,     \* all task ids, in alphabetical order
  Documents   \* the documents, and how each of them is treated

VARIABLES
  document,  \* the document at hand
  checking,  \* "root", "graphs", "layout", "sort", "run", "over"
  errors,    \* what the checks have found
  shapeOf,   \* paths of the graphs whose shape is left to check
  wiringOf,  \* paths of the graphs whose wiring is left to check
  layoutOf,  \* paths of the graphs that are left to lay out
  ready,     \* _task_layers: the queue
  incoming,  \* _task_layers: task -> edges into it that are left
  layer,     \* _task_layers: layer_by_task
  position,  \* path of a task -> its layer and its row
  begun,     \* the backend: paths of the graphs that have started
  done       \* the backend: paths of what has finished

sorting == <<ready, incoming, layer>>
checkVars == <<document, checking, errors, shapeOf, wiringOf, layoutOf, sorting, position, begun, done>>
-----------------------------------------------------------------------------
(* Values of arguments and conditions: a text, an input of the graph, or an  *)
(* output of a task; "within" are tasks whose outputs stand deeper inside.   *)
Value(kind, of, output, within) == [kind |-> kind, of |-> of, output |-> output, within |-> within]
Text == Value("text", "", "", {})

OutputRefs(value) == value.within \union {value.of : k \in {"output"} \intersect {value.kind}}
ArgumentRefs(task) == UNION {OutputRefs(v) : v \in Range(task.arguments)}
\* Mutant: conditions left out of the dependencies.
DependsWithoutCondition(task) == ToSet(task.dependencies) \union ArgumentRefs(task)

DependsOn(task) == ToSet(task.dependencies) \union ArgumentRefs(task) \union OutputRefs(task.isEnabled)

Ids(spec) == DOMAIN spec.tasks
Known(task) == task.by \in {"spec", "text"}
ComponentOf(task) == Components[task.component]
SpecAt(path) == FoldLeft(LAMBDA s, id : ComponentOf(s.tasks[id]), document.spec, path)

Edges(spec) == {e \in Ids(spec) \X Ids(spec) : e[1] \in DependsOn(spec.tasks[e[2]])}
GraphTasks(spec, by) ==
  {t \in Ids(spec) : spec.tasks[t].by \in by /\ ComponentOf(spec.tasks[t]).graph}
NestedGraphs(path, by) == {Append(path, t) : t \in GraphTasks(SpecAt(path), by)}

(* _find_cycle: depth first, in alphabetical order.                          *)
RECURSIVE Visit(_, _, _)
Visit(node, search, edges) ==
  LET next == SelectSeq(Sorted, LAMBDA n : <<node, n>> \in edges)
      below == FoldLeft(LAMBDA s, n : Visit(n, s, edges), [search EXCEPT !.stack = Append(@, node)], next)
      start == CHOOSE i \in DOMAIN search.stack : search.stack[i] = node
  IN CASE search.cycle # <<>> \/ node \in search.visited -> search
       [] search.cycle = <<>> /\ node \in ToSet(search.stack) ->
            [search EXCEPT !.cycle = Append(SubSeq(search.stack, start, Len(search.stack)), node)]
       [] OTHER -> [below EXCEPT !.stack = search.stack, !.visited = @ \union {node}]
FindCycle(spec) ==
  FoldLeft(LAMBDA s, n : Visit(n, s, Edges(spec)),
           [stack |-> <<>>, visited |-> {}, cycle |-> <<>>],
           SelectSeq(Sorted, LAMBDA n : n \in Ids(spec))).cycle

Error(path, why, cycle) == [path |-> path, why |-> why, cycle |-> cycle]

(* The errors that _validate_graph_spec finds in one graph.                  *)
ShapeErrors(path) ==
  LET spec == SpecAt(path)
      lacks == {t \in Ids(spec) : ~spec.tasks[t].named /\ ~Known(spec.tasks[t])}
      refs == UNION {DependsOn(spec.tasks[t]) : t \in Ids(spec)} \union spec.outputValues
      cycle == FindCycle(spec)
  IN {Error(Append(path, t), "component", <<>>) : t \in lacks}
     \union {Error(path, "unknown task", <<>>) : t \in refs \ Ids(spec)}
     \union {Error(path, "cycle", cycle) : c \in {cycle} \ {<<>>}}

(* A reference by name that leads nowhere, at the top of a value only.       *)
Dangles(value, spec) ==
  \/ value.kind = "input" /\ value.of \notin DOMAIN spec.inputs
  \/ /\ value.kind = "output"
     /\ \/ value.of \notin Ids(spec)
        \/ /\ Known(spec.tasks[value.of])
           /\ value.output \notin ComponentOf(spec.tasks[value.of]).outputs

Required(input) == ~input.optional /\ ~input.default

(* The errors that _validate_task_inputs finds for one task.                 *)
TaskErrors(path, id) ==
  LET spec == SpecAt(path)
      task == spec.tasks[id]
      given == DOMAIN task.arguments
      inputs == ComponentOf(task).inputs
  IN {Error(Append(path, id), "condition", <<>>) : v \in {v \in {task.isEnabled} : Dangles(v, spec)}}
     \union IF ~Known(task) THEN {} ELSE
       {Error(Append(path, id), "undeclared", <<>>) :
          n \in IF document.lenient THEN {} ELSE given \ DOMAIN inputs}
       \union {Error(Append(path, id), "required", <<>>) :
          n \in {n \in DOMAIN inputs \ given : Required(inputs[n])}}
       \union {Error(Append(path, id), "reference", <<>>) :
          n \in {n \in DOMAIN inputs \intersect given : Dangles(task.arguments[n], spec)}}

WiringErrors(path) == UNION {TaskErrors(path, t) : t \in Ids(SpecAt(path))}

(* The schema; what it says of arguments is not taken.                       *)
SchemaErrors == {Error(<<>>, "schema", <<>>) : m \in document.misfits \ {"arguments"}}
RootErrors == {Error(<<>>, "name", <<>>) : n \in {document.name} \ {TRUE}}
              \union {Error(<<>>, "graph", <<>>) : g \in {document.spec.graph} \ {TRUE}}
Rooted == {<<>> : g \in {document.spec.graph} \ {FALSE}}
-----------------------------------------------------------------------------
Nothing == [t \in {} |-> 0]

CheckInit ==
  /\ document \in Documents
  /\ checking = "root"
  /\ errors = {} /\ shapeOf = {} /\ wiringOf = {} /\ layoutOf = {}
  /\ ready = <<>> /\ incoming = Nothing /\ layer = Nothing
  /\ position = Nothing /\ begun = {} /\ done = {}

(* collect_pipeline_spec_errors; layout_pipeline_spec may be called without. *)
CheckRoot ==
  /\ checking = "root" /\ ~document.direct
  /\ errors' = RootErrors \union SchemaErrors
  /\ shapeOf' = Rooted /\ wiringOf' = Rooted
  /\ checking' = "graphs"
  /\ UNCHANGED <<document, layoutOf, sorting, position, begun, done>>

CheckShape ==
  /\ checking = "graphs"
  /\ \E path \in shapeOf :
       /\ errors' = errors \union ShapeErrors(path)
       /\ shapeOf' = (shapeOf \ {path}) \union NestedGraphs(path, {"spec"})
  /\ UNCHANGED <<document, checking, wiringOf, layoutOf, sorting, position, begun, done>>

CheckWiring ==
  /\ checking = "graphs" /\ shapeOf = {}
  /\ \E path \in wiringOf :
       /\ errors' = errors \union WiringErrors(path)
       /\ wiringOf' = (wiringOf \ {path}) \union NestedGraphs(path, {"spec", "text"})
  /\ UNCHANGED <<document, checking, shapeOf, layoutOf, sorting, position, begun, done>>

RECURSIVE NestedSpecs(_)
NestedSpecs(path) == {path} \union UNION {NestedSpecs(p) : p \in NestedGraphs(path, {"spec"})}
ToLayOut == UNION {IF document.recursive THEN NestedSpecs(p) ELSE {p} : p \in Rooted}

(* validate_pipeline_file raises, or the layout begins.                      *)
Checked ==
  /\ \/ checking = "root" /\ document.direct
     \/ checking = "graphs" /\ shapeOf = {} /\ wiringOf = {}
  /\ \/ errors = {} /\ checking' = "layout" /\ layoutOf' = ToLayOut
     \/ errors # {} /\ checking' = "run" /\ UNCHANGED layoutOf
  /\ UNCHANGED <<document, errors, shapeOf, wiringOf, sorting, position, begun, done>>

LayoutPath == CHOOSE p \in layoutOf : \A q \in layoutOf : Len(p) <= Len(q)
TaskNames == SpecAt(LayoutPath).order
LayoutEdges == Edges(SpecAt(LayoutPath))

StartLayers ==
  /\ checking = "layout" /\ layoutOf # {}
  /\ checking' = "sort"
  /\ incoming' = [t \in ToSet(TaskNames) |-> Cardinality({e \in LayoutEdges : e[2] = t})]
  /\ ready' = SelectSeq(TaskNames, LAMBDA t : incoming'[t] = 0)
  /\ layer' = [t \in ToSet(ready') |-> 0]
  /\ UNCHANGED <<document, errors, shapeOf, wiringOf, layoutOf, position, begun, done>>

LayerOf(t) == IF t \in DOMAIN layer THEN layer[t] ELSE 0

PopReady ==
  /\ checking = "sort" /\ ready # <<>>
  /\ LET current == Head(ready)
         targets == {e[2] : e \in {e \in LayoutEdges : e[1] = current}}
     IN /\ layer' = [t \in DOMAIN layer \union targets |->
             IF t \in targets THEN Max({LayerOf(t), layer[current] + 1}) ELSE layer[t]]
        /\ incoming' = [t \in DOMAIN incoming |-> incoming[t] - (IF t \in targets THEN 1 ELSE 0)]
        /\ ready' = Tail(ready) \o SelectSeq(TaskNames, LAMBDA t : t \in targets /\ incoming'[t] = 0)
  /\ UNCHANGED <<document, checking, errors, shapeOf, wiringOf, layoutOf, position, begun, done>>

(* What the queue never reached stands in the first layer; rows count the    *)
(* tasks of a layer in the order of the document.                            *)
Row(t) == Cardinality({i \in DOMAIN TaskNames :
            i < (CHOOSE j \in DOMAIN TaskNames : TaskNames[j] = t) /\ LayerOf(TaskNames[i]) = LayerOf(t)})

EndLayers ==
  /\ checking = "sort" /\ ready = <<>>
  /\ position' = [p \in DOMAIN position \union {Append(LayoutPath, t) : t \in ToSet(TaskNames)} |->
       IF p \in DOMAIN position THEN position[p] ELSE <<LayerOf(Last(p)), Row(Last(p))>>]
  /\ layoutOf' = layoutOf \ {LayoutPath}
  /\ checking' = "layout"
  /\ incoming' = Nothing /\ layer' = Nothing
  /\ UNCHANGED <<document, errors, shapeOf, wiringOf, ready, begun, done>>

LaidOut ==
  /\ checking = "layout" /\ layoutOf = {}
  /\ checking' = "run"
  /\ UNCHANGED <<document, errors, shapeOf, wiringOf, layoutOf, sorting, position, begun, done>>
-----------------------------------------------------------------------------
(* The backend (external): it is handed the document, accepted or not.       *)
Needs(spec, task) ==
  ToSet(task.dependencies)
  \union UNION {OutputRefs(v) : v \in Range(task.arguments) \union {task.isEnabled}}

(* A known component gets a value for all that it requires, and what a value *)
(* names is there; an unknown one is taken to run.                           *)
Supplied(spec, task) ==
  /\ task.named \/ Known(task)
  /\ ~Dangles(task.isEnabled, spec)
  /\ Known(task) =>
       \A n \in DOMAIN ComponentOf(task).inputs :
         IF n \in DOMAIN task.arguments
         THEN ~Dangles(task.arguments[n], spec)
         ELSE Required(ComponentOf(task).inputs[n]) = FALSE

BeginRoot ==
  /\ checking = "run" /\ Rooted \ begun # {}
  /\ begun' = Rooted
  /\ UNCHANGED <<document, checking, errors, shapeOf, wiringOf, layoutOf, sorting, position, done>>

CanStart(path, id) ==
  LET task == SpecAt(path).tasks[id]
  IN /\ Append(path, id) \notin begun \union done
     /\ \A t \in Needs(SpecAt(path), task) : Append(path, t) \in done
     /\ Supplied(SpecAt(path), task)

RunTask ==
  /\ checking = "run"
  /\ \E path \in begun : \E id \in Ids(SpecAt(path)) :
       /\ CanStart(path, id)
       /\ IF Append(path, id) \in NestedGraphs(path, {"spec", "text"})
          THEN begun' = begun \union {Append(path, id)} /\ UNCHANGED done
          ELSE done' = done \union {Append(path, id)} /\ UNCHANGED begun
  /\ UNCHANGED <<document, checking, errors, shapeOf, wiringOf, layoutOf, sorting, position>>

Fulfilled(path) ==
  \A t \in Ids(SpecAt(path)) \union SpecAt(path).outputValues : Append(path, t) \in done

FinishGraph ==
  /\ checking = "run"
  /\ \E path \in begun \ done : Fulfilled(path) /\ done' = done \union {path}
  /\ UNCHANGED <<document, checking, errors, shapeOf, wiringOf, layoutOf, sorting, position, begun>>

RunIsOver ==
  /\ checking = "run" /\ Rooted \subseteq begun
  /\ \A path \in begun : \A id \in Ids(SpecAt(path)) : ~CanStart(path, id)
  /\ \A path \in begun \ done : ~Fulfilled(path)
  /\ checking' = "over"
  /\ UNCHANGED <<document, errors, shapeOf, wiringOf, layoutOf, sorting, position, begun, done>>

CheckNext ==
  \/ CheckRoot \/ CheckShape \/ CheckWiring \/ Checked
  \/ StartLayers \/ PopReady \/ EndLayers \/ LaidOut
  \/ BeginRoot \/ RunTask \/ FinishGraph \/ RunIsOver
-----------------------------------------------------------------------------
(* The order of a graph's tasks, by its definition: all that a task waits    *)
(* for, directly or not.                                                     *)
RECURSIVE Before(_, _)
Before(spec, tasks) ==
  LET more == tasks \union UNION {Needs(spec, spec.tasks[t]) : t \in tasks \intersect Ids(spec)}
  IN IF more = tasks THEN tasks ELSE Before(spec, more)
Ancestors(spec, t) == Before(spec, Needs(spec, spec.tasks[t]))
Ordered(spec, t) ==
  \A u \in Ancestors(spec, t) \union {t} : u \in Ids(spec) => u \notin Ancestors(spec, u)

Opaque(path) == \E i \in DOMAIN path : SpecAt(SubSeq(path, 1, i - 1)).tasks[path[i]].by = "text"
Harmless == {"undeclared", "name", "schema"}

(* A document without errors never gets stuck, unless in a graph that is     *)
(* given as text, whose order no check reads; one that runs to its end had   *)
(* no errors but of a kind that hinders no run.                              *)
AcceptedIsRunnable ==
  /\ ~document.direct /\ errors = {} => <<>> \in done \/ \E p \in begun \ done : Opaque(p)
  /\ <<>> \in done => \A e \in errors : e.why \in Harmless

(* A cycle that is reported is one: each of its tasks waits for the one      *)
(* before it, and none of them has run.                                      *)
ReportedCyclesAreReal ==
  \A e \in {e \in errors : e.why = "cycle"} :
    /\ Len(e.cycle) > 1 /\ e.cycle[1] = Last(e.cycle)
    /\ \A i \in 2 .. Len(e.cycle) :
         e.cycle[i - 1] \in Needs(SpecAt(e.path), SpecAt(e.path).tasks[e.cycle[i]])
    /\ \A t \in ToSet(e.cycle) : Append(e.path, t) \notin done

(* Every task of a graph laid out has a place of its own, and one whose      *)
(* order is settled stands right after the last of those it waits for.       *)
LayoutFollowsOrder ==
  \A p \in DOMAIN position :
    LET spec == SpecAt(Front(p))
        sources == Needs(spec, spec.tasks[Last(p)]) \intersect Ids(spec)
    IN /\ \A q \in DOMAIN position \ {p} : Front(q) = Front(p) => position[q] # position[p]
       /\ \A t \in Ids(spec) : Append(Front(p), t) \in DOMAIN position
       /\ Ordered(spec, Last(p)) =>
            position[p][1] =
              Max({0} \union {position[Append(Front(p), t)][1] + 1 : t \in sources})

(* What validation says of a document agrees with what becomes of it in the  *)
(* backend, and the layout with the order its tasks run in.                  *)
ChecksAgree ==
  checking = "over" => AcceptedIsRunnable /\ ReportedCyclesAreReal /\ LayoutFollowsOrder
=============================================================================
