----------------------------- MODULE Decompiler -----------------------------
(***************************************************************************)
(* decompile_pipeline_file (pipeline_decompiler.py): a pipeline, hydrated or *)
(* not, becomes Python.  Every component is resolved and pinned through a    *)
(* sidecar, every graph becomes a function, leaves made from Python become   *)
(* tasks of a package, and leaves the library has are named by digest.  All  *)
(* is staged and checked, then published (StagedPublish).                    *)
(***************************************************************************)
EXTENDS Naturals, Sequences, FiniteSets, TLC

LOCAL INSTANCE SequencesExt

CONSTANTS
  Inputs,      \* the calls: a document and the options
  Components,  \* content of a component -> what it says of itself
  Spelling     \* names that are not identifiers -> the words they have

(* Names are sequences of words, as _python_identifier joins them with "_".  *)
Helpers == {<<"dynamic", "secret">>, <<"graph", "input">>, <<"graph", "output">>,
            <<"pipeline">>, <<"raw">>, <<"ref">>}
Builtins == {<<"getattr">>, <<"input">>}
LocalPrefixes == {"input", "task"}
ReservedGlobals == Helpers \cup {<<"subpipeline">>, <<"task">>}
ReservedKeywords == {<<"is", "enabled">>}
NoName == <<>>
NoLeaf == [spec |-> "", digest |-> ""]

Words(name) == IF name \in DOMAIN Spelling THEN Spelling[name] ELSE <<name>>
Identifier(name) ==
  LET words == Words(name) IN
  IF words \in Helpers \cup Builtins \cup {<<"subpipeline">>} THEN Append(words, "") ELSE words

-----------------------------------------------------------------------------
(* Allocation of names. *)

Suffixed(base, digest, attempt) ==
  CASE attempt = 0 -> base
    [] attempt = 1 -> Append(base, digest)
    [] OTHER       -> base \o <<digest, ToString(attempt)>>

FirstFree(base, digest, taken) ==
  LET free(n) == Suffixed(base, digest, n) \notin taken
      n == CHOOSE i \in 0..Cardinality(taken) : free(i) /\ \A j \in 0..(i - 1) : ~free(j)
  IN Suffixed(base, digest, n)

\* Mutant: a clash with a helper is seen, one with another function is not.
FunctionNameOnce(name, digest, taken) == FirstFree(Identifier(name), digest, ReservedGlobals)
FunctionName(name, digest, taken) ==
  LET base == Identifier(name)
      local == Len(base) > 1 /\ Head(base) \in LocalPrefixes
  IN FirstFree(IF local \/ base \in ReservedGlobals THEN <<"graph">> \o base ELSE base,
               digest, taken \cup ReservedGlobals)

\* Inputs and tasks of one function body: [kind |-> , of |-> ] -> name.
LocalNames(inputs, tasks) ==
  LET give(names, key) ==
        names @@ (key :> FirstFree(<<key.kind>> \o Identifier(key.of), "hash of " \o key.of,
                                   Helpers \cup {names[k] : k \in DOMAIN names}))
      keys == [i \in DOMAIN inputs |-> [kind |-> "input", of |-> inputs[i]]]
                \o [i \in DOMAIN tasks |-> [kind |-> "task", of |-> tasks[i].id]]
  IN FoldLeft(give, <<>>, keys)

-----------------------------------------------------------------------------
VARIABLES
  source,    \* the call, fixed from the start
  step,      \* what is done next, or "over"
  verdict,   \* "none", "published", or why it was refused
  verified,  \* the leaves whose digest the library returned them for
  sidecar,   \* the fragments staged in <stem>.leaves.yaml
  assets,    \* the contents staged in <stem>.leaves/
  units,     \* the graphs to emit, deepest first and the root last
  recovered, \* the fragments that become Python tasks, in the order of their URLs
  emitted,   \* fragment -> the task emitted for it
  byDigest,  \* the fragments referenced by their digest alone
  code       \* the generated modules

staged == <<sidecar, assets>>
decompileVars == <<source, step, verdict, verified, staged, units, recovered, emitted, byDigest, code>>

Graph(g) == source.graph[g]
Leaf(c) == source.leaf[c]
NoCode == [root |-> <<>>, companion |-> <<>>, package |-> <<>>]

RECURSIVE Within(_)
Within(g) ==
  {g} \cup UNION {Within(Graph(g).tasks[i].graph) :
                    i \in {j \in DOMAIN Graph(g).tasks : Graph(g).tasks[j].graph # ""}}
Graphs == Within(source.root)
TasksOf(g) == {Graph(g).tasks[i] : i \in DOMAIN Graph(g).tasks}
Uses == UNION {TasksOf(g) : g \in Graphs}
LeavesUsed == {t.leaf : t \in Uses} \ {""}

DecompileInit ==
  /\ source \in Inputs
  /\ step = "accept" /\ verdict = "none"
  /\ verified = {} /\ sidecar = {} /\ assets = {} /\ units = <<>> /\ recovered = <<>>
  /\ emitted = <<>> /\ byDigest = {} /\ code = NoCode

Refuse(why) == /\ step' = "over" /\ verdict' = why
               /\ UNCHANGED <<source, verified, staged, units, recovered, emitted, byDigest, code>>
Proceed(next) == step' = next /\ UNCHANGED <<source, verdict>>

-----------------------------------------------------------------------------
(* Reading the input and pinning its components. *)

(* The input is classified and checked as it is, before anything resolves.   *)
Accept == /\ step = "accept"
          /\ IF source.flaw # "none" THEN Refuse(source.flaw)
             ELSE Proceed("resolve")
                  /\ UNCHANGED <<verified, staged, units, recovered, emitted, byDigest, code>>

(* Each component resolves without code being run, or the first one that     *)
(* does not ends it; one that comes back without a spec is refused after.    *)
Unresolved == {Leaf(c).found : c \in LeavesUsed} \ {"spec"}
ResolveInput ==
  /\ step = "resolve"
  /\ IF Unresolved = {}
       THEN Proceed("pin") /\ UNCHANGED <<verified, staged, units, recovered, emitted, byDigest, code>>
       ELSE IF Unresolved = {"several"} THEN Refuse("several")
       ELSE \E why \in Unresolved \ {"several"} : Refuse(why)

(* A digest goes into the fragment of a leaf, before its local copy, when    *)
(* the library answers and returns this very component for it.               *)
FragmentGiven(c, sure) ==
  [spec |-> Leaf(c).spec, digest |-> IF c \in sure THEN Leaf(c).digest ELSE ""]
Fragment(c) == FragmentGiven(c, verified)

Library(digest) ==
  LET of == {Leaf(c).spec : c \in {d \in DOMAIN source.leaf :
                                     Leaf(d).published /\ Leaf(d).digest = digest}}
  IN IF of = {} THEN "" ELSE CHOOSE s \in of : TRUE

Pin == /\ step = "pin"
       /\ \E sure \in SUBSET {c \in LeavesUsed : Leaf(c).published} :
            /\ verified' = sure
            /\ sidecar' = {FragmentGiven(c, sure) : c \in LeavesUsed}
       /\ assets' = {Leaf(c).spec : c \in LeavesUsed}
       /\ Proceed("preserved") /\ UNCHANGED <<units, recovered, emitted, byDigest, code>>

\* What a fragment resolves to, with and without the library.
Through(f, online) ==
  IF f \notin sidecar THEN ""
  ELSE IF online /\ f.digest # "" THEN Library(f.digest)
  ELSE IF f.spec \in assets THEN f.spec ELSE ""

PinningPreserved ==
  /\ step = "preserved"
  /\ IF \A c \in LeavesUsed, online \in BOOLEAN : Through(Fragment(c), online) = Leaf(c).spec
       THEN Proceed("split") /\ UNCHANGED <<verified, staged, units, recovered, emitted, byDigest, code>>
       ELSE Refuse("pinning")

-----------------------------------------------------------------------------
(* One unit for each graph: its document, with nested graphs by name.        *)

DocumentKey(doc) == doc

RECURSIVE Visit(_, _)
UnitOf(g, st) ==
  LET seen == Visit(g, st)
      doc == [name |-> Graph(g).name, inputs |-> Graph(g).inputs,
              outputs |-> Graph(g).outputs, bad |-> Graph(g).bad, tasks |-> seen.tasks]
      same == {i \in DOMAIN seen.units : DocumentKey(seen.units[i].doc) = DocumentKey(doc)}
      name == FunctionName(doc.name, "d" \o ToString(Len(seen.units) + 1), seen.taken)
  IN IF same # {} THEN [at |-> CHOOSE i \in same : TRUE, units |-> seen.units, taken |-> seen.taken]
     ELSE [at |-> Len(seen.units) + 1, taken |-> seen.taken \cup {name},
           units |-> Append(seen.units, [function |-> name, doc |-> doc])]

Visit(g, st) ==
  LET add(acc, t) ==
        IF t.graph = ""
          THEN [acc EXCEPT !.tasks = Append(@, [t EXCEPT !.leaf = Fragment(t.leaf), !.graph = NoName])]
          ELSE LET u == UnitOf(t.graph, acc)
               IN [units |-> u.units, taken |-> u.taken,
                   tasks |-> Append(acc.tasks, [t EXCEPT !.graph = u.units[u.at].function,
                                                         !.leaf = NoLeaf])]
  IN FoldLeft(add, [units |-> st.units, taken |-> st.taken, tasks |-> <<>>], Graph(g).tasks)

RootName == Identifier(Graph(source.root).name)
SplitUnits ==
  LET root == Visit(source.root, [units |-> <<>>, taken |-> {RootName}])
      g == Graph(source.root)
  IN Append(root.units, [function |-> RootName,
       doc |-> [name |-> g.name, inputs |-> g.inputs, outputs |-> g.outputs,
                bad |-> g.bad, tasks |-> root.tasks]])

Gated == \E t \in Uses : t.graph # "" /\ t.enabled # {}
Split == /\ step = "split"
         /\ IF Gated THEN Refuse("subgraph task")
            ELSE IF Len(SplitUnits) > 1 /\ ~source.plain THEN Refuse("output name")
            ELSE /\ units' = SplitUnits
                 /\ Proceed("recover")
                 /\ UNCHANGED <<verified, staged, recovered, emitted, byDigest, code>>

-----------------------------------------------------------------------------
(* Leaves that the generator made from Python. *)

Stem(param) == IF Len(param) > 1 /\ param[Len(param)] \in {"path", "file"}
                 THEN SubSeq(param, 1, Len(param) - 1) ELSE param
Claims(spec, param) == {param, Stem(param)} \cap (spec.inputs \cup spec.outputs)
Fixed(spec) == spec.params \ spec.unwrap
Claimed(spec) == UNION {Claims(spec, p) : p \in Fixed(spec)}
Owners(spec, in) == {u \in spec.unwrap : Len(in) > Len(u) /\ SubSeq(in, 1, Len(u)) = u}
Synthetic(spec, u) == {in \in spec.inputs : u \in Owners(spec, in)}

(* A parameter names one input or output of its own, any other input is of   *)
(* one unwrapped parameter, and outputs nobody names are returned.           *)
InterfaceMatches(spec) ==
  /\ spec.inputs \cap spec.outputs = {}
  /\ spec.unwrap \subseteq spec.params \ spec.inputs
  /\ \A p \in Fixed(spec) : Cardinality(Claims(spec, p)) = 1
  /\ \A p, q \in Fixed(spec) : Claims(spec, p) \cap Claims(spec, q) # {} => p = q
  /\ \A in \in spec.inputs :
       Cardinality(Owners(spec, in)) = IF in \in Claimed(spec) THEN 0 ELSE 1
  /\ \A u \in spec.unwrap : Synthetic(spec, u) # {}
  /\ spec.outputs \subseteq Claimed(spec) \/ spec.returns

FitsCall(spec, t) ==
  \A u \in spec.unwrap : u \notin DOMAIN t.args /\ Synthetic(spec, u) \subseteq DOMAIN t.args
                         /\ \A a \in DOMAIN t.args : u \in Owners(spec, a) => a \in spec.inputs
CallsFit(f) ==
  \A t \in Uses : t.leaf # "" /\ Fragment(t.leaf) = f => FitsCall(Components[f.spec], t)

Recoverable == {f \in sidecar : /\ Components[f.spec].made /\ InterfaceMatches(Components[f.spec])
                                /\ CallsFit(f)}
Recover ==
  /\ step = "recover"
  /\ LET tasks == IF source.python THEN Recoverable ELSE {} IN
     IF tasks # {} /\ ~source.plain THEN Refuse("output name")
     ELSE /\ \E order \in SetToSeqs(tasks) : recovered' = order
          /\ Proceed("allocate")
          /\ UNCHANGED <<verified, staged, units, emitted, byDigest, code>>

(* One module for each distinct source, function and settings; its task and  *)
(* its module are named by the allocator of the functions.                   *)
Allocate ==
  /\ step = "allocate"
  /\ LET give(acc, f) ==
           LET spec == Components[f.spec]
               same == {e \in DOMAIN acc.tasks : Components[e.spec].key = spec.key}
               name == FunctionName(spec.function, spec.key, acc.taken)
               module == FunctionName(spec.hint, spec.key, acc.taken \cup {name})
           IN IF same # {}
                THEN [acc EXCEPT !.tasks = @ @@ (f :> @[CHOOSE e \in same : TRUE])]
                ELSE [tasks |-> acc.tasks @@ (f :> [name |-> name, module |-> module, spec |-> f.spec]),
                      taken |-> acc.taken \cup {name, module}]
         taken == {units[i].function : i \in DOMAIN units}
     IN emitted' = FoldLeft(give, [tasks |-> <<>>, taken |-> taken], recovered).tasks
  /\ byDigest' = IF source.copies THEN {}
                 ELSE {f \in sidecar : f.digest # "" /\ f \notin {recovered[i] : i \in DOMAIN recovered}}
  /\ Proceed("plan") /\ UNCHANGED <<verified, staged, units, recovered, code>>

-----------------------------------------------------------------------------
(* Each unit becomes a function: the tasks in an order Python can run, the   *)
(* inputs and tasks in variables.                                            *)

Sources(t) == {t.args[k] : k \in DOMAIN t.args} \cup t.enabled
Producers(doc, t) == {s.of : s \in {e \in Sources(t) : e.from = "task"}}
                       \cap {u.id : u \in ToSet(doc.tasks)}
SelfReference(doc) == \E t \in ToSet(doc.tasks) : t.id \in Producers(doc, t)

\* One task a round: the first of the document whose producers are written.
TopologicalOrder(doc) ==
  LET written(done) == {t.id : t \in ToSet(done)}
      ready(done) == {i \in DOMAIN doc.tasks : LET t == doc.tasks[i] IN
                        /\ t.id \notin written(done)
                        /\ Producers(doc, t) \ {t.id} \subseteq written(done)}
      next(done, round) ==
        IF ready(done) = {} THEN done
        ELSE Append(done, doc.tasks[CHOOSE i \in ready(done) : \A j \in ready(done) : i <= j])
  IN FoldLeft(next, <<>>, [i \in DOMAIN doc.tasks |-> i])

Edges(doc) == UNION {Sources(t) : t \in ToSet(doc.tasks)}
                \cup {doc.outputs[o] : o \in DOMAIN doc.outputs}
Undefined(doc) ==
  \/ \E e \in Edges(doc) : \/ e.from = "task" /\ e.of \notin {t.id : t \in ToSet(doc.tasks)}
                           \/ e.from = "input" /\ e.of \notin ToSet(doc.inputs)
  \/ \E o \in DOMAIN doc.outputs : doc.outputs[o].from \notin {"task", "input"}
Unsupported(doc) == IF doc.bad = "" THEN {} ELSE {doc.bad}
PlanRefuses(doc) ==
  Unsupported(doc)
    \cup (IF Len(TopologicalOrder(doc)) < Len(doc.tasks) THEN {"cycle"} ELSE {})
    \cup (IF Undefined(doc) THEN {"undefined"} ELSE {})

Expression(names, e) ==
  IF e.from \in {"task", "input"}
    THEN [from |-> "variable", of |-> "", var |-> names[[kind |-> e.from, of |-> e.of]]]
    ELSE [from |-> e.from, of |-> e.of, var |-> NoName]

\* What a task calls: a graph, the Python task of its leaf, or its reference.
Callee(t, converted) ==
  LET f == t.leaf IN
  IF t.graph # NoName THEN [kind |-> "subpipeline", name |-> t.graph, leaf |-> NoLeaf]
  ELSE IF converted /\ f \in DOMAIN emitted
         THEN [kind |-> "task", name |-> emitted[f].name, leaf |-> NoLeaf]
  ELSE IF converted /\ f \in byDigest
         THEN [kind |-> "digest", name |-> NoName, leaf |-> [NoLeaf EXCEPT !.digest = f.digest]]
  ELSE [kind |-> "ref", name |-> NoName, leaf |-> f]

(* An input named like metadata of the call goes through .bind(), those a    *)
(* recovered parameter was flattened to go back into one dict.               *)
Way(key) == IF key \in ReservedKeywords THEN "bind" ELSE "keyword"
Passed(names, t, converted) ==
  LET spec == Components[emitted[t.leaf].spec]
      owner(key) == IF converted /\ t.graph = NoName /\ t.leaf \in DOMAIN emitted /\ key \in spec.inputs
                      THEN Owners(spec, key) ELSE {}
  IN {[way |-> IF owner(key) = {} THEN Way(key) ELSE "dict", name |-> key, param |-> owner(key),
       value |-> Expression(names, t.args[key])] : key \in DOMAIN t.args}
     \cup {[way |-> "keyword", name |-> <<"is", "enabled">>, param |-> {},
            value |-> Expression(names, e)] : e \in t.enabled}

NoBody == [inputs |-> <<>>, tasks |-> <<>>, outputs |-> <<>>, name |-> ""]
Body(doc, converted) ==
  LET tasks == TopologicalOrder(doc)
      names == LocalNames(doc.inputs, tasks)
  IN [name |-> doc.name,
      inputs |-> [i \in DOMAIN doc.inputs |->
                    [of |-> doc.inputs[i], var |-> names[[kind |-> "input", of |-> doc.inputs[i]]]]],
      tasks |-> [i \in DOMAIN tasks |->
                   [of |-> tasks[i].id, var |-> names[[kind |-> "task", of |-> tasks[i].id]],
                    callee |-> Callee(tasks[i], converted), passed |-> Passed(names, tasks[i], converted)]],
      outputs |-> [o \in DOMAIN doc.outputs |-> Expression(names, doc.outputs[o])]]

(* A module is what it binds, in order: a later binding of a name replaces   *)
(* an earlier one.  The root imports its companion, both the tasks package.  *)
Calls(body, kind) == {s.callee.name : s \in {t \in ToSet(body.tasks) : t.callee.kind = kind}}
Imported(kind, names) == [kind |-> kind, names |-> names, body |-> NoBody]
Module(functions, companion) ==
  LET called(kind) == UNION {Calls(f.body, kind) : f \in ToSet(functions)}
      helpers == IF called("subpipeline") = {} THEN Helpers ELSE Helpers \cup {<<"subpipeline">>}
  IN <<Imported("helper", helpers),
       Imported("companion", IF companion THEN called("subpipeline") ELSE {}),
       Imported("task", called("task"))>>
     \o [i \in DOMAIN functions |->
           [kind |-> "function", names |-> {functions[i].name}, body |-> functions[i].body]]
Rendered(converted) ==
  LET functions == [i \in DOMAIN units |->
                      [name |-> units[i].function, body |-> Body(units[i].doc, converted)]]
  IN [NoCode EXCEPT !.root = Module(<<Last(functions)>>, Len(units) > 1),
                    !.companion = IF Len(units) = 1 THEN <<>> ELSE Module(Front(functions), FALSE)]

Refusals == UNION {PlanRefuses(units[i].doc) : i \in DOMAIN units}
Render ==
  /\ step = "plan"
  /\ IF Refusals # {} THEN \E why \in Refusals : Refuse(why)
     ELSE /\ code' = Rendered(FALSE)
          /\ Proceed("verify")
          /\ UNCHANGED <<verified, staged, units, recovered, emitted, byDigest>>

-----------------------------------------------------------------------------
(* Reading a module back, as Python does. *)

NothingRead == [name |-> "", inputs |-> <<>>, outputs |-> <<>>, tasks |-> {}]
Bound(module, name) ==
  LET at == {i \in DOMAIN module : name \in module[i].names} IN
  IF at = {} THEN Imported("nothing", {}) ELSE module[CHOOSE i \in at : \A j \in at : j <= i]

\* A name that a function assigns anywhere is its own, even before it is set.
Variables(body) == {x.var : x \in ToSet(body.inputs) \cup ToSet(body.tasks)}
Global(module, body, name) ==
  IF name \in Variables(body) THEN Imported("nothing", {}) ELSE Bound(module, name)
HelpersFor(s) ==
  (IF s.callee.kind = "subpipeline" THEN {<<"subpipeline">>} ELSE {})
    \cup (IF s.callee.kind \in {"ref", "digest"} THEN {<<"ref">>} ELSE {})
    \cup (IF \E p \in s.passed : p.value.from = "secret" THEN {<<"dynamic", "secret">>} ELSE {})

\* The value of a variable before the i-th statement of a body.
Value(body, i, e) ==
  LET done == [j \in DOMAIN body.inputs |-> [kind |-> "input", of |-> body.inputs[j].of, var |-> body.inputs[j].var]]
                \o [j \in 1..(i - 1) |-> [kind |-> "task", of |-> body.tasks[j].of, var |-> body.tasks[j].var]]
      at == {j \in DOMAIN done : done[j].var = e.var}
      last == CHOOSE j \in at : \A k \in at : k <= j
  IN IF e.from # "variable" THEN [from |-> e.from, of |-> e.of]
     ELSE IF at = {} THEN [from |-> "unbound", of |-> ""]
     ELSE [from |-> done[last].kind, of |-> done[last].of]

Metadata(s) == {p \in s.passed : p.way = "keyword" /\ p.name \in ReservedKeywords}
Arguments(s) == s.passed \ Metadata(s)

Executes(module, body) ==
  /\ \A i \in DOMAIN body.tasks : LET s == body.tasks[i] IN
       /\ \A h \in HelpersFor(s) : Global(module, body, h).kind = "helper"
       /\ \A p \in s.passed : Value(body, i, p.value).from # "unbound"
       /\ Cardinality(Metadata(s)) < 2
  /\ \A h \in {<<"graph", "input">>, <<"graph", "output">>, <<"pipeline">>} :
       Global(module, body, h).kind = "helper"

(* Gate (b): every function traces to its unit, boundary by name.            *)
Traced(module, function) ==
  LET body == Bound(module, function).body
      task(i) == LET s == body.tasks[i] IN
        [id |-> s.of, graph |-> s.callee.name, leaf |-> s.callee.leaf,
         args |-> [key \in {p.name : p \in Arguments(s)} |->
                     Value(body, i, (CHOOSE p \in Arguments(s) : p.name = key).value)],
         enabled |-> {Value(body, i, p.value) : p \in Metadata(s)}]
  IN IF Bound(module, function).kind # "function" \/ ~Executes(module, body) THEN NothingRead
     ELSE [name |-> body.name, inputs |-> [i \in DOMAIN body.inputs |-> body.inputs[i].of],
           outputs |-> [o \in DOMAIN body.outputs |->
                          Value(body, Len(body.tasks) + 1, body.outputs[o])],
           tasks |-> {task(i) : i \in DOMAIN body.tasks}]
UnitGiven(doc) == [name |-> doc.name, inputs |-> doc.inputs, outputs |-> doc.outputs,
                   tasks |-> ToSet(doc.tasks)]
ModuleOf(i) == IF i = Len(units) THEN code.root ELSE code.companion
EveryUnitTraced ==
  \A i \in DOMAIN units : Traced(ModuleOf(i), units[i].function) = UnitGiven(units[i].doc)

VerifyUnits ==
  /\ step = "verify"
  /\ IF source.verify /\ ~EveryUnitTraced THEN Refuse("verification")
     ELSE /\ Proceed("substitute")
          /\ UNCHANGED <<verified, staged, units, recovered, emitted, byDigest, code>>

-----------------------------------------------------------------------------
(* Only call sites change; then what they no longer use goes.                *)

Flat(body) == [body EXCEPT !.tasks = [i \in DOMAIN body.tasks |->
  [body.tasks[i] EXCEPT !.passed = {[p EXCEPT !.param = {},
     !.way = IF @ = "dict" THEN "keyword" ELSE @] : p \in body.tasks[i].passed}]]]
Replaced(body) == [body EXCEPT !.tasks = [i \in DOMAIN body.tasks |->
  [body.tasks[i] EXCEPT !.callee =
     IF @.kind # "ref" THEN @
     ELSE Callee([graph |-> NoName, leaf |-> @.leaf], TRUE)]]]
Functions(module) == SelectSeq(module, LAMBDA b : b.kind = "function")
OnlyCallSites(before, after) ==
  LET was == Functions(before) is == Functions(after) IN
  /\ DOMAIN was = DOMAIN is
  /\ \A i \in DOMAIN was : was[i].names = is[i].names
                           /\ Flat(Replaced(was[i].body)) = Flat(is[i].body)

(* The package imports each source, which binds its module too; a source     *)
(* that is not decorated is wrapped after all imports.                       *)
Distinct == LET add(tasks, f) == IF emitted[f] \in ToSet(tasks) THEN tasks ELSE Append(tasks, emitted[f])
            IN FoldLeft(add, <<>>, recovered)
Package ==
  LET named(e) == [kind |-> "task", names |-> {e.name}, of |-> e.spec]
      import(e) == <<[kind |-> "module", names |-> {e.module}, of |-> e.spec]>>
                     \o IF Components[e.spec].decorated THEN <<named(e)>> ELSE <<>>
      wrapped == SelectSeq(Distinct, LAMBDA e : ~Components[e.spec].decorated)
  IN FlattenSeq([i \in DOMAIN Distinct |-> import(Distinct[i])])
       \o [i \in DOMAIN wrapped |-> named(wrapped[i])]
Exported(package, name) ==
  LET at == {i \in DOMAIN package : name \in package[i].names}
      last == package[CHOOSE i \in at : \A j \in at : j <= i]
  IN IF at = {} \/ last.kind # "task" THEN {} ELSE {last.of}

Substitute ==
  /\ step = "substitute"
  /\ LET after == Rendered(TRUE) IN
     IF /\ OnlyCallSites(code.root, after.root) /\ OnlyCallSites(code.companion, after.companion)
       THEN code' = [after EXCEPT !.package = Package] /\ Proceed("prune")
            /\ UNCHANGED <<verified, staged, units, recovered, emitted, byDigest>>
       ELSE Refuse("substitution")

Unused == DOMAIN emitted \cup byDigest
References == UNION {{s.callee.leaf : s \in {t \in ToSet(b.body.tasks) : t.callee.kind = "ref"}} :
                       b \in ToSet(code.root) \cup ToSet(code.companion)}
Prune ==
  /\ step = "prune"
  /\ LET kept == sidecar \ Unused
         files == {f.spec : f \in kept} IN
     IF \A f \in References : f \in kept /\ f.spec \in files
       THEN /\ sidecar' = kept
            /\ assets' = IF Unused = {} THEN assets ELSE assets \cap files
            /\ Proceed("publish") /\ UNCHANGED <<verified, units, recovered, emitted, byDigest, code>>
       ELSE Refuse("pinning incomplete")

Publish == /\ step = "publish"
           /\ step' = "over" /\ verdict' = "published"
           /\ UNCHANGED <<source, verified, staged, units, recovered, emitted, byDigest, code>>

\* A read or a write of the stage fails.
StageFails == step # "over" /\ Refuse("io")

DecompileNext ==
  \/ Accept \/ ResolveInput \/ Pin \/ PinningPreserved \/ Split \/ Recover \/ Allocate
  \/ Render \/ VerifyUnits \/ Substitute \/ Prune \/ Publish \/ StageFails
DecompileOver == step = "over"

-----------------------------------------------------------------------------
(* Properties. *)

(* The input, as a tree of graphs down to the components they run.  A leaf   *)
(* that becomes a Python task stands for its source, settings and inputs.    *)
LeafGiven(c) ==
  LET spec == Components[Leaf(c).spec] IN
  IF Fragment(c) \in DOMAIN emitted THEN [spec |-> "", key |-> spec.key, inputs |-> spec.inputs]
  ELSE [spec |-> Leaf(c).spec, key |-> "", inputs |-> {}]
NoComponent == [spec |-> "", key |-> "", inputs |-> {}]
RECURSIVE Given(_)
Given(g) ==
  [name |-> Graph(g).name, inputs |-> Graph(g).inputs, outputs |-> Graph(g).outputs,
   tasks |-> {[id |-> t.id, args |-> t.args, enabled |-> t.enabled,
               graph |-> IF t.graph = "" THEN {} ELSE {Given(t.graph)},
               leaf |-> IF t.leaf = "" THEN NoComponent ELSE LeafGiven(t.leaf)] : t \in TasksOf(g)}]

\* A recovered task derives its flattened inputs from the dict it is given.
LeafRead(module, body, s, online) ==
  LET exported == IF Global(module, body, s.callee.name).kind = "task"
                    THEN Exported(code.package, s.callee.name) ELSE {}
      spec == Components[CHOOSE x \in exported : TRUE]
      derived == {p.name : p \in {q \in s.passed : q.way = "dict"}}
      inputs == (spec.inputs \cap Claimed(spec)) \cup derived
      flat == {p.name : p \in {a \in Arguments(s) : a.way # "dict"}}
      stray == {name \in flat : name \in spec.unwrap \/ Owners(spec, name) # {}}
  IN CASE s.callee.kind = "ref"    -> [NoComponent EXCEPT !.spec = Through(s.callee.leaf, online)]
       [] s.callee.kind = "digest" -> [NoComponent EXCEPT !.spec = IF online THEN Library(s.callee.leaf.digest) ELSE ""]
       [] s.callee.kind = "subpipeline" -> NoComponent
       [] OTHER -> IF exported = {} \/ stray # {} THEN NoComponent
                   ELSE [spec |-> "", key |-> spec.key, inputs |-> inputs]

RECURSIVE Read(_, _, _, _)
Read(module, function, online, depth) ==
  LET body == Bound(module, function).body
      traced == Traced(module, function)
      statement(t) == CHOOSE s \in ToSet(body.tasks) : s.of = t.id
      child(name) ==
        LET bound == Global(module, body, name).kind
        IN IF bound = "companion" THEN Read(code.companion, name, online, depth - 1)
           ELSE IF bound = "function" THEN Read(module, name, online, depth - 1)
           ELSE NothingRead
  IN IF depth = 0 \/ traced = NothingRead THEN NothingRead
     ELSE [traced EXCEPT !.tasks =
             {[id |-> t.id, args |-> t.args, enabled |-> t.enabled,
               graph |-> IF statement(t).callee.kind = "subpipeline"
                           THEN {child(statement(t).callee.name)} ELSE {},
               leaf |-> LeafRead(module, body, statement(t), online)] : t \in @}]

Topological(doc) == \A i \in DOMAIN doc.tasks :
  Producers(doc, doc.tasks[i]) \subseteq {doc.tasks[j].id : j \in 1..(i - 1)}

(* What is published, read back as Python reads it, with the library and,    *)
(* unless a leaf is named by its digest alone, without it, is the pipeline   *)
(* that went in: same graphs, same components, same wiring.  That holds with *)
(* --no-verify too, save for a task that reads itself.  A document whose     *)
(* tasks were in order keeps their order.                                    *)
ReadsBack ==
  verdict = "published" =>
    /\ \A online \in BOOLEAN :
         /\ online \/ byDigest = {}
         /\ source.verify \/ ~\E i \in DOMAIN units : SelfReference(units[i].doc)
         => Read(code.root, RootName, online, Cardinality(Graphs) + 1) = Given(source.root)
    /\ \A i \in DOMAIN units : Topological(units[i].doc) =>
         LET tasks == Bound(ModuleOf(i), units[i].function).body.tasks
         IN [j \in DOMAIN tasks |-> tasks[j].of]
              = [j \in DOMAIN units[i].doc.tasks |-> units[i].doc.tasks[j].id]

(* Publishing leaves nothing behind that the code does not use, and takes    *)
(* nothing it does: the sidecar's fragments, their copies, the tasks of the  *)
(* package and the functions of the companion are those the code refers to.  *)
NothingLeftOver ==
  verdict = "published" =>
    /\ sidecar = References
    /\ assets = {f.spec : f \in sidecar}
    /\ UNION {b.names : b \in {x \in ToSet(code.package) : x.kind = "task"}}
         = UNION {Calls(b.body, "task") : b \in ToSet(code.root) \cup ToSet(code.companion)}
    /\ UNION {b.names : b \in ToSet(Functions(code.companion))}
         = UNION {Calls(b.body, "subpipeline") : b \in ToSet(code.root) \cup ToSet(code.companion)}

\* What is published stands for the pipeline, all of it and nothing else.
ExportExact == ReadsBack /\ NothingLeftOver
=============================================================================
