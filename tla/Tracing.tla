------------------------------ MODULE Tracing -------------------------------
(* From a @pipeline function to its graph (trace.py, ref.py, subpipeline.py, *)
(* graph_io.py, emit.py).  The body runs once; the calls of component        *)
(* handles, graph_input() and graph_output() record what they do in the      *)
(* builder that a context variable holds meanwhile, and emission makes the   *)
(* graph of it.  A handle belongs to a module: any number of bodies use it.  *)
EXTENDS Naturals, Sequences, FiniteSets, SequencesExt, TLC

CONSTANTS
  Sessions,      \* what a process traces: sequences of bodies and loose calls
  Handles,       \* name -> the handle that a module makes at import
  Capitalized    \* segment of a name -> its title

(* A name is the sequence of its segments (between the underscores).  A body *)
(* has params, [name, kind ("in", "cfg" or "odd")]; lhs, line -> the name    *)
(* assigned there; steps; the return annotation and value, [is ("nothing",   *)
(* "out", "outputs"), of, a sequence of [name, value, out, whether it is     *)
(* annotated Out]]; and outName, the name of a single output.  A step is     *)
(*   "call"    handle, chain (bind, named, annotate, override), args, line,  *)
(*             into, enabled, options, stale                                 *)
(*   "input"   graph_input: name, into, given                                *)
(*   "output"  graph_output: name, value, given                              *)
(*   "trace"   compile another body, caught when the caller handles errors   *)
(*   "direct"  call another pipeline as a function; "raise" an exception     *)
(* A value is "str", "raw", "dynamic", "other", "bool", "dict" or "unset",   *)
(* or "var", the variable `of`, or its attribute `out` (a set of one).       *)

VARIABLES
  agenda,    \* what is left to trace
  builders,  \* every GraphBuilder made so far
  current,   \* the context variable: the builder that records, or 0
  running,    \* the traces underway, innermost last
  raising,   \* an exception is on its way up
  handles,   \* the handles, as they are now
  traced     \* what became of everything so far, [item, graph]

traceVars == <<agenda, builders, current, running, raising, handles, traced>>

NoGraph == [tasks |-> <<>>, refused |-> TRUE]
OneOf(S) == CHOOSE x \in S : TRUE

-----------------------------------------------------------------------------
(* Identifiers and handles *)

Title(name) == LET Given(s) == s # "" IN [i \in DOMAIN SelectSeq(name, Given) |->
                                            Capitalized[SelectSeq(name, Given)[i]]]

Declares(h, out) == ~h.known \/ out \in h.outputs
Resolves(h) == h.out # {} \/ ~h.known \/ Cardinality(h.outputs) = 1 \/ <<"wait_for_output">> \in h.outputs
OutputOf(h) ==
  IF h.out # {} THEN OneOf(h.out)
  ELSE IF h.known /\ Cardinality(h.outputs) = 1 THEN OneOf(h.outputs) ELSE <<"wait_for_output">>

\* The object that an expression is: the attribute of a handle is a handle.
IsRef(v) == v.is = "var"
CanEvaluate(v, env) ==
  IsRef(v) => /\ v.of \in DOMAIN env
              /\ v.out # {} => env[v.of].is = "task" /\ Declares(env[v.of], OneOf(v.out))
Evaluate(v, env) ==
  IF ~IsRef(v) THEN v ELSE IF v.out = {} THEN env[v.of] ELSE [env[v.of] EXCEPT !.out = v.out]

LeavesOf(v) == IF v.is = "dict" THEN {v.items[k] : k \in DOMAIN v.items} ELSE {v}
Objects(args, env) ==
  [p \in DOMAIN args |->
     IF args[p].is = "dict"
     THEN [args[p] EXCEPT !.items = [k \in DOMAIN @ |-> Evaluate(@[k], env)]]
     ELSE Evaluate(args[p], env)]

Derive(h, link) ==
  CASE link.op = "bind" -> [h EXCEPT !.bound = link.args @@ @]
    [] link.op = "named" -> [h EXCEPT !.hint = {link.id}]
    [] link.op = "annotate" -> [h EXCEPT !.notes = link.args @@ @]
    [] link.op = "override" -> [h EXCEPT !.overrides = link.args @@ @]
Linked(link, env) == IF link.op = "bind" THEN [link EXCEPT !.args = Objects(@, env)] ELSE link
DerivedOf(s, env) ==
  FoldLeft(Derive, handles[s.handle], [i \in DOMAIN s.chain |-> Linked(s.chain[i], env)])
Kept(s, env) == handles

-----------------------------------------------------------------------------
(* The arguments of a call *)

Legal(key) == "?" \notin ToSet(key)
Synthetic(unwrap, args) ==
  {<<p, k>> : p \in unwrap, k \in UNION {DOMAIN args[q].items : q \in unwrap}}
    \cap {pk \in unwrap \X UNION {DOMAIN args[q].items : q \in unwrap} : pk[2] \in DOMAIN args[pk[1]].items}
CannotFlatten(unwrap, args) ==
  \/ \E p \in unwrap : p \notin DOMAIN args
  \/ \E p \in unwrap \cap DOMAIN args :
       \/ args[p].is # "dict"
       \/ args[p].is = "dict" /\ (DOMAIN args[p].items = {} \/ \E k \in DOMAIN args[p].items : ~Legal(k))
Clashes(unwrap, args) ==
  \E a \in Synthetic(unwrap, args) :
    \/ (a[1] \o a[2]) \in DOMAIN args \ unwrap
    \/ \E b \in Synthetic(unwrap, args) \ {a} : a[1] \o a[2] = b[1] \o b[2]
Flattened(unwrap, args) ==
  [p \in DOMAIN args \ unwrap |-> args[p]]
    @@ [q \in {a[1] \o a[2] : a \in Synthetic(unwrap, args)} |->
          LET a == CHOOSE x \in Synthetic(unwrap, args) : x[1] \o x[2] = q IN args[a[1]].items[a[2]]]

-----------------------------------------------------------------------------
(* A step of a body *)

Inner == Last(running)
Step == Inner.body.steps[Inner.pc]
TraceAt(do) ==
  /\ running # <<>> /\ ~raising /\ Inner.pc <= Len(Inner.body.steps) /\ Step.do = do
Advance(env) == running' = [running EXCEPT ![Len(running)].pc = @ + 1, ![Len(running)].env = env]
Raises == raising' = TRUE /\ UNCHANGED <<agenda, builders, current, running, traced>>

IdOf(s, h, lhs) == IF h.hint # {} THEN OneOf(h.hint) ELSE Title(lhs[s.line])
Reserved(s) == s.enabled.is # "unset" \/ s.options.is # "unset" \/ s.stale.is # "unset"
CallFails(s, h, env) ==
  \/ current = 0
  \/ \E p \in DOMAIN s.args : \E v \in LeavesOf(s.args[p]) : ~CanEvaluate(v, env)
  \/ ~CanEvaluate(s.enabled, env)
  \/ h.kind = "child" /\ Reserved(s)
  \/ current # 0 /\ h.hint = {} /\ s.line \notin DOMAIN builders[current].lhs
  \/ LET args == s.args @@ h.bound
     IN CannotFlatten(h.unwrap, args) \/ (h.unwrap # {} /\ ~CannotFlatten(h.unwrap, args) /\ Clashes(h.unwrap, args))

TaskNode(s, h, env) ==
  [id |-> IdOf(s, h, builders[current].lhs), url |-> s.handle, kind |-> h.kind,
   args |-> Flattened(h.unwrap, Objects(s.args, env) @@ h.bound),
   notes |-> h.notes, overrides |-> h.overrides,
   enabled |-> Evaluate(s.enabled, env), options |-> s.options, stale |-> s.stale]
Proxy(id, h) == [is |-> "task", id |-> id, out |-> {}, known |-> h.kind = "child" /\ h.known,
                 outputs |-> h.outputs]

CallHandle ==
  /\ TraceAt("call")
  /\ handles' = Kept(Step, Inner.env)
  /\ LET h == DerivedOf(Step, Inner.env)
     IN IF CallFails(Step, h, Inner.env) THEN Raises
        ELSE LET node == TaskNode(Step, h, Inner.env)
             IN /\ builders' = [builders EXCEPT ![current].tasks = Append(@, node)]
                /\ Advance((Step.into :> Proxy(node.id, h)) @@ Inner.env)
                /\ UNCHANGED <<agenda, current, raising, traced>>

Input(name) == [is |-> "in", name |-> name]
GraphInput ==
  /\ TraceAt("input") /\ UNCHANGED handles
  /\ IF current = 0 \/ (Step.given /\ Contains(builders[current].inputs, Step.name)) THEN Raises
     ELSE /\ builders' = IF Step.given
                         THEN [builders EXCEPT ![current].inputs = Append(@, Step.name)] ELSE builders
          /\ Advance((Step.into :> IF Step.given THEN Input(Step.name) ELSE [is |-> "other"]) @@ Inner.env)
          /\ UNCHANGED <<agenda, current, raising, traced>>

Wirable(v) == v.is = "in" \/ (v.is = "task" /\ Resolves(v))
Edge(v) == IF v.is = "in" THEN [to |-> "input", name |-> v.name]
           ELSE [to |-> "task", id |-> v.id, out |-> OutputOf(v)]
GraphOutput ==
  /\ TraceAt("output") /\ UNCHANGED handles
  /\ LET b == builders[current]
     IN IF \/ current = 0 \/ ~CanEvaluate(Step.value, Inner.env)
           \/ Step.given /\ (Contains(b.outputs, Step.name) \/ ~Wirable(Evaluate(Step.value, Inner.env)))
        THEN Raises
        ELSE /\ builders' =
                  IF ~Step.given THEN builders
                  ELSE [builders EXCEPT
                          ![current].outputs = Append(@, Step.name),
                          ![current].values = (Step.name :> Edge(Evaluate(Step.value, Inner.env))) @@ @]
             /\ Advance(Inner.env)
             /\ UNCHANGED <<agenda, current, raising, traced>>

\* PipelineFn.__call__ refuses inside a trace; the body itself may raise too.
BodyFails == (TraceAt("direct") \/ TraceAt("raise")) /\ Raises /\ UNCHANGED handles

-----------------------------------------------------------------------------
(* Emission *)

Emittable(v) == v.is \in {"str", "raw", "dynamic"} \/ Wirable(v)
Emitted(v) == IF v.is = "dynamic" THEN [to |-> "dynamic", text |-> v.text]
              ELSE IF v.is \in {"str", "raw"} THEN [to |-> "text", text |-> v.text] ELSE Edge(v)
Condition(v) == IF v.is = "bool" THEN [to |-> "text", text |-> IF v.on THEN "true" ELSE "false"]
                ELSE IF v.is = "unset" THEN [to |-> "nothing"] ELSE Emitted(v)

OptionFields == "cachingStrategy" :> {"maxCacheStaleness"} @@ "retryStrategy" :> {"maxRetries"}
RequiredFields == "cachingStrategy" :> {} @@ "retryStrategy" :> {"maxRetries"}
KnownFields(groups) ==
  \A g \in DOMAIN groups :
    /\ g \in DOMAIN OptionFields
    /\ RequiredFields[g] \subseteq DOMAIN groups[g] /\ DOMAIN groups[g] \subseteq OptionFields[g]
    /\ \A f \in DOMAIN groups[g] : groups[g][f].is = "str"
GroupsOf(n) == IF n.options.is = "options" THEN n.options.groups ELSE <<>>
Options(n) ==
  IF n.stale.is = "unset" THEN GroupsOf(n)
  ELSE ("cachingStrategy" :> (("maxCacheStaleness" :> n.stale) @@
          IF "cachingStrategy" \in DOMAIN GroupsOf(n) THEN GroupsOf(n)["cachingStrategy"] ELSE <<>>))
       @@ GroupsOf(n)
OptionsFail(n) ==
  \/ n.options.is = "other" \/ ~KnownFields(GroupsOf(n)) \/ n.stale.is \notin {"unset", "str"}
  \/ n.options.is = "options" /\ DOMAIN GroupsOf(n) = {} /\ n.stale.is = "unset"

EmitFails(b) ==
  \/ b.tasks = <<>>
  \/ \E i, j \in DOMAIN b.tasks : i # j /\ b.tasks[i].id = b.tasks[j].id
  \/ \E i \in DOMAIN b.tasks :
       LET n == b.tasks[i]
       IN \/ \E p \in DOMAIN n.args : ~Emittable(n.args[p])
          \/ n.enabled.is \notin {"unset", "bool", "str"} /\ ~Wirable(n.enabled)
          \/ OptionsFail(n)
Emit(b) ==
  LET at(id) == b.tasks[CHOOSE i \in DOMAIN b.tasks : b.tasks[i].id = id]
      ids == {b.tasks[i].id : i \in DOMAIN b.tasks}
  IN [refused |-> FALSE, inputs |-> b.inputs, outputs |-> b.outputs,
      values |-> IF DOMAIN b.values # {} THEN b.values ELSE b.single,
      tasks |-> [id \in ids |->
        [url |-> at(id).url, kind |-> at(id).kind, notes |-> at(id).notes,
         overrides |-> at(id).overrides, enabled |-> Condition(at(id).enabled),
         options |-> Options(at(id)),
         args |-> [p \in DOMAIN at(id).args |-> Emitted(at(id).args[p])]]],
      exempt |-> {x \in ids \X UNION {DOMAIN at(id).args : id \in ids} :
                    x[2] \in DOMAIN at(x[1]).args /\ at(x[1]).args[x[2]].is = "raw"}]

-----------------------------------------------------------------------------
(* A trace: from its parameters to what it returns *)

WaitFor == <<"wait_for_output">>
NoBuilder == [lhs |-> <<>>, inputs |-> <<>>, outputs |-> <<>>, values |-> <<>>, single |-> <<>>,
              tasks |-> <<>>]
ParamsOf(params, kind) == {i \in DOMAIN params : params[i].kind = kind}
Inputs(params) == LET isIn(x) == x.kind = "in"
                  IN [i \in DOMAIN SelectSeq(params, isIn) |-> SelectSeq(params, isIn)[i].name]
EnterBody(body) ==
  LET odd == ParamsOf(body.params, "odd") # {}
      env == [x \in {body.params[i].name : i \in ParamsOf(body.params, "in")} |-> Input(x)]
  IN /\ builders' = Append(builders, [NoBuilder EXCEPT !.lhs = body.lhs, !.inputs = Inputs(body.params)])
     /\ running' = Append(running, [body |-> body, pc |-> 1, env |-> env,
                                  its |-> Len(builders) + 1, token |-> current])
     /\ current' = IF odd THEN current ELSE Len(builders) + 1
     /\ raising' = odd

TraceBody ==
  /\ running = <<>> /\ agenda # <<>> /\ Head(agenda).do = "body"
  /\ EnterBody(Head(agenda)) /\ agenda' = Tail(agenda)
  /\ UNCHANGED <<handles, traced>>
Nest == TraceAt("trace") /\ EnterBody(Step.body) /\ UNCHANGED <<agenda, handles, traced>>

\* The outputs that a return annotation declares: one, or one for each field.
DeclaredOutputs(body) ==
  [i \in DOMAIN body.returns.of |-> IF body.returns.is = "out" THEN body.outName ELSE body.returns.of[i].name]

ReturnFails(b, body, env) ==
  \/ body.returns.is = "outputs" /\ (body.outName # WaitFor \/ body.returns.of = <<>>)
  \/ \E i \in DOMAIN body.returns.of :
       LET field == body.returns.of[i]
       IN \/ ~field.out \/ Contains(b.outputs, DeclaredOutputs(body)[i])
          \/ ~CanEvaluate(field.value, env)
          \/ CanEvaluate(field.value, env) /\ ~Wirable(Evaluate(field.value, env))
          \/ body.returns.is = "out" /\ Evaluate(field.value, env).is # "task"
Returned(b, body, env) ==
  LET declared == DeclaredOutputs(body)
      returns == body.returns
      edges == [name \in ToSet(declared) |->
                  Edge(Evaluate(returns.of[CHOOSE i \in DOMAIN declared : declared[i] = name].value, env))]
  IN [b EXCEPT !.outputs = @ \o declared,
               !.single = IF returns.is = "out" THEN edges ELSE @,
               !.values = IF returns.is = "outputs" \/ DOMAIN @ # {} THEN @ @@ edges ELSE @]

Pop(outer) == IF outer = <<>> THEN outer ELSE [outer EXCEPT ![Len(outer)].pc = @ + 1]
EndTrace ==
  /\ running # <<>> /\ ~raising /\ Inner.pc > Len(Inner.body.steps)
  /\ LET b == builders[Inner.its]
         returned == Returned(b, Inner.body, Inner.env)
     IN IF ReturnFails(b, Inner.body, Inner.env) \/ EmitFails(returned) THEN Raises
        ELSE /\ builders' = [builders EXCEPT ![Inner.its] = returned]
             /\ traced' = Append(traced, [item |-> Inner.body, graph |-> Emit(returned)])
             /\ current' = Inner.token
             /\ running' = Pop(Front(running))
             /\ UNCHANGED <<agenda, raising>>
  /\ UNCHANGED handles

LeftActive(token) == current  \* mutant: reset only when the body returns
Reset(token) == token
Unwind ==
  /\ raising
  /\ traced' = Append(traced, [item |-> Inner.body, graph |-> NoGraph])
  /\ current' = Reset(Inner.token)
  /\ LET outer == Front(running)
         caught == outer # <<>> /\ Last(outer).body.steps[Last(outer).pc].caught
     IN /\ raising' = (outer # <<>> /\ ~caught)
        /\ running' = IF caught THEN Pop(outer) ELSE outer
  /\ UNCHANGED <<agenda, builders, handles>>

\* A call outside of every trace, as the import of a module may make.
Loose ==
  /\ running = <<>> /\ agenda # <<>> /\ Head(agenda).do = "call"
  /\ agenda' = Tail(agenda)
  /\ LET s == Head(agenda)
         h == DerivedOf(s, <<>>)
         fails == CallFails(s, h, <<>>)
     IN /\ builders' = IF fails THEN builders
                       ELSE [builders EXCEPT ![current].tasks = Append(@, TaskNode(s, h, <<>>))]
        /\ traced' = Append(traced, [item |-> s, graph |-> [NoGraph EXCEPT !.refused = fails]])
        /\ handles' = Kept(s, <<>>)
  /\ UNCHANGED <<current, running, raising>>

TraceInit ==
  /\ agenda \in Sessions
  /\ builders = <<>> /\ current = 0 /\ running = <<>> /\ raising = FALSE
  /\ handles = Handles /\ traced = <<>>
TraceStep == TraceBody \/ Nest \/ CallHandle \/ GraphInput \/ GraphOutput \/ BodyFails \/ EndTrace \/ Unwind \/ Loose
TraceSpec == TraceInit /\ [][TraceStep]_traceVars
TraceOver == agenda = <<>> /\ running = <<>>

-----------------------------------------------------------------------------
(* What the text of a body says: for each call the identifier and the        *)
(* arguments of that call, whatever was called before or is called elsewhere. *)
Latest(body, i, x) ==
  {j \in 1..(i - 1) : /\ body.steps[j].do \in {"call", "input"} /\ body.steps[j].into = x
                      /\ \A k \in (j + 1)..(i - 1) :
                           body.steps[k].do \in {"call", "input"} => body.steps[k].into # x}
Links(s, op) == {i \in DOMAIN s.chain : s.chain[i].op = op}
LastOf(S) == CHOOSE i \in S : \A j \in S : j <= i
WrittenId(body, i) ==
  LET s == body.steps[i]
  IN IF Links(s, "named") # {} THEN s.chain[LastOf(Links(s, "named"))].id
     ELSE IF Handles[s.handle].hint # {} THEN OneOf(Handles[s.handle].hint) ELSE Title(body.lhs[s.line])
Nameless(body, i) ==
  LET s == body.steps[i]
  IN Links(s, "named") = {} /\ Handles[s.handle].hint = {} /\ s.line \notin DOMAIN body.lhs

WrittenValue(body, i, v) ==
  IF v.is # "var" THEN Emitted(v)
  ELSE IF Latest(body, i, v.of) = {} THEN [to |-> "input", name |-> v.of]
  ELSE LET j == OneOf(Latest(body, i, v.of))
           s == body.steps[j]
       IN IF s.do = "input" THEN [to |-> "input", name |-> s.name]
          ELSE [to |-> "task", id |-> WrittenId(body, j),
                out |-> IF v.out # {} THEN OneOf(v.out)
                        ELSE IF Handles[s.handle].kind = "child" /\ Cardinality(Handles[s.handle].outputs) = 1
                             THEN OneOf(Handles[s.handle].outputs) ELSE WaitFor]

WrittenArg(s, p) ==
  LET binds == {i \in Links(s, "bind") : p \in DOMAIN s.chain[i].args}
  IN IF p \in DOMAIN s.args THEN {s.args[p]}
     ELSE IF binds # {} THEN {s.chain[LastOf(binds)].args[p]}
     ELSE IF p \in DOMAIN Handles[s.handle].bound THEN {Handles[s.handle].bound[p]} ELSE {}
WrittenArgs(s) ==
  LET params == DOMAIN s.args \cup DOMAIN Handles[s.handle].bound
                  \cup UNION {DOMAIN s.chain[i].args : i \in Links(s, "bind")}
      of(p) == OneOf(WrittenArg(s, p))
  IN UNION {IF p \in Handles[s.handle].unwrap
            THEN {<<p \o k, of(p).items[k]>> : k \in DOMAIN of(p).items} ELSE {<<p, of(p)>>} : p \in params}

WrittenOutputs(body) ==
  {<<body.steps[i].name, WrittenValue(body, i, body.steps[i].value)>> :
     i \in {j \in DOMAIN body.steps : body.steps[j].do = "output" /\ body.steps[j].given}}
  \cup {<<IF body.returns.is = "out" THEN body.outName ELSE body.returns.of[i].name,
           WrittenValue(body, Len(body.steps) + 1, body.returns.of[i].value)>> :
          i \in DOMAIN body.returns.of}
EntriesOf(f) == {<<x, f[x]>> : x \in DOMAIN f}

IsAsWritten(body, g) ==
  LET calls == {i \in DOMAIN body.steps : body.steps[i].do = "call"}
      value(i, v) == WrittenValue(body, i, v)
  IN /\ \A i \in calls : ~Nameless(body, i)
     /\ DOMAIN g.tasks = {WrittenId(body, i) : i \in calls}
     /\ Cardinality(DOMAIN g.tasks) = Cardinality(calls)
     /\ \A i \in calls :
          LET t == g.tasks[WrittenId(body, i)]
              s == body.steps[i]
          IN /\ t.url = s.handle
             /\ EntriesOf(t.args) = {<<a[1], value(i, a[2])>> : a \in WrittenArgs(s)}
             /\ s.stale.is = "str" => t.options["cachingStrategy"]["maxCacheStaleness"] = s.stale
             /\ {a[1] : a \in {b \in WrittenArgs(s) : b[2].is = "raw"}}
                  = {x[2] : x \in {y \in g.exempt : y[1] = WrittenId(body, i)}}
     /\ EntriesOf(g.values) = WrittenOutputs(body)
     /\ Len(g.outputs) = Cardinality(WrittenOutputs(body)) /\ ToSet(g.outputs) = DOMAIN g.values

(* While a body runs, its own builder records, and no other trace under way  *)
(* has that one; when none is under way nothing records, however they ended. *)
RecordsItsOwn ==
  /\ running = <<>> => current = 0 /\ ~raising
  /\ running # <<>> /\ ~raising =>
       current = Inner.its /\ \A k \in 1..(Len(running) - 1) : running[k].its # current

(* A graph is what its body says, the same whenever it is traced, and the    *)
(* edges of its tasks lead to tasks of its own; a call outside is refused,   *)
(* and a builder records for its own body alone (RecordsItsOwn).             *)
TraceIsFaithful ==
  /\ RecordsItsOwn
  /\ \A i \in DOMAIN traced :
       /\ traced[i].item.do = "call" => traced[i].graph.refused
       /\ ~traced[i].graph.refused => IsAsWritten(traced[i].item, traced[i].graph)
       /\ \A j \in DOMAIN traced : traced[i].item = traced[j].item => traced[i].graph = traced[j].graph
=============================================================================
