------------------------------ MODULE MCChecks ------------------------------
(* Documents for GraphChecks: every graph of three tasks, and graphs within  *)
(* graphs whose components, inputs and outputs fit together or not.          *)
EXTENDS GraphChecks, TLC

Alphabet == <<"a", "b", "c", "g", "u", "v", "y">>

Optional == [optional |-> TRUE, default |-> FALSE]
WithDefault == [optional |-> FALSE, default |-> TRUE]
Must == [optional |-> FALSE, default |-> FALSE]
InputOf(name) == Value("input", name, "", {})
OutputOf(task, name) == Value("output", task, name, {})
Around(tasks) == Value("text", "", "", tasks)

TaskOf(by, component, dependencies, arguments, isEnabled) ==
  [named |-> by = "none", by |-> by, component |-> component, dependencies |-> dependencies,
   arguments |-> arguments, isEnabled |-> isEnabled]
GraphSpec(inputs, outputs, tasks, order, values) ==
  [inputs |-> inputs, outputs |-> outputs, graph |-> order # <<>>, tasks |-> tasks,
   order |-> order, outputValues |-> values]
None == [n \in {} |-> Must]
Leaf1 == GraphSpec("r" :> Must @@ "q" :> Optional @@ "d" :> WithDefault, {"o"}, [t \in {} |-> 0], <<>>, {})

\* Graphs of two tasks: v takes the output of u, or is fed as given.
Pair(uIn, vIn, values) ==
  GraphSpec("i" :> Must, {"o"},
       ("u" :> TaskOf("spec", "leaf", <<>>, "r" :> uIn, Text))
       @@ ("v" :> TaskOf("spec", "leaf", <<>>, "r" :> vIn, InputOf("i"))),
       <<"v", "u">>, values)
Wrapping(by, inner) ==
  GraphSpec("i" :> Must, {"o"},
       "u" :> TaskOf(by, inner, <<>>, "i" :> InputOf("i"), Text), <<"u">>, {"u"})

Parts ==
  ("leaf" :> Leaf1)
  @@ ("chain" :> Pair(InputOf("i"), OutputOf("u", "o"), {"v"}))
  @@ ("circle" :> Pair(Around({"v"}), OutputOf("u", "o"), {"v"}))
  @@ ("astray" :> Pair(InputOf("j"), OutputOf("u", "o"), {"v"}))
  @@ ("lost" :> Pair(InputOf("i"), Text, {"b"}))
  @@ ("deep" :> Wrapping("spec", "circle"))
  @@ ("deeper" :> Wrapping("spec", "chain"))
  @@ ("hidden" :> Wrapping("text", "circle"))

Treated(spec, direct, recursive) ==
  [spec |-> spec, name |-> TRUE, misfits |-> {}, lenient |-> FALSE, direct |-> direct, recursive |-> recursive]

\* Three tasks that refer to any of each other, and to one that is not there:
\* to a as a dependency, to b as an argument, to c as a condition.
FlatTask(refs) ==
  TaskOf("none", "", SelectSeq(<<"a">>, LAMBDA t : t \in refs),
       [n \in {n \in {"b", "lost"} : n \in refs} |-> IF n = "b" THEN OutputOf(n, "o") ELSE Around({n})],
       IF "c" \in refs THEN OutputOf("c", "o") ELSE Text)
FlatDocuments ==
  {Treated(GraphSpec(None, {}, [t \in {"a", "b", "c"} |-> FlatTask(refs[t] \union lost[t])], <<"c", "a", "b">>, {}), direct, FALSE) :
     refs \in [{"a", "b", "c"} -> SUBSET {"a", "b", "c"}], direct \in BOOLEAN,
     lost \in {[t \in {"a", "b", "c"} |-> {"lost" : l \in at \intersect {t}}] : at \in {{}, {"a"}}}}

\* A graph g and a task y that takes its output, or is taken by it.
NestedDocuments ==
  {Treated(GraphSpec("p" :> Must, {},
       ("g" :> TaskOf(by, part, <<>>, [n \in given |-> v], condition))
       @@ ("y" :> TaskOf("spec", "leaf", <<"g">>, r, Text)),
       <<"g", "y">>, {}), FALSE, TRUE) :
     by \in {"spec", "text"}, part \in DOMAIN Parts \ {"leaf"},
     given \in {{}, {"i"}, {"i", "k"}},
     v \in {Text, InputOf("p"), InputOf("j"), OutputOf("y", "o")},
     condition \in {Text, InputOf("j")},
     r \in {None, "r" :> OutputOf("g", "o"), "r" :> OutputOf("g", "nope"), "q" :> InputOf("j") @@ "r" :> Text}}
OtherDocuments ==
  LET good(by, named) == GraphSpec(None, {}, "a" :> [TaskOf(by, "leaf", <<>>, "r" :> Text, Text) EXCEPT !.named = named], <<"a">>, {})
      flat == Treated(good("spec", FALSE), FALSE, FALSE)
  IN {[flat EXCEPT !.misfits = m, !.name = n] : m \in SUBSET {"arguments", "tasks"}, n \in BOOLEAN}
     \union {Treated(good("none", n), FALSE, FALSE) : n \in BOOLEAN}
     \union {Treated(Leaf1, d, FALSE) : d \in BOOLEAN}
     \union {[d EXCEPT !.lenient = TRUE] : d \in {d \in NestedDocuments : DOMAIN d.spec.tasks["g"].arguments = {"i", "k"}}}
     \union {[d EXCEPT !.recursive = FALSE] : d \in {d \in NestedDocuments : d.spec.tasks["g"].component = "deeper"}}
SomeDocuments == FlatDocuments \union NestedDocuments \union OtherDocuments
=============================================================================
