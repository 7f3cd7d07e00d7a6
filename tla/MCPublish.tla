------------------------------ MODULE MCPublish ------------------------------
(* A behaviour decompiles one pipeline into its stage (Decompiler),          *)
(* publishes a series of staged generations (StagedPublish), or has several  *)
(* publishers of components (ComponentPublish).                              *)
EXTENDS StagedPublish, Decompiler, ComponentPublish

CONSTANTS p, q
TwoPids == {p, q}

-----------------------------------------------------------------------------
(* Contents of components. *)

Yaml == [made |-> FALSE, decorated |-> FALSE, key |-> "", function |-> "", hint |-> "",
         params |-> {}, inputs |-> {<<"x">>}, outputs |-> {}, returns |-> FALSE, unwrap |-> {}]
Python(key, function, hint) ==
  [Yaml EXCEPT !.made = TRUE, !.key = key, !.function = function, !.hint = hint,
               !.params = {<<"x">>}]

\* train and Train differ in their settings; load's module is named as its task.
\* split takes a dict; half has an input that none of its parameters names.
TenComponents ==
  ("yaml" :> Yaml) @@ ("other" :> [Yaml EXCEPT !.inputs = {}])
  @@ ("train" :> Python("k1", "train", "steps"))
  @@ ("Train" :> [Python("k2", "Train", "train") EXCEPT !.decorated = TRUE])
  @@ ("train too" :> Python("k1", "train", "steps"))
  @@ ("load" :> [Python("k3", "load", "load") EXCEPT !.decorated = TRUE])
  @@ ("save" :> [Python("k4", "save", "load") EXCEPT
                   !.params = {<<"out", "path">>}, !.inputs = {}, !.outputs = {<<"out">>}])
  @@ ("split" :> [Python("k5", "split", "steps") EXCEPT
                    !.params = {<<"x">>, <<"u">>}, !.unwrap = {<<"u">>},
                    !.inputs = {<<"x">>, <<"u", "a">>, <<"u", "b">>}])
  @@ ("half" :> [Python("k6", "half", "half") EXCEPT !.inputs = {<<"x">>, <<"y">>}])

SomeSpelling == ("Foo" :> <<"foo">>) @@ ("foo d2" :> <<"foo", "d2">>) @@ ("A b" :> <<"a", "b">>)
                @@ ("a b" :> <<"a", "b">>) @@ ("Train" :> <<"train">>) @@ ("Task" :> <<"task">>)

-----------------------------------------------------------------------------
(* Documents. *)

Text == [from |-> "text", of |-> "v"]
Secret == [from |-> "secret", of |-> "s"]
Out(task) == [from |-> "task", of |-> task]
In(input) == [from |-> "input", of |-> input]

Runs1(id, leaf, args) == [id |-> id, graph |-> "", leaf |-> leaf, args |-> args, enabled |-> {}]
Nests(id, graph) == [id |-> id, graph |-> graph, leaf |-> "", args |-> <<>>, enabled |-> {}]
GraphOf(name, tasks) == [name |-> name, inputs |-> <<>>, outputs |-> <<>>, bad |-> "", tasks |-> tasks]
LeafOf(content, hash) == [spec |-> content, digest |-> hash, published |-> FALSE, found |-> "spec"]
Document(graphs, leaves) ==
  [graph |-> graphs, leaf |-> leaves, root |-> "root", flaw |-> "none",
   verify |-> TRUE, python |-> TRUE, copies |-> FALSE, plain |-> TRUE]

OneLeaf == ("c" :> LeafOf("yaml", "d-yaml"))
Call1(leaf) == Runs1("t", leaf, <<"x">> :> Text)

\* Names of graphs that read alike, side by side or one in the other; two of
\* the same name may be the same graph.
Names == {"Foo", "foo", "foo d2", "Task"}
NamesClash ==
  {[Document(("root" :> GraphOf(name, <<Nests("t1", "g1"), Nests("t2", IF deep THEN "g1" ELSE "g2"),
                                        Nests("t3", "g3")>>))
             @@ ("g1" :> GraphOf(names[1], <<Call1("c")>> \o IF deep THEN <<Nests("in", "g2")>> ELSE <<>>))
             @@ ("g2" :> GraphOf(names[2], <<Call1(leaf)>>))
             @@ ("g3" :> GraphOf(names[3], <<Call1("e")>>)),
             OneLeaf @@ ("e" :> LeafOf("other", "d-other")) @@ ("same" :> LeafOf("yaml", "d-yaml")))
      EXCEPT !.verify = verify] :
     name \in {"p", "foo"}, names \in [1..3 -> Names], deep \in BOOLEAN,
     leaf \in {"e", "same"}, verify \in BOOLEAN}

\* Three tasks that read each other, themselves, inputs or nobody.
Reads == {Text, Out("A b"), Out("a b"), Out("c"), Out("none"), In("a b")}
Wired(e1, e2, e3, enabled, out, verify) ==
  [Document("root" :> [GraphOf("p", <<Runs1("A b", "c", <<"x">> :> e1), Runs1("a b", "c", <<"x">> :> e2),
                                 [Runs1("c", "c", (<<"x">> :> e3) @@ (<<"is", "enabled">> :> Secret))
                                    EXCEPT !.enabled = enabled]>>)
                         EXCEPT !.inputs = <<"a b", "A b">>, !.outputs = "o" :> out], OneLeaf)
     EXCEPT !.verify = verify]
Wirings ==
  {Wired(e1, e2, e3, enabled, out, verify) :
     e1 \in Reads, e2 \in Reads, e3 \in {Text, Out("A b"), Out("c")},
     enabled \in {{}, {Out("a b")}}, out \in {Out("c"), In("A b"), [from |-> "none", of |-> ""]},
     verify \in BOOLEAN}

\* Two components in all pairs, under all options, published or not, and used
\* by graphs that pass what the second unwraps, or not quite.
Unwrapping == {<<>>, (<<"u", "a">> :> Text) @@ (<<"u", "b">> :> In("i")),
               (<<"u", "a">> :> Text), (<<"u">> :> Text) @@ (<<"u", "a">> :> Text) @@ (<<"u", "b">> :> Text)}
Leaves ==
  {[Document(("root" :> [GraphOf("Train", <<Runs1("a", "c1", <<"x">> :> Text),
                                           Runs1("b", "c2", (<<"x">> :> Out("a")) @@ extra),
                                           Nests("n", "g")>>) EXCEPT !.inputs = <<"i">>])
             @@ ("g" :> [GraphOf("load", <<Runs1("b", "c2", (<<"x">> :> Text)
                                             @@ (<<"u", "a">> :> In("i")) @@ (<<"u", "b">> :> Text))>>)
                           EXCEPT !.inputs = <<"i">>]),
             ("c1" :> [LeafOf(pair[1], "d-" \o pair[1]) EXCEPT !.published = published])
             @@ ("c2" :> [LeafOf(pair[2], "d-" \o pair[2]) EXCEPT !.published = TRUE]))
      EXCEPT !.verify = how[1], !.python = how[2], !.copies = how[3]] :
     extra \in Unwrapping, published \in BOOLEAN,
     pair \in {<<"train", "Train">>, <<"train", "train too">>, <<"load", "save">>, <<"save", "split">>,
               <<"half", "split">>, <<"yaml", "other">>, <<"yaml", "split">>, <<"train", "train">>},
     how \in {<<TRUE, TRUE, FALSE>>, <<FALSE, TRUE, TRUE>>, <<TRUE, FALSE, FALSE>>}}

\* What is refused before, or without, being rendered.
One == Document("root" :> GraphOf("p", <<Call1("c")>>), OneLeaf)
Two == [One EXCEPT !.graph = ("root" :> GraphOf("p", <<Nests("n", "g")>>)) @@ ("g" :> GraphOf("g", <<Call1("c")>>))]
Refused ==
  {[One EXCEPT !.flaw = "mixed"], [One EXCEPT !.graph["root"].bad = "unsupported-input-value"],
   [Two EXCEPT !.plain = FALSE], [Two EXCEPT !.graph["root"].tasks[1].enabled = {Text}],
   [One EXCEPT !.leaf["c"].spec = "train", !.plain = FALSE]}
  \cup {[One EXCEPT !.leaf["c"].found = found] :
          found \in {"missing", "several", "unreachable", "cyclic", "executable"}}

Documents == NamesClash \cup (Wirings \cup (Leaves \cup Refused))

-----------------------------------------------------------------------------
VARIABLE which  \* "stage", "publish" or another, which no step changes

NoDecompile == /\ source = One /\ step = "over" /\ verdict = "none" /\ verified = {}
               /\ sidecar = {} /\ assets = {} /\ units = <<>> /\ recovered = <<>>
               /\ emitted = <<>> /\ byDigest = {} /\ code = NoCode
NoPublish == /\ dest = [k \in Products |-> Nothing] /\ script = Nothing
             /\ aside = [k \in Products |-> [i \in Pids |-> Nothing]]
             /\ files = [g \in Generations |-> {}] /\ pid = [g \in Generations |-> p]
             /\ gen = 1 /\ before = dest /\ pc = "raised" /\ at = 1
             /\ sidelined = {} /\ placed = {}

\* Digests are told apart by their versions only, and publishers of one kind by
\* what they publish: they may as well be numbered in that order.  Versions are
\* only compared, so that they may as well have no gaps.
InOrder ==
  /\ \A d \in Digests : version[d] > 1 => \E e \in Digests : version[e] = version[d] - 1
  /\ \A d \in Digests, e \in Digests : d < e => version[d] <= version[e]
  /\ \A x \in Publishers \ Downgraders, y \in Publishers \ Downgraders :
       x < y => digest[x] <= digest[y]

NoComponents ==
  /\ batch = FALSE /\ version = [d \in Digests |-> 1]
  /\ digest = [x \in Publishers |-> NoDigest]
  /\ row = [d \in Digests |-> "none"] /\ successor = [d \in Digests |-> NoDigest]
  /\ phase = [x \in Publishers |-> "done"] /\ todo = [x \in Publishers |-> {}]
  /\ failed = todo
  /\ outcome = [x \in Publishers |-> "none"] /\ pin = [x \in Publishers |-> NoDigest]

AllInit == \/ which = "publish" /\ Init /\ NoDecompile /\ NoComponents
           \/ which = "stage" /\ DecompileInit /\ NoPublish /\ NoComponents
           \/ which = "components" /\ PublishInit /\ InOrder /\ NoPublish /\ NoDecompile
AllNext == \/ which = "publish" /\ Next /\ UNCHANGED <<which, decompileVars, publishVars>>
           \/ which = "stage" /\ DecompileNext /\ UNCHANGED <<which, vars, publishVars>>
           \/ which = "stage" /\ DecompileOver /\ UNCHANGED <<which, vars, decompileVars, publishVars>>
           \/ which = "components" /\ (PublishNext \/ Done) /\ UNCHANGED <<which, vars, decompileVars>>
AllSpec == AllInit /\ [][AllNext]_<<which, vars, decompileVars, publishVars>>
=============================================================================
