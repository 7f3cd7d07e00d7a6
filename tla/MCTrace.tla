------------------------------- MODULE MCTrace -------------------------------
(* The bodies of the model-checking run, three after another in every order: *)
(* handles that several bodies derive from, children, unwrapped arguments,   *)
(* nested traces, bodies that raise, and calls outside of any trace.         *)
EXTENDS Tracing, TaskSidecar, TLC

X == <<"x">>
Y == <<"y">>
A == <<"a">>
Titles == ("a" :> "A") @@ ("b" :> "B") @@ ("gpu" :> "Gpu") @@ ("GPU" :> "Gpu")

Str(t) == [is |-> "str", text |-> t]
RawText == [is |-> "raw", text |-> "{{x}}"]
Secret == [is |-> "dynamic", text |-> "secret"]
OtherValue == [is |-> "other"]
NotGiven == [is |-> "unset"]
Bool(on) == [is |-> "bool", on |-> on]
Var(x) == [is |-> "var", of |-> x, out |-> {}]
Attr(x, o) == [is |-> "var", of |-> x, out |-> {o}]
Dict(items) == [is |-> "dict", items |-> items]

Handle(kind, bound, hint, unwrap, known, outputs) ==
  [kind |-> kind, bound |-> bound, hint |-> hint, notes |-> <<>>, overrides |-> <<>>,
   unwrap |-> unwrap, known |-> known, outputs |-> outputs]
SixHandles == [
  train |-> Handle("ref", X :> Str("0"), {}, {}, FALSE, {}),
  fixed |-> Handle("registered", <<>>, {<<"A">>}, {}, FALSE, {}),
  gather |-> Handle("task", <<>>, {}, {X}, FALSE, {}),
  mix |-> Handle("task", <<>>, {}, {X, <<"x", "a">>}, FALSE, {}),
  child |-> Handle("child", <<>>, {}, {}, TRUE, {Y}),
  pair |-> Handle("child", <<>>, {}, {}, TRUE, {X, Y})]

On(handle, chain, args, line, into) ==
  [do |-> "call", handle |-> handle, chain |-> chain, args |-> args, line |-> line, into |-> into,
   enabled |-> NotGiven, options |-> NotGiven, stale |-> NotGiven]
Bind(args) == [op |-> "bind", args |-> args]
NamedAs(id) == [op |-> "named", id |-> id]
In(name, into, given) == [do |-> "input", name |-> name, into |-> into, given |-> given]
OutputStep(name, value, given) == [do |-> "output", name |-> name, value |-> value, given |-> given]
Sub(body, caught) == [do |-> "trace", body |-> body, caught |-> caught]

\* Lines 1, 2, 3 assign a, b__a and b_a; lines 4 and 5 are the same word in two cases.
Lines == (1 :> A) @@ (2 :> <<"b", "", "a">>) @@ (3 :> <<"b", "a">>) @@ (4 :> <<"gpu">>) @@ (5 :> <<"GPU">>)
NoReturn == [is |-> "nothing", of |-> <<>>]
OutField(name, value, out) == [name |-> name, value |-> value, out |-> out]
Out(value) == [is |-> "out", of |-> <<OutField(WaitFor, value, TRUE)>>]
Outs(fields) == [is |-> "outputs", of |-> fields]
BodyOf(params, steps, returns) ==
  [do |-> "body", params |-> params, lhs |-> Lines, steps |-> steps, returns |-> returns, outName |-> WaitFor]
Param(name, kind) == [name |-> name, kind |-> kind]
In1 == <<Param(X, "in"), Param(<<"cfg">>, "cfg")>>

FirstCall == On("train", <<>>, <<>>, 1, A)
Bound == On("train", <<Bind(X :> Str("1")), NamedAs(<<"N">>), Bind((X :> Str("2")) @@ (Y :> Var(A)))>>,
            Y :> Attr(A, Y), 2, Y)

\* Calls of every kind of argument, condition and option, after a plain one.
Second(value) == On("train", <<>>, X :> value, 2, Y)
ArgValues == {Str("1"), RawText, Secret, OtherValue, Var(A), Attr(A, Y), Var(X), Attr(X, Y), Dict(X :> Str("1"))}
Conditions == {Bool(TRUE), Str("c"), Var(A), Var(X), RawText, OtherValue}
Options1 == {NotGiven, OtherValue, [is |-> "options", groups |-> <<>>],
             [is |-> "options", groups |-> "cachingStrategy" :> ("maxCacheStaleness" :> Str("P7D"))],
             [is |-> "options", groups |-> "retryStrategy" :> ("maxRetries" :> Str("3"))],
             [is |-> "options", groups |-> "retryStrategy" :> <<>>],
             [is |-> "options", groups |-> "timeout" :> <<>>]}
Varied ==
  {BodyOf(In1, <<FirstCall, Second(v)>>, Out(Var(Y))) : v \in ArgValues}
  \cup {BodyOf(In1, <<FirstCall, [Bound EXCEPT !.enabled = c]>>, NoReturn) : c \in Conditions}
  \cup {BodyOf(In1, <<FirstCall, [Bound EXCEPT !.options = o, !.stale = s]>>, NoReturn) :
          o \in Options1, s \in {NotGiven, OtherValue, Str("P0D")}}
  \cup {BodyOf(In1, <<FirstCall, On(h, <<>>, args, 3, Y)>>, NoReturn) :
          h \in {"gather", "mix"},
          args \in {<<>>, X :> Dict(<<>>), X :> Str("1"), X :> Dict((A :> Var(A)) @@ (Y :> RawText)),
                    X :> Dict(<<"?">> :> Str("1")), (X :> Dict(A :> Str("1"))) @@ (<<"x", "a">> :> Str("2")),
                    (X :> Dict(<<"a", "b">> :> Str("1"))) @@ (<<"x", "a">> :> Dict(<<"b">> :> Str("2")))}}
  \cup {BodyOf(<<>>, <<FirstCall, On(h, <<>>, <<>>, 3, Y)>> \o more, ret) :
          h \in {"child", "pair"}, more \in {<<>>, <<OutputStep(X, Var(A), TRUE)>>,
                                             <<In(A, X, TRUE), OutputStep(WaitFor, Var(X), TRUE)>>},
          ret \in {NoReturn, Out(Var(Y)), Out(Attr(Y, X)), Outs(<<>>), Outs(<<OutField(X, Attr(Y, Y), TRUE)>>),
                   Outs(<<OutField(Y, Var(Y), TRUE), OutField(A, Var(A), TRUE)>>), Outs(<<OutField(Y, Var(Y), FALSE)>>)}}

Simple == BodyOf(<<>>, <<FirstCall, Bound>>, Out(Attr(Y, X)))
Raising == BodyOf(<<>>, <<FirstCall, [do |-> "raise"]>>, NoReturn)
Others1 == {
  Simple, Raising, BodyOf(<<>>, <<[do |-> "direct"]>>, NoReturn), BodyOf(<<>>, <<>>, NoReturn),
  BodyOf(<<Param(X, "odd")>>, <<FirstCall>>, NoReturn),
  BodyOf(<<>>, <<FirstCall, FirstCall>>, NoReturn),
  BodyOf(<<>>, <<On("train", <<>>, <<>>, 9, A)>>, NoReturn),
  BodyOf(<<>>, <<On("fixed", <<>>, <<>>, 9, A), On("train", <<>>, <<>>, 2, Y)>>, Out(Var(A))),
  BodyOf(<<>>, <<On("train", <<>>, <<>>, 2, A), On("train", <<>>, <<>>, 3, Y)>>, NoReturn),
  BodyOf(<<>>, <<On("train", <<>>, <<>>, 4, A), On("train", <<>>, <<>>, 5, Y)>>, NoReturn),
  BodyOf(<<>>, <<In(X, X, TRUE), In(Y, Y, FALSE), On("train", <<>>, Y :> Var(X), 2, A),
                 OutputStep(X, Var(X), TRUE), OutputStep(Y, Var(Y), FALSE)>>, Out(Var(A))),
  BodyOf(In1, <<In(X, Y, TRUE)>>, NoReturn),
  BodyOf(<<>>, <<FirstCall, OutputStep(X, Var(A), TRUE), OutputStep(X, Var(A), TRUE)>>, NoReturn),
  [Simple EXCEPT !.outName = X],
  [BodyOf(<<>>, <<FirstCall, OutputStep(X, Var(A), TRUE)>>, Out(Var(A))) EXCEPT !.outName = X],
  [BodyOf(<<>>, <<FirstCall, OutputStep(X, Var(A), TRUE)>>, Out(Var(A))) EXCEPT !.outName = Y],
  [BodyOf(<<>>, <<FirstCall>>, Outs(<<OutField(X, Var(A), TRUE)>>)) EXCEPT !.outName = X]}
Nested1 == {BodyOf(<<>>, <<Sub(b, caught), FirstCall, Bound>>, Out(Var(Y))) : b \in {Simple, Raising}, caught \in BOOLEAN}
Loosely == FirstCall

\* What is traced between a body and the same body again.
Between == Others1 \cup Nested1 \cup {Loosely}
Orders == {<<b, m, b>> : b \in Varied \cup Between, m \in {Simple, Raising, Loosely}}
          \cup {<<b, m, c>> : b \in Between, m \in Between, c \in Nested1 \cup {Simple, Loosely}}

-----------------------------------------------------------------------------
(* The references of the model-checking run: calls of @task functions, some *)
(* of one component in two spellings, in every order, and every other kind   *)
(* of reference, compiled in place and into another directory.               *)
Home == <<"p">>
Lib == <<"p", "lib">>
Elsewhere == <<"b", "sub">>
Disk == {Home, Lib, <<"p", "main">>, <<"p", "lib", "tasks">>, <<"p", "lib", "__init__">>,
         <<"p", "reqs">>, <<"p", "gen_config">>, <<"gen_config">>, <<"p", "leaf">>, <<"b", "leaf">>}

Task(file, scope, image, id, mode, base, deps, keys, publish) ==
  [kind |-> "task", file |-> file, scope |-> scope, function |-> "run", image |-> image,
   imageId |-> id, mode |-> mode, root |-> base, deps |-> deps, keys |-> keys, publish |-> publish]
Main == <<"p", "main">>
Bare == Task(Main, "", Absent, Absent, Absent, <<>>, <<>>, Absent, Absent)

TaskCalls == {
  Bare, [Bare EXCEPT !.mode = "inline"], [Bare EXCEPT !.mode = "bundle"],
  [Bare EXCEPT !.image = "i"], [Bare EXCEPT !.imageId = "fast"], [Bare EXCEPT !.imageId = "lost"],
  [Bare EXCEPT !.imageId = "slow", !.mode = "inline"],
  [Bare EXCEPT !.root = Home], [Bare EXCEPT !.root = Lib], [Bare EXCEPT !.deps = <<"p", "reqs">>],
  [Bare EXCEPT !.deps = <<"p", "none">>], [Bare EXCEPT !.keys = "k1"], [Bare EXCEPT !.keys = "clash"],
  [Bare EXCEPT !.file = <<"p", "lib", "tasks">>], [Bare EXCEPT !.file = <<"p", "lib", "__init__">>],
  [Bare EXCEPT !.scope = "outer"], [Bare EXCEPT !.publish = "name"],
  [Bare EXCEPT !.image = "i", !.mode = "inline", !.keys = "k1"], [Bare EXCEPT !.function = "other"]}

Graph(out, sidecars, packages, zones, tasks) ==
  [source |-> Home, out |-> out, sidecar |-> sidecars, files |-> Disk, packages |-> packages,
   zones |-> zones, images |-> "fast" :> "i", defaults |-> ("fast" :> "j") @@ ("slow" :> "i"),
   tasks |-> tasks]

Rel(up, down) == [up |-> up, down |-> down]
Author(is, path) ==
  [kind |-> "author", url |-> Url("file", is, path, [NoFragment EXCEPT !.base = "f"])]
Child == [kind |-> "child", url |-> Url("file", "relative", Rel(0, <<"main.subgraphs", "c">>), NoFragment)]
Registered(file, is, path) ==
  [kind |-> "registered", file |-> file, config |-> [is |-> is, path |-> path], function |-> "op"]
Others == {Child, Author("absolute", Rel(0, <<"x">>)), Author("remote", Rel(0, <<"x">>)),
           Author("relative", Rel(0, <<"leaf">>)), Author("relative", Rel(1, <<"b", "leaf">>)),
           Author("relative", Rel(0, <<"lost">>)),
           Author("relative", Rel(4, <<"b", "leaf">>))} \cup
  {Registered(f, c[1], c[2]) :
     f \in {<<"p", "lib", "tasks">>, <<"b", "op">>},
     c \in {<<"none", NoPath>>, <<"remote", Rel(0, <<"x">>)>>, <<"absolute", Rel(0, <<"gen_config">>)>>,
            <<"absolute", Rel(0, <<"none">>)>>, <<"file", Rel(1, <<"gen_config">>)>>,
            <<"relative", Rel(0, <<"gen_config">>)>>}}

Calling ==
  {<<out, TRUE, packages, {}, <<s, t, u>>>> :
     out \in {Home, Elsewhere}, packages \in {{}, {Lib}}, s \in TaskCalls, t \in TaskCalls, u \in {Bare, [Bare EXCEPT !.image = "i"]}}
Referring ==
  {<<out, sidecars, {}, zones, <<s, t, Bare>>>> :
     out \in {Home, Elsewhere}, sidecars \in BOOLEAN, zones \in {{}, {Home, <<>>}},
     s \in Others, t \in Others}
AllRefs == {Graph(g[1], g[2], g[3], g[4], g[5]) : g \in Calling \cup Referring}
=============================================================================
