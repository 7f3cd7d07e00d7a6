------------------------------ MODULE MCLayers ------------------------------
(* The loads of the model-checking run: documents of every shape, their      *)
(* selectors, aliases, layers and fields.                                    *)
EXTENDS ConfigLayers, TLC

EnvOf(v, w) == [x \in {"V", "W"} |-> IF x = "V" THEN v ELSE w]
Envs == {EnvOf(v, w) : v \in {None, "1", "x"}, w \in {None, "1"}}

Num(v) == [is |-> "number", v |-> v]
Env(name, default) == [is |-> "env", name |-> name, default |-> default, ok |-> TRUE]
BadEnv == [is |-> "env", name |-> "V", default |-> None, ok |-> FALSE]
Map(of) == [is |-> "map", of |-> of]
ListOf(of) == [is |-> "list", of |-> of]
Sel(var, cases, default) ==
  [is |-> "select", var |-> var, cases |-> cases, default |-> default, helpers |-> {}, ok |-> TRUE]

Pairs(x, y) == ("k" :> x) @@ ("m" :> y)
FieldSpec(key, cli, default, env, kind, required) ==
  [key |-> key, cli |-> cli, default |-> default, env |-> env, kind |-> kind,
   required |-> required]
Plainly == << FieldSpec("k", Null, Null, None, "plain", FALSE), FieldSpec("m", Null, Null, None, "plain", FALSE) >>

Reading(env, root, config, fields) ==
  [command |-> IF root = None THEN None ELSE <<"tangle", "x">>, env |-> env,
   root |-> root, config |-> config, fields |-> fields]

\* Documents of four selectors that choose among each other, a mapping, a list
\* and one with a malformed directive.
Selecting ==
  {Reading(env, None,
     [root |-> 1, node |->
        (1 :> Sel("V", ("1" :> c1) @@ ("x" :> c2), None)) @@
        (2 :> Sel("W", ("1" :> c3), d2)) @@ (3 :> Sel("V", ("1" :> c4), 5)) @@
        (4 :> Sel("W", ("1" :> c5), None)) @@
        (5 :> Map("k" :> 7)) @@ (6 :> ListOf(<<5, 5>>)) @@ (7 :> Text("1")) @@
        (8 :> BadEnv) @@ (9 :> Map("k" :> 8))], Plainly) :
     env \in Envs, c1 \in {1, 2, 3, 5}, c2 \in {2, 3, 6}, c3 \in {2, 3, 5}, d2 \in {None, 4},
     c4 \in {2, 4, 7}, c5 \in {5, 9}}

Aliasing ==
  {Reading(EnvOf(v, None), None,
     [root |-> 1, node |->
        (1 :> Map(Pairs(2, 3))) @@ (4 :> Env("V", None)) @@ (5 :> Text("1")) @@
        (2 :> Map(("a" :> x) @@ ("b" :> y))) @@ (3 :> ListOf(<<z, w>>))], Plainly) :
     v \in {None, "x"}, x \in 2..5, y \in 2..5, z \in 2..5, w \in 1..5}

\* Trees as documents: the places of a tree, numbered, are its nodes.
RECURSIVE Paths(_, _)
Paths(path, t) ==
  {path} \cup (IF t.is # "map" THEN {} ELSE
               UNION {Paths(Append(path, x), t.of[x]) : x \in DOMAIN t.of})
RECURSIVE Place(_, _)
Place(t, path) == IF path = <<>> THEN t ELSE Place(t.of[Head(path)], Tail(path))
Number(path) == FoldLeft(LAMBDA n, x : 5 * n + CHOOSE i \in 1..4 : <<"k", "m", "a", "b">>[i] = x, 0, path)
TreeDoc(t) ==
  [root |-> 0, node |-> [n \in {Number(q) : q \in Paths(<<>>, t)} |->
     LET path == CHOOSE q \in Paths(<<>>, t) : Number(q) = n
         u == Place(t, path)
     IN IF u.is = "map" THEN Map([x \in DOMAIN u.of |-> Number(Append(path, x))]) ELSE u]]

Shapes == {Text("1"), Num("1"), Map("a" :> Text("1")), Map(Nothing),
           Map(("a" :> Map("b" :> Text("x"))) @@ ("b" :> Num("1")))}
OverShapes == {Text("x"), Null, Map(Nothing), Map("a" :> Null), Map("a" :> Num("x")),
          Map(("a" :> Map("b" :> Null)) @@ ("b" :> Text("y"))), Env("W", "x")}
Rooted(t) ==
  LET d == TreeDoc(t) IN
  [root |-> 999, node |-> d.node @@
     (999 :> [is |-> "commands", ok |-> TRUE,
            table |-> <<[name |-> <<"t-cli", "x">>, entry |-> d.root]>>])]
OptMap(x, y) == Map([q \in {z \in {"k", "m"} : IF z = "k" THEN x # None ELSE y # None} |-> IF q = "k" THEN x ELSE y])
Layering ==
  {Reading(EnvOf(None, "1"), Rooted(OptMap(x, y)), TreeDoc(OptMap(z, w)), Plainly) :
     x \in Shapes \cup {None}, y \in {None, Text("1"), Map("a" :> Text("2"))},
     z \in OverShapes \cup {None}, w \in OverShapes \cup {None}}

\* Every shape of a document, and what is wrong with one.
Entry1 == Map("k" :> 11)
Leaves1 == (10 :> Entry1) @@ (11 :> Env("V", "1")) @@ (12 :> Map(Pairs(13, 13))) @@ (13 :> Num("2"))
             @@ (14 :> Null) @@ (15 :> Map("m" :> 14)) @@ (16 :> Map("m" :> 17)) @@ (17 :> BadEnv)
             @@ (18 :> Text("x")) @@ (19 :> ListOf(<<10, 12>>)) @@ (20 :> ListOf(<<10, 18>>))
             @@ (21 :> [Sel("W", ("1" :> 10), None) EXCEPT !.helpers = {16}])
             @@ (22 :> [Sel("W", ("1" :> 10), None) EXCEPT !.ok = FALSE])
             @@ (23 :> Sel("V", ("x" :> 12), 10))
             @@ (24 :> [is |-> "configs", defaults |-> 12, list |-> 19])
             @@ (25 :> [is |-> "configs", defaults |-> 16, list |-> 20])
             @@ (26 :> [is |-> "configs", defaults |-> None, list |-> 18])
             @@ (27 :> [is |-> "configs", defaults |-> 18, list |-> 19])
             @@ (28 :> Sel("V", ("1" :> 24), 23))
             @@ (29 :> Map("k" :> 30)) @@ (30 :> Env("V", None))
DocAt(n) == [root |-> n, node |-> Leaves1]

RootAt(entry, second, ok) ==
  [root |-> 1, node |-> Leaves1 @@
     (1 :> [is |-> "commands", ok |-> ok,
            table |-> <<[name |-> <<"t-cli", "x">>, entry |-> entry], [name |-> second, entry |-> 12]>>])
     @@ (2 :> Sel("W", ("1" :> 1), None))]

Shaped ==
  {Reading(EnvOf(v, w), root, config, Plainly) :
     v \in {None, "x"}, w \in {None, "1"},
     root \in {None, Missing, [root |-> None, node |-> Leaves1],
              [RootAt(23, <<"tangle", "y">>, TRUE) EXCEPT !.root = 2]}
             \cup {RootAt(n, <<"tangle", "y">>, TRUE) : n \in {10, 12, 15, 18, 21, 22, 23, 24, 28, 29}}
             \cup {RootAt(10, <<"tangle", "x">>, TRUE), RootAt(10, <<"tangle", "y">>, FALSE)},
     config \in {None, Missing, [root |-> None, node |-> Leaves1]}
                \cup {DocAt(n) : n \in {10, 12, 15, 16, 18, 19, 20, 21, 22, 24, 25, 26, 27, 28}}}

\* A field of kind int has a number for its default and from the command line.
Fielding ==
  {Reading(env, None, [root |-> 1, node |-> (1 :> Map("m" :> 2)) @@ (2 :> v)], <<f>>) :
     env \in {EnvOf(None, None), EnvOf("x", "1")},
     v \in {Text("x"), Text("1"), Num("1"), Map(Nothing), Null},
     f \in {FieldSpec(key, cli, default, name, kind, required) :
              key \in {"k", "m"}, cli \in {Null, Text("1")}, default \in {Null, Text("1")},
              name \in {None, "V", "W"}, kind \in {"plain", "json"}, required \in BOOLEAN}
           \cup {FieldSpec(key, cli, Num("1"), name, "int", FALSE) :
              key \in {"k", "m"}, cli \in {Num("1"), Num("2")}, name \in {None, "V", "W"}}}

\* A command without an entry, and a value that contains itself over a root entry.
Odd ==
  {[Reading(EnvOf("1", "1"), RootAt(10, <<"tangle", "y">>, TRUE), config, Plainly)
      EXCEPT !.command = command] :
     command \in {<<"tangle", "x">>, <<"tangle", "z">>},
     config \in {None, Missing, DocAt(12),
                [root |-> 1, node |-> (1 :> Map("k" :> 2)) @@ (2 :> Map("a" :> 2))]}}

AliasTable == (<<"t-cli">> :> <<"tangle">>)
AllLoads == Layering \cup (Shaped \cup (Fielding \cup (Selecting \cup (Aliasing \cup Odd))))
=============================================================================
