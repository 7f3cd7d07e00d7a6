----------------------------- MODULE MCHydrator -----------------------------
(* The pipelines and components of the model-checking run of Hydrator: two   *)
(* directories, relative and remote components, templates, an inline         *)
(* subgraph, a component that contains itself.                               *)
EXTENDS Hydrator, TLC

Ref(id, type, scheme, absolute) ==
  [id |-> id, type |-> type, scheme |-> scheme, absolute |-> absolute]

Lib    == Ref("lib", "url", "file", FALSE)     \* another file in each directory
Leaf   == Ref("leaf", "url", "none", FALSE)    \* a template, by relative path
Shared == Ref("shared", "name", "none", FALSE) \* a remote graph that refers to Leaf
Pinned == Ref("pinned", "digest", "none", FALSE)
Plain  == Ref("plain", "url", "resolve", TRUE)
Loop   == Ref("loop", "url", "file", TRUE)
MCRefs == {Lib, Leaf, Shared, Pinned, Plain, Loop}

NoneOf == [p \in {} |-> 0]
Sets(p, v) == [q \in {p} |-> v]

Holds(refs) == [inline |-> NoDoc, refs |-> refs]
Inlines(d) == [inline |-> d, refs |-> <<>>]

MCDocs == {"templated", "bare", "libA", "libB", "inner", "remote",
           "leafA", "leafB", "plain", "pinned", "loop"}

MCTasks == [d \in MCDocs |->
  CASE d = "templated" -> <<Holds(<<Lib>>), Holds(<<Pinned, Shared, Plain>>)>>
    [] d = "bare"      -> <<Inlines("inner"), Inlines("plain"), Holds(<<Shared>>), Holds(<<Loop>>)>>
    [] d = "libA"      -> <<Holds(<<Shared>>), Holds(<<Leaf>>)>>
    [] d = "libB"      -> <<Holds(<<Leaf>>)>>
    [] d = "inner"     -> <<Holds(<<Lib>>), Holds(<<Leaf, Plain>>)>>
    [] d = "remote"    -> <<Holds(<<Leaf>>)>>
    [] d = "loop"      -> <<Holds(<<Loop>>)>>
    [] OTHER           -> <<>>]

MCDir == [d \in MCDocs |->
  CASE d \in {"templated", "libB", "leafA", "loop"} -> "a"
    [] d \in {"bare", "libA", "leafB"} -> "b"
    [] OTHER -> NoDir]

MCTemplate == [d \in MCDocs |-> d \in {"templated", "libA", "leafA", "leafB"}]

MCOwn == [d \in MCDocs |->
  CASE d = "templated" -> Sets("x", 1)
    [] d = "libA"      -> Sets("x", 2) @@ Sets("y", 2)
    [] d = "leafA"     -> Sets("y", 1)
    [] OTHER           -> NoneOf]

MCVersion == [d \in MCDocs |->
  CASE d \in {"remote", "pinned"} -> 2 [] d \in {"plain", "leafA"} -> 1 [] OTHER -> 0]

MCMeans == [r \in MCRefs |-> [b \in Bases |->
  CASE r = Lib    -> IF b = "a" THEN "libA" ELSE "libB"
    [] r = Leaf   -> IF b = "a" THEN "leafA" ELSE "leafB"
    [] r = Shared -> "remote"
    [] r = Pinned -> "pinned"
    [] r = Plain  -> "plain"
    [] r = Loop   -> "loop"]]

MCOverrides == NoneOf
=============================================================================
