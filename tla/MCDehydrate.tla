---------------------------- MODULE MCDehydrate ----------------------------
(* A behaviour hydrates (Hydrator), dehydrates (Dehydrator), or checks, lays *)
(* out and runs a document (GraphChecks).                                    *)
EXTENDS MCHydrator, Dehydrator, MCChecks

-----------------------------------------------------------------------------
LeafTask(id, leaf, digest) == [id |-> id, graph |-> "", leaf |-> leaf, digest |-> digest]
GraphTask(id, graph, digest) == [id |-> id, graph |-> graph, leaf |-> "", digest |-> digest]
GraphOf(name, tasks) == [name |-> name, tasks |-> tasks]

\* Components a and b, one under a digest that is another's by now.
TheLibrary == ("d-a" :> Component("a")) @@ ("d-old" :> Component("c"))
              @@ ("d-g" :> Doc("in", [id \in {"x"} |-> Inline(Component("a"))]))
TheAuthors == ("d-a" :> "a by me") @@ ("d-old" :> "c by me") @@ ("d-g" :> "")
TheUrls == ("a" :> "") @@ ("b" :> "") @@ ("u" :> "https://u")

\* A graph within a graph, twice the same but for the name, and a leaf of it
\* elsewhere; a pipeline whose name holds the separator.
Nested(name) ==
  ("root" :> GraphOf(name, <<LeafTask("x", "a", "d-a"), GraphTask("g", "g", "sha g"), GraphTask("h", "h", "d-g")>>))
  @@ ("g" :> GraphOf("g", <<LeafTask("x", "b", "d-old"), GraphTask("g", "h", "sha h"), GraphTask("i", "i", "sha i")>>))
  @@ ("h" :> GraphOf("in", <<LeafTask("x", "a", "d-a")>>))
  @@ ("i" :> GraphOf("in too", <<LeafTask("x", "a", "d-a")>>))
Flat == "root" :> GraphOf("q", <<LeafTask("x", "a", "d-a"), LeafTask("y", "u", "sha u"), LeafTask("z", "b", "d-old")>>)

Request(graphs, dir, bundle) ==
  [graph |-> graphs, root |-> "root", dir |-> dir, stem |-> "out", bundle |-> bundle,
   extract |-> TRUE, export |-> FALSE, interactive |-> FALSE, answers |-> {TRUE}]
SomeRequests ==
  {Request(Nested("p"), "A", "A/components"),
   [Request(Nested("p"), "B", "shared") EXCEPT !.answers = {FALSE}],
   [Request(Nested("p"), "A", "A/components") EXCEPT !.extract = FALSE, !.export = TRUE],
   [Request(Flat, "B", "B/components") EXCEPT !.interactive = TRUE],
   [Request(Flat, "A", "shared") EXCEPT !.answers = BOOLEAN],
   Request(Nested("p|q"), "A", "A/components")}

AnyDocument == CHOOSE d \in SomeDocuments : TRUE
-----------------------------------------------------------------------------
VARIABLE which  \* "hydrate", "dehydrate" or "check", which no step changes

NoHydrate == /\ status = "done" /\ calls = MaxCalls /\ cache = <<>> /\ globalParams = Empty
             /\ stack = <<>> /\ tried = 0 /\ best = NoPick /\ resolved = {} /\ given = NotGiven
NoDehydrate == /\ request = CHOOSE r \in Requests : TRUE
               /\ served = MaxRequests /\ stage = "idle" /\ remembered = <<>> /\ todo = <<>>
               /\ working = <<>> /\ saved = <<>> /\ fragments = {} /\ files = {}
               /\ manifests = <<>> /\ outputs = <<>>
NoCheck == /\ document = AnyDocument /\ checking = "none"
           /\ errors = {} /\ shapeOf = {} /\ wiringOf = {} /\ layoutOf = {}
           /\ ready = <<>> /\ incoming = Nothing /\ layer = Nothing
           /\ position = Nothing /\ begun = {} /\ done = {}

EitherInit == \/ which = "hydrate" /\ Init /\ NoDehydrate /\ NoCheck
              \/ which = "dehydrate" /\ DehydrateInit /\ NoHydrate /\ NoCheck
              \/ which = "check" /\ CheckInit /\ NoHydrate /\ NoDehydrate
EitherNext == \/ which = "hydrate" /\ Next /\ UNCHANGED <<which, dehydrateVars, checkVars>>
              \/ which = "dehydrate" /\ DehydrateNext /\ UNCHANGED <<which, vars, checkVars>>
              \/ which = "check" /\ CheckNext /\ UNCHANGED <<which, vars, dehydrateVars>>
EitherVars == <<which, vars, dehydrateVars, checkVars>>
EitherSpec == EitherInit /\ [][EitherNext]_EitherVars
              /\ WF_EitherVars(which = "hydrate" /\ Work /\ UNCHANGED <<which, dehydrateVars, checkVars>>)
=============================================================================
