----------------------------- MODULE MCSources -----------------------------
(* What a command makes of its sources: the compilation of a pipeline        *)
(* (Compiler), the import of its modules (ModuleLoad), the graphs of its      *)
(* bodies (Tracing), where its references lead (TaskSidecar), the load of    *)
(* its configuration files (ConfigLayers), the version of a component and of *)
(* its source (VersionBump), and the modules a component takes along         *)
(* (ModuleBundle).  A behaviour is one of these.                             *)
EXTENDS MCCompiler, MCLayers, MCModules, MCTrace, VersionBump, MCBundle

(* The workshops of the model-checking run: components alone, with versions  *)
(* of every spelling, and components with a source here or there, with or    *)
(* without a recorded function, files they need, and a second source.        *)
Spellings == {<<>>, <<1>>, <<1, 9>>, <<1, 0>>, <<1, 2, 9>>, <<1, 2, 3, 4>>, <<1, Word>>}
AllAsks == {[set |-> <<>>, reference |-> known, stamp |-> known = <<2, 1>>] : known \in {<<>>, <<2, 1>>, <<3, Word>>}}
           \cup {[set |-> <<>>, reference |-> <<>>, stamp |-> TRUE]}
           \cup {[set |-> v, reference |-> <<>>, stamp |-> FALSE] : v \in {<<3>>, <<1, 10>>, <<0, 1, 2, 4>>, <<Word>>}}

NoPlace == [p \in Everywhere |-> 0]
FoundAt(found) == [NoPlace EXCEPT !["absolute"] = found[1], !["common"] = found[2], !["beside"] = found[3],
                             !["sources"] = found[4], !["basename"] = found[5]]
Only(links) == [source |-> links[1], dependencies |-> links[2], root |-> links[3]]
NoFiles == [k \in Kinds |-> NoPlace]
DocOf(name, version, section) == [name |-> name, version |-> version, stamp |-> 0, others |-> TRUE, section |-> section]

PlainComponent(shape, version, top, bare, stamp) ==
  [yaml |-> [Blank EXCEPT !.shape = shape, !.version = version, !.top = top, !.bare = bare, !.topStamp = stamp],
   places |-> NoFiles, pyfiles |-> <<<<>>>>]
Alone == {PlainComponent("mapping", v, <<>>, bare, 0) : v \in Spellings \cup {<<1, 10>>}, bare \in BOOLEAN}
         \cup {PlainComponent("mapping", v, <<1, 20>>, bare, 99) : v \in {<<>>, <<2, 2>>}, bare \in BOOLEAN}
         \cup {PlainComponent(shape, <<1, 1>>, <<>>, FALSE, 0) : shape \in {"listed", "odd"}}
Sourceful == [Blank EXCEPT !.version = <<1, 1>>, !.rooted = TRUE, !.links = Only(<<"relative", "none", "none">>), !.function = "main"]
TwoSources(docs) == <<docs, <<DocOf("main", <<7, 7>>, TRUE)>>>>
Sourced ==
  {[yaml |-> Sourceful, places |-> [NoFiles EXCEPT !["source"] = FoundAt(<<0, 1, 2, 0, 0>>)], pyfiles |-> TwoSources(docs)] :
     docs \in {<<DocOf("other", <<5>>, TRUE), DocOf("main", v, s)>> : v \in Spellings, s \in BOOLEAN}
              \cup {<<>>, <<DocOf("other", <<5>>, TRUE)>>}}
  \cup {[yaml |-> [Sourceful EXCEPT !.links = Only(<<link, need[1], "none">>), !.rooted = rooted, !.function = f],
         places |-> [source |-> FoundAt(src), dependencies |-> FoundAt(need[2]), root |-> NoPlace],
         pyfiles |-> TwoSources(<<DocOf("other", <<5>>, TRUE), DocOf("main", <<1, 1>>, TRUE)>>)] :
           link \in {"relative", "absolute"}, rooted \in BOOLEAN, f \in {"", "main"},
           src \in {<<0, 0, 0, 1, 2>>, <<2, 0, 1, 2, 2>>, <<0, 2, 0, 0, 1>>},
           need \in {<<"none", <<0, 0, 0, 0, 0>>>>, <<"relative", <<0, 0, 0, 0, 0>>>>, <<"relative", <<0, 1, 0, 0, 0>>>>}}
  \cup {[yaml |-> [Sourceful EXCEPT !.supported = FALSE], places |-> NoFiles, pyfiles |-> TwoSources(<<>>)]}
AllWorkshops == Alone \cup Sourced

-----------------------------------------------------------------------------
VARIABLE which  \* "compile", "refs", "trace", "load", "import", "bump" or "bundle", which no step changes

\* What is not done is over from the start.
NoCompile ==
  /\ program = Program(<<>>, Empty, FALSE) /\ pc = "done" /\ frames = <<>> /\ layers = <<>>
  /\ registry = <<>> /\ bundle = <<>> /\ checked = 0 /\ written = 0 /\ verdict = "none"

NoLoad ==
  /\ load = Reading(EnvOf(None, None), None, None, <<>>) /\ at = "config" /\ step = "done"
  /\ node = None /\ hops = 0 /\ looked = {} /\ sound = [x \in {} |-> TRUE]
  /\ base = None /\ entries = <<>> /\ results = <<>> /\ error = "none"

NoImport ==
  /\ job = [x \in Compiles |-> Script(North, <<>>, FALSE, <<>>, "", <<>>)]
  /\ modules = Imported /\ path = BasePath
  /\ phase = [x \in Compiles |-> "over"]
  /\ body = [x \in Compiles |-> 0] /\ todo = [x \in Compiles |-> <<>>]
  /\ added = [x \in Compiles |-> FALSE] /\ dirs = [x \in Compiles |-> {}]
  /\ root = [x \in Compiles |-> NoPipeline] /\ failed = [x \in Compiles |-> FALSE]
  /\ alone = [x \in Compiles |-> <<>>] /\ agrees = [x \in Compiles |-> TRUE]

NoRefs ==
  /\ graph = Graph(Home, TRUE, {}, {}, <<>>)
  /\ at_ref = "done" /\ ref = 0 /\ refused = 0
  /\ variants = <<>> /\ sidecar = <<>> /\ urls = <<>>

NoTrace ==
  /\ agenda = <<>> /\ builders = <<>> /\ current = 0 /\ running = <<>> /\ raising = FALSE
  /\ handles = Handles /\ traced = <<>>

NoBump ==
  /\ yaml = Gone /\ places = NoFiles /\ pyfiles = <<>> /\ outcome = Missing1
  /\ ask = 0 /\ bumping = "over" /\ bumps = MaxBumps
  /\ earlier = [yaml |-> Gone, pyfiles |-> <<>>]

NoBundle ==
  /\ prog = [files |-> <<>>, main |-> <<>>, deps |-> {}]
  /\ bundled = {} /\ batch = {} /\ executed = {} /\ bundling = "runs"

SourcesInit ==
  \/ which = "compile" /\ Init /\ NoLoad /\ NoImport /\ NoRefs /\ NoTrace /\ NoBump /\ NoBundle
  \/ which = "load" /\ LoadInit /\ NoCompile /\ NoImport /\ NoRefs /\ NoTrace /\ NoBump /\ NoBundle
  \/ which = "import" /\ ModulesInit /\ NoCompile /\ NoLoad /\ NoRefs /\ NoTrace /\ NoBump /\ NoBundle
  \/ which = "refs" /\ RefsInit /\ NoCompile /\ NoLoad /\ NoImport /\ NoTrace /\ NoBump /\ NoBundle
  \/ which = "trace" /\ TraceInit /\ NoCompile /\ NoLoad /\ NoImport /\ NoRefs /\ NoBump /\ NoBundle
  \/ which = "bump" /\ BumpInit /\ NoCompile /\ NoLoad /\ NoImport /\ NoRefs /\ NoTrace /\ NoBundle
  \/ which = "bundle" /\ BundleInit /\ NoCompile /\ NoLoad /\ NoImport /\ NoRefs /\ NoTrace /\ NoBump

SourcesStep ==
  \/ which = "compile" /\ Compile /\ UNCHANGED <<which, layersVars, modulesVars, refVars, traceVars, bumpVars, bundleVars>>
  \/ which = "load" /\ LoadStep /\ UNCHANGED <<which, vars, modulesVars, refVars, traceVars, bumpVars, bundleVars>>
  \/ which = "import" /\ ModulesStep /\ UNCHANGED <<which, vars, layersVars, refVars, traceVars, bumpVars, bundleVars>>
  \/ which = "refs" /\ RefsStep /\ UNCHANGED <<which, vars, layersVars, modulesVars, traceVars, bumpVars, bundleVars>>
  \/ which = "trace" /\ TraceStep /\ UNCHANGED <<which, vars, layersVars, modulesVars, refVars, bumpVars, bundleVars>>
  \/ which = "bump" /\ BumpStep /\ UNCHANGED <<which, vars, layersVars, modulesVars, refVars, traceVars, bundleVars>>
  \/ which = "bundle" /\ BundleStep /\ UNCHANGED <<which, vars, layersVars, modulesVars, refVars, traceVars, bumpVars>>

SourcesOver == pc = "done" /\ LoadOver /\ ModulesOver /\ RefsOver /\ TraceOver /\ BumpOver /\ BundleOver
SourcesVars == <<which, vars, layersVars, modulesVars, refVars, traceVars, bumpVars, bundleVars>>
SourcesNext == SourcesStep \/ (SourcesOver /\ UNCHANGED SourcesVars)

\* The fairness of Spec and LoadSpec: one synchronous call goes on until it is
\* over (a step is enabled until then; said without ENABLED, which is slow here).
SourcesSpec == /\ SourcesInit /\ [][SourcesNext]_SourcesVars
               /\ <>SourcesOver \/ []<><<TRUE>>_SourcesVars

(* Every compilation ends, recursive programs included, and so does every    *)
(* load, import, trace, bump and bundle.                                     *)
SourcesEnd == <>SourcesOver
=============================================================================
