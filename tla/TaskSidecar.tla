---------------------------- MODULE TaskSidecar -----------------------------
(* Where the references of a compiled pipeline lead (pipeline_compiler.py).  *)
(* The calls of @task functions are gathered into components, which the      *)
(* sidecar next to the pipeline lists, one entry for each; the author's      *)
(* relative references are moved from the source directory to the directory  *)
(* of the output; @registered ones get the configuration that registers      *)
(* them; and every local reference must lead to a file.                      *)
EXTENDS Integers, Sequences, FiniteSets, SequencesExt

CONSTANTS
  RefCalls,  \* the compilations of one graph, see below
  Absent     \* an option that is not set, a value that is not there

(* A compilation: source, the directory of the script; out, of the output;   *)
(* sidecar, emit_components_sidecar; files, what exists on disk; packages,   *)
(* the directories with an __init__.py; zones, those with a marker that is   *)
(* registered; images, --image, over defaults, the registered ones; tasks,   *)
(* in the order they are traced.  A path is the sequence of its names from   *)
(* the root; a relative one goes up, then down.                              *)
(*                                                                           *)
(* A task is "task", a call of a @task function: file, scope (the rest of    *)
(* its qualified name), function, image, imageId, mode, root, deps, keys     *)
(* ("clash" when the names of the unwrapped inputs clash), publish;          *)
(* "registered": file, config, function; or "author", ref(url=...), and      *)
(* "child", a subpipeline: url.                                              *)

FilePaths == Seq(STRING)
Relatives == [up : Nat, down : FilePaths]
OptionalNames == {Absent} \cup STRING
CalledTasks ==
  [kind : {"task"}, file : FilePaths \ {<<>>}, scope : STRING, function : STRING,
   image : OptionalNames, imageId : OptionalNames, mode : OptionalNames, root : FilePaths,
   deps : FilePaths, keys : OptionalNames, publish : OptionalNames]
RegisteredTasks ==
  [kind : {"registered"}, file : FilePaths \ {<<>>}, function : STRING,
   config : [is : {"remote", "absolute", "file", "relative"}, path : Relatives]
            \cup [is : {"none"}, path : {[up |-> -1, down |-> <<>>]}]]
WrittenUrls ==
  [scheme : STRING, is : {"relative", "absolute", "remote"}, path : Relatives,
   fragment : [base : STRING, keys : {Absent}, identity : {{}}]]
WrittenTasks == [kind : {"author", "child"}, url : WrittenUrls]

ASSUME RefsConstantsOK ==
  \A g \in RefCalls :
    /\ {g.source, g.out} \cup g.files \cup g.packages \cup g.zones \subseteq FilePaths
    /\ g.tasks \in Seq(CalledTasks \cup RegisteredTasks \cup WrittenTasks)

VARIABLES
  graph,     \* the compilation
  at_ref,    \* "plan", "entries", "relocate", "register", "check", "done"
  ref,       \* how many tasks this step has done
  variants,  \* function -> the identities of its components -> the entry
  sidecar,   \* fragment -> the entry, the components sidecar
  urls,      \* task -> the URL of its componentRef
  refused    \* the task it is refused for, or 0

refVars == <<graph, at_ref, ref, variants, sidecar, urls, refused>>

Tasks(g) == DOMAIN g.tasks
OfKind(g, kind) == {i \in Tasks(g) : g.tasks[i].kind = kind}

-----------------------------------------------------------------------------
(* Paths *)

Parent(path) == Front(path)
RelPath(target, start) ==
  LET same == Len(LongestCommonPrefix({target, start}))
  IN [up |-> Len(start) - same, down |-> SubSeq(target, same + 1, Len(target))]
At(dir, rel) == SubSeq(dir, 1, IF rel.up > Len(dir) THEN 0 ELSE Len(dir) - rel.up) \o rel.down
Ancestors(path) == {SubSeq(path, 1, n) : n \in 0..(Len(path) - 1)}
Deepest(dirs) == CHOOSE d \in dirs : \A e \in dirs : Len(e) <= Len(d)

Url(scheme, is, path, fragment) ==
  [scheme |-> scheme, is |-> is, path |-> path, fragment |-> fragment]
NoFragment == [base |-> "", keys |-> Absent, identity |-> {}]
NoPath == [up |-> -1, down |-> <<>>]
Pending == Url("pending", "pending", NoPath, NoFragment)

-----------------------------------------------------------------------------
(* The component of a call *)

Image(t) ==
  IF t.image # Absent THEN t.image
  ELSE IF t.imageId = Absent THEN Absent
  ELSE IF t.imageId \in DOMAIN graph.images THEN graph.images[t.imageId]
  ELSE IF t.imageId \in DOMAIN graph.defaults THEN graph.defaults[t.imageId] ELSE Absent

RelOption(path, from) == IF path = <<>> THEN NoPath ELSE RelPath(path, from)
Payload(t, from) ==
  [image |-> Image(t), function |-> t.function, mode |-> t.mode,
   root |-> RelOption(t.root, from), deps |-> RelOption(t.deps, from),
   keys |-> t.keys, file |-> RelPath(t.file, from)]

Lost(path) == path # <<>> /\ path \notin graph.files
PayloadFails(t) ==
  \/ Lost(t.file) \/ Lost(t.root) \/ Lost(t.deps) \/ t.keys = "clash"
  \/ t.image = Absent /\ t.imageId # Absent /\ Image(t) = Absent

\* The import root of a file, and the packages from there down to it.
LogicalModule(file) ==
  LET dir == Deepest(Ancestors(file) \ graph.packages)
      chain == SubSeq(file, Len(dir) + 1, Len(file))
  IN [root |-> RelPath(dir, graph.source),
      chain |-> IF Last(chain) = "__init__" THEN Front(chain) ELSE chain]

IdentityByFunction(t) ==  \* mutant: the options do not tell components apart
  [module |-> LogicalModule(t.file), scope |-> t.scope, function |-> t.function,
   generation |-> [Payload(t, graph.source) EXCEPT !.mode = Absent, !.image = Absent,
                     !.root = NoPath, !.deps = NoPath]]
Identity(t) ==
  [module |-> LogicalModule(t.file), scope |-> t.scope, function |-> t.function,
   generation |-> [Payload(t, graph.source) EXCEPT !.mode = IF @ = Absent THEN "inline" ELSE @]]

Spelling(payload) == Cardinality({x \in {"image", "mode", "keys"} : payload[x] # Absent})

-----------------------------------------------------------------------------
RefsInit ==
  /\ graph \in RefCalls
  /\ at_ref = "plan" /\ ref = 0 /\ refused = 0
  /\ variants = <<>> /\ sidecar = <<>>
  /\ urls = [i \in Tasks(graph) |->
               IF graph.tasks[i].kind \in {"author", "child"} THEN graph.tasks[i].url ELSE Pending]

Refuse(i) == /\ refused' = i /\ at_ref' = "done"
             /\ UNCHANGED <<ref, variants, sidecar, urls>>

Known(f, x, otherwise) == IF x \in DOMAIN f THEN f[x] ELSE otherwise
Assign(f, x, y) == [z \in DOMAIN f \cup {x} |-> IF z = x THEN y ELSE f[z]]

\* The call is another one of a component it agrees with on publication, in
\* the spelling with the fewest keys.
PlanTask(i) ==
  LET t == graph.tasks[i]
      identity == Identity(t)
      known == Known(variants, t.function, <<>>)
      emitted == Payload(t, graph.out)
      before == known[identity]
      entry == IF identity \in DOMAIN known /\ Spelling(before.payload) <= Spelling(emitted)
               THEN before ELSE [payload |-> emitted, publish |-> t.publish]
  IN IF \/ ~graph.sidecar \/ PayloadFails(t)
        \/ identity \in DOMAIN known /\ before.publish # t.publish
     THEN Refuse(i)
     ELSE /\ variants' = Assign(variants, t.function, Assign(known, identity, entry))
          /\ ref' = i
          /\ UNCHANGED <<at_ref, sidecar, urls, refused>>

Fragment(function, identity) ==
  IF Cardinality(DOMAIN variants[function]) = 1
  THEN [base |-> function, keys |-> identity.generation.keys, identity |-> {}]
  ELSE [base |-> function, keys |-> Absent, identity |-> {identity}]

WriteEntries ==
  LET fragments == UNION {{Fragment(f, identity) : identity \in DOMAIN variants[f]} :
                            f \in DOMAIN variants}
      Named(x) == CHOOSE identity \in DOMAIN variants[x.base] : x.identity \subseteq {identity}
  IN /\ sidecar' = [x \in fragments |-> variants[x.base][Named(x)]]
     /\ urls' = [i \in Tasks(graph) |->
          IF i \notin OfKind(graph, "task") THEN urls[i]
          ELSE LET t == graph.tasks[i]
               IN Url("resolve", "sidecar", NoPath, Fragment(t.function, Identity(t)))]
     /\ at_ref' = "relocate" /\ ref' = 0
     /\ UNCHANGED <<variants, refused>>

Relocate ==
  /\ urls' = [i \in Tasks(graph) |->
       IF i \in OfKind(graph, "author") /\ urls[i].is = "relative"
       THEN [urls[i] EXCEPT !.path = RelPath(At(graph.source, urls[i].path), graph.out)]
       ELSE urls[i]]
  /\ at_ref' = "register"
  /\ UNCHANGED <<ref, variants, sidecar, refused>>

-----------------------------------------------------------------------------
(* The configuration of a registered task: [is, path] as it is written.      *)

ConfigOf(t) ==
  LET zones == Ancestors(t.file) \cap graph.zones
      homes == {d \in Ancestors(t.file) : Append(d, "gen_config") \in graph.files}
      file(is, path) == [is |-> IF path \in graph.files THEN is ELSE "lost", path |-> path]
      none == [is |-> "lost", path |-> <<>>]
  IN CASE t.config.is = "remote" -> [is |-> "remote", path |-> t.config.path.down]
       [] t.config.is = "absolute" -> file("absolute", t.config.path.down)
       [] t.config.is = "file" -> file("absolute", At(Parent(t.file), t.config.path))
       [] t.config.is = "relative" ->
            IF zones = {} THEN none
            ELSE file("relative", At(Deepest(zones), t.config.path))
       [] t.config.is = "none" ->
            IF homes = {} THEN none ELSE file("relative", Append(Deepest(homes), "gen_config"))

RegisterTask(i) ==
  LET t == graph.tasks[i]
      config == ConfigOf(t)
      fragment == [NoFragment EXCEPT !.base = t.function]
  IN IF config.is = "lost" THEN Refuse(i)
     ELSE /\ urls' = [urls EXCEPT ![i] =
               Url("resolve", config.is,
                   IF config.is = "relative" THEN RelPath(config.path, graph.out)
                   ELSE [up |-> 0, down |-> config.path], fragment)]
          /\ ref' = i
          /\ UNCHANGED <<at_ref, variants, sidecar, refused>>

Present(url) == url.is = "relative" => At(graph.out, url.path) \in graph.files
CheckTask(i) ==
  IF urls[i].is = "pending" \/ ~(Present(urls[i]) \/ graph.tasks[i].kind = "child")
  THEN Refuse(i)
  ELSE ref' = i /\ UNCHANGED <<at_ref, variants, sidecar, urls, refused>>

\* Each step goes through the tasks it is about, in order.
About == CASE at_ref = "plan" -> OfKind(graph, "task")
           [] at_ref = "register" -> OfKind(graph, "registered")
           [] at_ref = "check" -> Tasks(graph)
           [] OTHER -> {}
Left == {i \in About : i > ref}
OneTask(i) == CASE at_ref = "plan" -> PlanTask(i)
                [] at_ref = "register" -> RegisterTask(i)
                [] at_ref = "check" -> CheckTask(i)
NextPart ==
  /\ at_ref' = CASE at_ref = "plan" -> "entries" [] at_ref = "register" -> "check"
                 [] at_ref = "check" -> "done"
  /\ ref' = 0
  /\ UNCHANGED <<variants, sidecar, urls, refused>>

RefsStep ==
  /\ UNCHANGED graph
  /\ \/ at_ref = "entries" /\ WriteEntries
     \/ at_ref = "relocate" /\ Relocate
     \/ at_ref \in {"plan", "register", "check"} /\ Left # {} /\ OneTask(Min(Left))
     \/ at_ref \in {"plan", "register", "check"} /\ Left = {} /\ NextPart
RefsOver == at_ref = "done"
RefsSpec == RefsInit /\ [][RefsStep]_refVars

-----------------------------------------------------------------------------
(* Two calls are written to one entry exactly when they describe the same    *)
(* component, and the entry, read from the output's directory, describes it: *)
(* a call never inherits another's image, dependencies, inputs, or           *)
(* publication.  The name and the text of an entry depend on the calls, not  *)
(* on their order.                                                           *)
Component(t) ==
  [file |-> t.file, scope |-> t.scope, function |-> t.function, image |-> Image(t),
   mode |-> IF t.mode = Absent THEN "inline" ELSE t.mode, root |-> t.root, deps |-> t.deps,
   keys |-> t.keys]
Described(payload, scope) ==
  LET Read(rel) == IF rel = NoPath THEN <<>> ELSE At(graph.out, rel)
  IN [file |-> Read(payload.file), scope |-> scope, function |-> payload.function,
      image |-> payload.image, mode |-> IF payload.mode = Absent THEN "inline" ELSE payload.mode,
      root |-> Read(payload.root), deps |-> Read(payload.deps), keys |-> payload.keys]
EntriesDescribe ==
  \A i \in OfKind(graph, "task") :
    LET t == graph.tasks[i]
        alike == {j \in OfKind(graph, "task") : Component(graph.tasks[j]) = Component(t)}
        namesakes == {j \in OfKind(graph, "task") : graph.tasks[j].function = t.function}
        fragment == urls[i].fragment
    IN /\ fragment \in DOMAIN sidecar
       /\ Described(sidecar[fragment].payload, t.scope) = Component(t)
       /\ sidecar[fragment].publish = t.publish
       /\ alike = {j \in OfKind(graph, "task") : urls[j].fragment = fragment}
       /\ fragment.identity = {} <=> alike = namesakes
       /\ sidecar[fragment].payload.mode = Absent <=>
            \E j \in alike : graph.tasks[j].mode = Absent

(* An author's reference leads, from the output, to the file it leads to     *)
(* from the source; a registered one to the nearest configuration, or to the *)
(* one that is named; and what is not relative is as it was written.         *)
LeadsHome(i) ==
  LET t == graph.tasks[i]
      there == At(graph.out, urls[i].path)
  IN CASE t.kind = "task" -> TRUE
       [] t.kind = "child" -> urls[i] = t.url
       [] t.kind = "author" ->
            IF t.url.is = "relative"
            THEN there = At(graph.source, t.url.path) /\ there \in graph.files
            ELSE urls[i] = t.url
       [] t.kind = "registered" ->
            CASE urls[i].is = "remote" -> t.config.is = "remote"
              [] urls[i].is = "absolute" -> urls[i].path.down \in graph.files
              [] urls[i].is = "relative" ->
                   /\ there \in graph.files
                   /\ t.config.is = "none" => \A d \in Ancestors(t.file) :
                        Append(d, "gen_config") \in graph.files => Len(d) < Len(there)

(* It is refused only for a task that is at fault.                           *)
AtFault(t) ==
  CASE t.kind = "task" ->
         \/ ~graph.sidecar \/ ~({t.file, t.root, t.deps} \ {<<>>} \subseteq graph.files)
         \/ t.keys = "clash"
         \/ Image(t) = Absent /\ t.imageId # Absent
         \/ \E j \in OfKind(graph, "task") :
              Component(graph.tasks[j]) = Component(t) /\ graph.tasks[j].publish # t.publish
    [] t.kind = "author" -> t.url.is = "relative" /\ At(graph.source, t.url.path) \notin graph.files
    [] t.kind = "registered" -> t.config.is # "remote" /\ ConfigOf(t).is = "lost"
    [] t.kind = "child" -> FALSE

RefsLeadHome ==
  RefsOver =>
    IF refused # 0 THEN AtFault(graph.tasks[refused])
    ELSE EntriesDescribe /\ \A i \in Tasks(graph) : LeadsHome(i) /\ ~AtFault(graph.tasks[i])
=============================================================================
