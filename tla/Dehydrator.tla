----------------------------- MODULE Dehydrator -----------------------------
(***************************************************************************)
(* PipelineDehydrator (pipeline_dehydrator.py): the specs that hydration put *)
(* into a pipeline become references again, to a URL, to the library, or to  *)
(* files beside the output.  Nested graphs are written to files of their     *)
(* own, deepest first; a relative reference counts from the directory of the *)
(* file that it ends up in.  One dehydrator serves a series of calls.        *)
(***************************************************************************)
EXTENDS Naturals, Sequences, FiniteSets, TLC

LOCAL INSTANCE SequencesExt
LOCAL INSTANCE FiniteSetsExt

CONSTANTS
  Requests,   \* the calls: graphs, place of the output, settings, and whether
              \* the library answers: its answers are a subset of BOOLEAN
  Canonical,  \* component -> the URL its annotation names, "" for none
  Library,    \* digest -> the spec published under it
  Author,     \* digest -> the name and owner it was published with, "" for none
  Splits,     \* names that hold the path separator, no part of them a task's
  MaxRequests \* bound

ChoiceKinds == {"d", "n", "u", "f", "k", "a"}

VARIABLES
  request,     \* the call under way, or the last one
  served,      \* the number of calls so far
  stage,       \* "idle", "queue", "work", "manifest", "write"
  remembered,  \* remembered_choices: digest -> choice, "" for the default
  todo,        \* what is left to process: paths of leaves and of graphs
  working,     \* path -> the reference that has replaced the spec there
  saved,       \* _saved_components and _saved_subgraphs: spec -> its directory
  fragments,   \* _resolve_manifest
  files,       \* the files of components and graphs on disk
  manifests,   \* place -> the manifest on disk beside that output
  outputs      \* place -> the output on disk

disk == <<files, manifests, outputs>>
results == <<remembered, saved, fragments>>
dehydrateVars == <<request, served, stage, todo, working, results, disk>>


(* A document: its name and its tasks.  A component is one without tasks.    *)
Doc(name, tasks) == [name |-> name, tasks |-> tasks]
Component(c) == Doc(c, <<>>)
NoSpec == Component("")

(* A reference.  The doc is what stands inline, or what a file is named by;  *)
(* dir is where that file is, from is where a relative path counts from.     *)
Reference(kind, key, dir, from, doc) ==
  [kind |-> kind, key |-> key, dir |-> dir, from |-> from, doc |-> doc]
Inline(doc) == Reference("inline", "", "", "", doc)

GraphAt(root, path) ==
  FoldLeft(LAMBDA g, id : (CHOOSE t \in ToSet(request.graph[g].tasks) : t.id = id).graph, root, path)
TasksAt(path) == ToSet(request.graph[GraphAt(request.root, path)].tasks)
TaskAt(path) == CHOOSE t \in TasksAt(Front(path)) : t.id = Last(path)

RECURSIVE DocAt(_)
DocAt(path) ==
  LET tasks == TasksAt(path)
      ref(t) == IF Append(path, t.id) \in DOMAIN working THEN working[Append(path, t.id)]
                ELSE IF t.graph # "" THEN Inline(DocAt(Append(path, t.id)))
                ELSE Inline(Component(t.leaf))
  IN Doc(request.graph[GraphAt(request.root, path)].name,
         [id \in {t.id : t \in tasks} |-> ref(CHOOSE t \in tasks : t.id = id)])

-----------------------------------------------------------------------------
(* What to process: the nested graphs that are extracted, deepest first,     *)
(* each after the leaves in it, then the leaves that are left.               *)

RECURSIVE GraphsIn(_)
GraphsIn(path) ==
  {path} \cup UNION {GraphsIn(Append(path, t.id)) : t \in {s \in TasksAt(path) : s.graph # ""}}

\* A path is the names and tasks on the way, joined; it is taken apart again.
Found(path) ==
  LET prefixes == {SubSeq(path, 1, i) : i \in 0..Len(path)}
  IN ~\E p \in prefixes : \/ request.graph[GraphAt(request.root, p)].name \in Splits
                          \/ p # <<>> /\ Last(p) \in Splits

Default == IF "" \in DOMAIN remembered THEN remembered[""] ELSE ""
ToFiles == Default \in {"a", "f", "u"}
ToBundle == Default \in {"d", "n"}
Extracted ==
  IF ~request.extract \/ ~(ToFiles \/ ToBundle) THEN {}
  ELSE {path \in GraphsIn(<<>>) : path # <<>> /\ Found(path)}

\* The graph whose file a path ends up in: the closest one that is extracted.
Holder(path) ==
  LET above == {e \in Extracted : e # path /\ Len(e) < Len(path) /\ SubSeq(path, 1, Len(e)) = e}
  IN IF above = {} THEN <<>> ELSE CHOOSE e \in above : \A f \in above : Len(f) <= Len(e)

LeafPaths == UNION {{Append(path, t.id) : t \in {s \in TasksAt(path) : s.leaf # ""}} : path \in GraphsIn(<<>>)}
Queue ==
  LET listed(set) == FoldSet(LAMBDA x, list : Append(list, x), <<>>, set)
      below(holder) == listed({l \in LeafPaths : Holder(l) = holder})
      deep == Max({0} \cup {Len(e) : e \in Extracted})
      level(n) == listed({e \in Extracted : Len(e) = deep + 1 - n})
      graphs == FlattenSeq([n \in 1..deep |-> level(n)])
  IN FlattenSeq([i \in DOMAIN graphs |-> Append(below(graphs[i]), graphs[i])]) \o below(<<>>)

\* The directory of the file that a reference at this path is written into.
GraphsDir == IF ToFiles THEN request.dir \o "/subgraphs" ELSE request.bundle
DirOf(path) == IF Holder(path) = <<>> THEN request.dir ELSE GraphsDir

-----------------------------------------------------------------------------
DehydrateInit ==
  /\ request \in Requests /\ served = 0 /\ stage = "idle"
  /\ remembered \in {<<>>} \cup {("" :> choice) : choice \in ChoiceKinds}
  /\ todo = <<>> /\ working = <<>> /\ saved = <<>> /\ fragments = {}
  /\ files = {} /\ manifests = <<>> /\ outputs = <<>>

ForgetsNothing == UNCHANGED <<saved, fragments>>  \* mutant: caches of the call before
Forgets == saved' = <<>> /\ fragments' = {}

Dehydrate ==
  /\ stage = "idle" /\ served < MaxRequests
  /\ served' = served + 1
  /\ request' \in Requests
  /\ stage' = "queue" /\ working' = <<>> /\ Forgets
  /\ UNCHANGED <<remembered, todo, disk>>
BuildQueue ==
  /\ stage = "queue"
  /\ todo' = Queue
  /\ stage' = IF Queue = <<>> THEN "manifest" ELSE "work"
  /\ UNCHANGED <<request, served, working, results, disk>>

(* A component is written once and found by its content from then on.        *)
Save(spec, dir) ==
  IF spec \in DOMAIN saved THEN UNCHANGED <<saved, files>>
  ELSE saved' = saved @@ (spec :> dir) /\ files' = files \cup {[dir |-> dir, doc |-> spec]}
SavedIn(spec, dir) == IF spec \in DOMAIN saved THEN saved[spec] ELSE dir

(* A digest counts only if the library answers and has this very spec there. *)
Verifies(digest, spec) == digest \in DOMAIN Library /\ Library[digest] = spec

Replace(path, ref) == /\ working' = working @@ (path :> ref)
                      /\ todo' = Tail(todo)
                      /\ stage' = IF Len(todo) = 1 THEN "manifest" ELSE "work"
                      /\ UNCHANGED <<request, served, manifests, outputs>>

ToFile(path, spec) ==
  /\ Save(spec, request.bundle) /\ UNCHANGED fragments
  /\ Replace(path, Reference("file", "", SavedIn(spec, request.bundle), DirOf(path), spec))

\* The local copy, after the library's entry where there is one.
Portable(path, spec, kind, key) ==
  /\ Save(spec, request.bundle)
  /\ fragments' = fragments \cup
       {[kind |-> kind, key |-> key, doc |-> spec, dir |-> SavedIn(spec, request.bundle)]}
  /\ Replace(path, Reference("resolve " \o kind, key, request.dir, DirOf(path), spec))

Primary(path, choice, spec, digest, answers) ==
  IF ~answers \/ ~Verifies(digest, spec) \/ (choice = "n" /\ Author[digest] = "")
    THEN Portable(path, spec, "local", "")
  ELSE IF choice = "n" THEN Portable(path, spec, "name", Author[digest])
  ELSE Portable(path, spec, "digest", digest)

NoFile(path, ref) == Replace(path, ref) /\ UNCHANGED <<saved, fragments, files>>
Apply(path, choice, spec, digest, url, answers) ==
  CASE choice \in {"d", "n"} -> Primary(path, choice, spec, digest, answers)
    [] choice = "f" -> ToFile(path, spec)
    [] choice = "k" -> NoFile(path, Inline(spec))
    [] choice = "u" -> NoFile(path, IF url = "" THEN Inline(spec) ELSE Reference("url", url, "", "", spec))
    [] choice = "a" ->
         IF url # "" THEN NoFile(path, Reference("url", url, "", "", spec))
         ELSE IF answers /\ Verifies(digest, spec)
                THEN NoFile(path, Reference("digest", digest, "", "", spec))
                ELSE ToFile(path, spec)

(* What was chosen for the digest, or for all; or the user is asked, who may *)
(* choose for every component of this digest.                                *)
Chosen(digest, url) ==
  LET choice == IF digest \in DOMAIN remembered THEN remembered[digest] ELSE Default
  IN IF choice = "u" /\ url = "" THEN "d" ELSE choice

ProcessLeaf ==
  /\ stage = "work" /\ Head(todo) \in LeafPaths
  /\ LET path == Head(todo)
         task == TaskAt(path)
         spec == Component(task.leaf)
         url == Canonical[task.leaf]
         chosen == Chosen(task.digest, url)
     IN \E answers \in request.answers, choice \in ChoiceKinds, always \in BOOLEAN :
          IF chosen # "" \/ ~request.interactive
            THEN /\ choice = "a" /\ ~always
                 /\ Apply(path, IF chosen = "" THEN "a" ELSE chosen, spec, task.digest, url, answers)
                 /\ UNCHANGED remembered
            ELSE /\ Apply(path, choice, spec, task.digest, url, answers)
                 /\ always => choice \in {"d", "n", "f"} \/ (choice = "u" /\ url # "")
                 /\ remembered' = IF always THEN remembered @@ (task.digest :> choice) ELSE remembered

-----------------------------------------------------------------------------
(* A nested graph is written to a file of its own. *)

\* A graph that was written is referred to absolutely until its parent is.
Relative(doc, dir) ==
  [doc EXCEPT !.tasks = [id \in DOMAIN @ |->
     IF @[id].kind = "file" /\ @[id].from = "absolute" THEN [@[id] EXCEPT !.from = dir] ELSE @[id]]]

ExtractToFile ==
  /\ stage = "work" /\ Head(todo) \in Extracted /\ ToFiles
  /\ LET path == Head(todo)
         spec == Relative(DocAt(path), GraphsDir)
     IN /\ Save(spec, GraphsDir)
        /\ Replace(path, Reference("file", "", SavedIn(spec, GraphsDir), "absolute", spec))
  /\ UNCHANGED <<remembered, fragments>>

(* The digest is checked against the graph as it was before its leaves were  *)
(* replaced, with the graphs in it replaced already.                         *)
SpecBefore(path) ==
  LET tasks == TasksAt(path) IN
  Doc(request.graph[GraphAt(request.root, path)].name,
      [id \in {t.id : t \in tasks} |-> LET t == CHOOSE s \in tasks : s.id = id IN
         IF t.leaf # "" THEN Inline(Component(t.leaf)) ELSE DocAt(path).tasks[id]])
ExtractPortable ==
  /\ stage = "work" /\ Head(todo) \in Extracted /\ ~ToFiles
  /\ LET path == Head(todo)
         written == DocAt(path)
         digest == TaskAt(path).digest
         verified(answers) == answers /\ Verifies(digest, SpecBefore(path))
     IN \E answers \in request.answers :
          IF ~verified(answers) \/ (Default = "n" /\ Author[digest] = "")
            THEN Portable(path, written, "local", "")
          ELSE IF Default = "n" THEN Portable(path, written, "name", Author[digest])
          ELSE Portable(path, written, "digest", digest)
  /\ UNCHANGED remembered

-----------------------------------------------------------------------------
(* The graphs that are still inline become templates, the same one for those *)
(* that differ in their own name only.                                       *)

TemplateKey(doc) == doc.tasks
RECURSIVE Templated(_, _)
Templated(doc, made) ==
  LET convert(acc, id) ==
        LET ref == doc.tasks[id]
            inner == Templated(ref.doc, acc.made)
            same == {i \in DOMAIN inner.made : TemplateKey(inner.made[i]) = TemplateKey(inner.doc)}
            at == IF same = {} THEN Len(inner.made) + 1 ELSE CHOOSE i \in same : TRUE
        IN IF ref.kind # "inline" \/ DOMAIN ref.doc.tasks = {} THEN acc
           ELSE [made |-> IF same = {} THEN Append(inner.made, inner.doc) ELSE inner.made,
                 doc |-> [acc.doc EXCEPT !.tasks[id] =
                            Reference("include", ref.doc.name, ToString(at), "", NoSpec)]]
      ids == FoldSet(LAMBDA id, list : Append(list, id), <<>>, DOMAIN doc.tasks)
  IN FoldLeft(convert, [doc |-> doc, made |-> made], ids)

Place == [dir |-> request.dir, stem |-> request.stem]
WriteManifest ==
  /\ stage = "manifest" /\ stage' = "write"
  /\ manifests' = IF fragments = {} THEN manifests ELSE (Place :> fragments) @@ manifests
  /\ UNCHANGED <<request, served, todo, working, results, files, outputs>>

End == /\ stage' = "idle" /\ working' = <<>> /\ todo' = <<>>
       /\ UNCHANGED <<request, served, results>>
WriteOutput ==
  /\ stage = "write"
  /\ LET doc == IF ToFiles /\ request.extract THEN Relative(DocAt(<<>>), request.dir) ELSE DocAt(<<>>)
         templated == Templated(doc, <<>>)
     IN outputs' = (Place :> [doc |-> IF request.export THEN templated.doc ELSE doc,
                              templates |-> IF request.export THEN templated.made ELSE <<>>,
                              request |-> request, fragments |-> fragments,
                              default |-> Default, remembered |-> DOMAIN remembered]) @@ outputs
  /\ End /\ UNCHANGED <<files, manifests>>

\* A write fails, a digest or name is asked for and cannot be written, ...
DehydrateFails == stage # "idle" /\ End /\ UNCHANGED disk

DehydrateNext ==
  \/ Dehydrate \/ BuildQueue \/ ProcessLeaf \/ ExtractToFile \/ ExtractPortable
  \/ WriteManifest \/ WriteOutput \/ DehydrateFails
DehydrateOver == stage = "idle" /\ served = MaxRequests

-----------------------------------------------------------------------------
(* Properties. *)

RECURSIVE TreeOf(_, _)
TreeOf(r, g) ==
  LET tasks == ToSet(r.graph[g].tasks) IN
  Doc(r.graph[g].name, [id \in {t.id : t \in tasks} |->
    LET t == CHOOSE s \in tasks : s.id = id
    IN IF t.graph # "" THEN TreeOf(r, t.graph) ELSE Component(t.leaf)])

(* What the reference of an output leads to: the document, and the directory *)
(* it is read in.  Only a file of the output's own directories counts.       *)
Missing == [doc |-> NoSpec, dir |-> ""]
InOwn(out, dir) == dir \in {out.request.bundle, out.request.dir, out.request.dir \o "/subgraphs"}
FileIn(out, dir, doc) ==
  IF [dir |-> dir, doc |-> doc] \in files /\ InOwn(out, dir) THEN [doc |-> doc, dir |-> dir] ELSE Missing
RECURSIVE Whole(_)
Whole(doc) == Doc(doc.name, [id \in DOMAIN doc.tasks |-> Whole(doc.tasks[id].doc)])

LeadsTo(out, ref, here, online) ==
  LET relative == ref.from = here
      manifest == manifests[[dir |-> ref.dir, stem |-> out.request.stem]]
      entry == {f \in manifest : "resolve " \o f.kind = ref.kind /\ f.key = ref.key /\ f.doc = ref.doc}
      f == CHOOSE e \in entry : TRUE
  IN CASE ref.kind = "inline"  -> [doc |-> ref.doc, dir |-> here]
       [] ref.kind = "include" -> LET t == out.templates[CHOOSE i \in DOMAIN out.templates : ToString(i) = ref.dir]
                                  IN [doc |-> Doc(ref.key, t.tasks), dir |-> here]
       [] ref.kind = "url"     -> [doc |-> ref.doc, dir |-> ""]
       [] ref.kind = "digest"  -> [doc |-> Library[ref.key], dir |-> ""]
       [] ref.kind = "file"    -> IF relative THEN FileIn(out, ref.dir, ref.doc) ELSE Missing
       [] OTHER -> IF ~relative \/ entry = {} THEN Missing
                   ELSE IF online /\ f.kind = "digest" THEN [doc |-> Library[f.key], dir |-> ""]
                   ELSE FileIn(out, f.dir, f.doc)

RECURSIVE Hydrated(_, _, _, _)
Hydrated(out, doc, here, online) ==
  Doc(doc.name, [id \in DOMAIN doc.tasks |->
    LET there == LeadsTo(out, doc.tasks[id], here, online)
    IN Hydrated(out, there.doc, there.dir, online)])

(* Hydrating an output from where it lies, with the library or with its      *)
(* local copies, gives back the pipeline that was dehydrated, whatever else  *)
(* the dehydrator was used for before and after; it needs no file of another *)
(* output.  (The manifest is written first: it may be of a call that failed  *)
(* to replace the output.)                                                   *)
Complete(place) ==
  outputs[place].fragments = {} \/ (place \in DOMAIN manifests /\ manifests[place] = outputs[place].fragments)
HydratesBack ==
  \A place \in DOMAIN outputs : Complete(place) =>
    LET out == outputs[place] IN
    \A online \in BOOLEAN :
      Hydrated(out, out.doc, place.dir, online) = TreeOf(out.request, out.request.root)

(* "Every choice that promises a dehydrated document must replace nested     *)
(* graph boundaries too": then no spec is left inline, but for those under a *)
(* name that holds the separator of paths, which are not found again.        *)
Promises == {"d", "n", "u", "f", "a"}
RECURSIVE NoneInline(_)
NoneInline(doc) == \A id \in DOMAIN doc.tasks : /\ doc.tasks[id].kind \notin {"inline", "include"}
                                                /\ NoneInline(doc.tasks[id].doc)
Promised(out) == out.request.extract /\ out.default \in Promises /\ out.remembered = {""}
Separated(out) == \E g \in DOMAIN out.request.graph : out.request.graph[g].name \in Splits
NothingInline == \A place \in DOMAIN outputs :
  Promised(outputs[place]) /\ ~Separated(outputs[place]) => NoneInline(outputs[place].doc)

\* The outputs split the pipeline completely, and lose none of it.
SplitsExactly == HydratesBack /\ NothingInline
=============================================================================
