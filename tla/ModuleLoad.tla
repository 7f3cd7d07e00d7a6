----------------------------- MODULE ModuleLoad -----------------------------
(***************************************************************************)
(* How compile_pipeline loads Python sources (pipeline_compiler.py) into the *)
(* process it runs in: what shadows the script's own modules is evicted, the *)
(* script is executed and its pipeline selected with its directory on        *)
(* sys.path, it and its children are traced with theirs, and what came from  *)
(* their directories is purged.  sys.path and sys.modules belong to all      *)
(* compilations of the process.                                              *)
(***************************************************************************)
EXTENDS Integers, Sequences, FiniteSets, SequencesExt

CONSTANTS
  Compiles,  \* the compilations
  Jobs,      \* the choices of: compilation -> its script, see below
  Modules,   \* the module files: [name, on, in], found by that name on that
             \* entry of sys.path, and lying in that directory
  BasePath,  \* sys.path without them
  Imported,  \* what the process has imported before: name -> directory
  AtOnce     \* how many compilations may be under way at the same time

Nowhere == <<>>

(* A job: dir of the script; imports, of its top level; raises, whether that *)
(* fails then; pipelines, what it then defines or has imported, in order,    *)
(* and where; wanted, --pipeline or ""; traces, the directory and the imports *)
(* of the bodies of the root and of the children, in the order they are      *)
(* traced.  A directory is the sequence of its names.                        *)
Directories == Seq(STRING)
Pipelines == [id : Nat, function : STRING, display : STRING,
              source : {"here", "unknown", "elsewhere"}]
TracedBodies == [dir : Directories, imports : Seq(STRING)]
Scripts == [dir : Directories, imports : Seq(STRING), raises : BOOLEAN,
            pipelines : Seq(Pipelines), wanted : STRING, traces : Seq(TracedBodies) \ {<<>>}]

ASSUME ModulesConstantsOK ==
  /\ IsFiniteSet(Compiles) /\ Jobs \subseteq [Compiles -> Scripts]
  /\ Modules \subseteq [name : STRING, on : Directories, in : Directories \ {Nowhere}]
  /\ BasePath \in Seq(Directories)

VARIABLES
  job,      \* the choice
  modules,  \* sys.modules: name -> the directory of the file
  path,     \* sys.path
  phase,    \* compilation -> "waiting", "load", "between", "trace", "purge", "over"
  body,     \* compilation -> 0 for the script, or the trace it has got to
  todo,     \* compilation -> the imports left in it
  added,    \* compilation -> added_to_sys_path
  dirs,     \* compilation -> ctx.source_dirs
  root,     \* compilation -> the pipeline selected, or NoPipeline
  failed,   \* compilation -> whether it is refused
  alone,    \* compilation -> sys.modules in a process of its own
  agrees    \* compilation -> whether every import has given the same there

modulesVars == <<job, modules, path, phase, body, todo, added, dirs, root, failed, alone, agrees>>

NoPipeline == [id |-> 0, function |-> "", display |-> "", source |-> "unknown"]
Underway == {c \in Compiles : phase[c] \in {"load", "between", "trace", "purge"}}
Without(f, names) == Restrict(f, DOMAIN f \ names)

-----------------------------------------------------------------------------
(* import *)

Within(dir, top) == IsPrefix(top, dir)
Found(name, on) == {m \in Modules : m.name = name /\ m.on = on}
Search(name, entries) ==
  LET at == {i \in DOMAIN entries : Found(name, entries[i]) # {}}
  IN IF at = {} THEN Nowhere ELSE (CHOOSE m \in Found(name, entries[Min(at)]) : TRUE).in

Import(name, cached, entries) ==
  IF name \in DOMAIN cached THEN cached[name] ELSE Search(name, entries)

\* Where the pipelines are defined; what is found on such a directory lies in it,
\* and what the process has imported before it finds on its own path.
SourceDirs ==
  UNION {{s.dir} \cup {s.traces[i].dir : i \in DOMAIN s.traces} : s \in {j[c] : j \in Jobs, c \in Compiles}}
ASSUME ImportsOK ==
  /\ \A m \in Modules : m.on \in SourceDirs => Within(m.in, m.on)
  /\ \A name \in DOMAIN Imported : Imported[name] = Search(name, BasePath)

\* There are modules beside the scripts, and no packages.
PlainModules == \A m \in Modules : m.on \in SourceDirs \ ToSet(BasePath) => m.in = m.on

With(cached, name, dir) ==
  IF dir = Nowhere THEN cached
  ELSE [x \in DOMAIN cached \cup {name} |-> IF x = name THEN dir ELSE cached[x]]

-----------------------------------------------------------------------------
(* The pipeline to compile, by its position: one that the script defines,    *)
(* which is selected by the name of its function, or else by the name it     *)
(* displays.                                                                 *)

Named(script, candidates) ==
  LET byFunction == {i \in candidates : script.pipelines[i].function = script.wanted}
  IN IF byFunction # {} THEN byFunction
     ELSE {i \in candidates : script.pipelines[i].display = script.wanted}

\* The only one of these, or none.
Single(script, candidates) ==
  IF \E i \in candidates : candidates = {i}
  THEN script.pipelines[CHOOSE i \in candidates : TRUE] ELSE NoPipeline

Selected(script) ==
  LET local == {i \in DOMAIN script.pipelines : script.pipelines[i].source = "here"}
      unknown == {i \in DOMAIN script.pipelines : script.pipelines[i].source = "unknown"}
  IN IF script.wanted # "" THEN Single(script, Named(script, local \cup unknown))
     ELSE Single(script, IF local # {} THEN local ELSE unknown)

-----------------------------------------------------------------------------
ModulesInit ==
  /\ job \in Jobs
  /\ modules = Imported /\ path = BasePath
  /\ phase = [c \in Compiles |-> "waiting"]
  /\ body = [c \in Compiles |-> 0] /\ todo = [c \in Compiles |-> <<>>]
  /\ added = [c \in Compiles |-> FALSE] /\ dirs = [c \in Compiles |-> {}]
  /\ root = [c \in Compiles |-> NoPipeline] /\ failed = [c \in Compiles |-> FALSE]
  /\ alone = [c \in Compiles |-> <<>>] /\ agrees = [c \in Compiles |-> TRUE]

Goes(c, to) == phase' = [phase EXCEPT ![c] = to]

\* A body runs with its directory at the front of sys.path, unless it is there.
Dir(c) == IF body[c] = 0 THEN job[c].dir ELSE job[c].traces[body[c]].dir
EnterDir(c, next, dir, imports) ==
  /\ body' = [body EXCEPT ![c] = next]
  /\ todo' = [todo EXCEPT ![c] = imports]
  /\ dirs' = [dirs EXCEPT ![c] = @ \cup {dir}]
  /\ added' = [added EXCEPT ![c] = ~Contains(path, dir)]
  /\ path' = IF Contains(path, dir) THEN path ELSE <<dir>> \o path
Restored(c) == IF added[c] /\ Contains(path, Dir(c))
               THEN RemoveAt(path, Min({i \in DOMAIN path : path[i] = Dir(c)})) ELSE path

EvictsNothing(cached, dir) == {}  \* mutant: what was imported before stays
Evicts(cached, dir) == {name \in DOMAIN cached :
                          cached[name] # dir /\ \E m \in Found(name, dir) : m.in = dir}
Reimport(cached, dir) == Without(cached, Evicts(cached, dir))

Start(c) ==
  /\ phase[c] = "waiting" /\ Cardinality(Underway) < AtOnce
  /\ modules' = Reimport(modules, job[c].dir)
  /\ EnterDir(c, 0, job[c].dir, job[c].imports)
  /\ Goes(c, "load")
  /\ UNCHANGED <<root, failed, alone, agrees>>

ImportNext(c) ==
  /\ phase[c] \in {"load", "trace"} /\ todo[c] # <<>> /\ ~failed[c]
  /\ LET name == Head(todo[c])
         dir == Import(name, modules, path)
         its == Import(name, alone[c], IF Contains(BasePath, Dir(c)) THEN BasePath
                                       ELSE <<Dir(c)>> \o BasePath)
     IN /\ modules' = With(modules, name, dir)
        /\ alone' = [alone EXCEPT ![c] = With(@, name, its)]
        /\ agrees' = [agrees EXCEPT ![c] = @ /\ dir = its]
        /\ failed' = [failed EXCEPT ![c] = dir = Nowhere]
  /\ todo' = [todo EXCEPT ![c] = Tail(@)]
  /\ UNCHANGED <<path, phase, body, added, dirs, root>>

Select(c) ==
  /\ phase[c] = "load" /\ (todo[c] = <<>> \/ failed[c])
  /\ path' = Restored(c)
  /\ LET chosen == IF failed[c] \/ job[c].raises THEN NoPipeline ELSE Selected(job[c])
     IN /\ root' = [root EXCEPT ![c] = chosen]
        /\ failed' = [failed EXCEPT ![c] = chosen = NoPipeline]
        /\ Goes(c, IF chosen = NoPipeline THEN "purge" ELSE "between")
  /\ todo' = [todo EXCEPT ![c] = <<>>]
  /\ added' = [added EXCEPT ![c] = FALSE]
  /\ UNCHANGED <<modules, body, dirs, alone, agrees>>

LeaveTrace(c) ==
  /\ phase[c] = "trace" /\ body[c] # 0 /\ (todo[c] = <<>> \/ failed[c])
  /\ path' = Restored(c)
  /\ todo' = [todo EXCEPT ![c] = <<>>]
  /\ added' = [added EXCEPT ![c] = FALSE]
  /\ Goes(c, IF failed[c] \/ body[c] = Len(job[c].traces) THEN "purge" ELSE "between")
  /\ UNCHANGED <<modules, body, dirs, root, failed, alone, agrees>>
Trace(c) ==
  /\ phase[c] = "between"
  /\ EnterDir(c, body[c] + 1, job[c].traces[body[c] + 1].dir, job[c].traces[body[c] + 1].imports)
  /\ modules' = Reimport(modules, Dir(c)')
  /\ alone' = [alone EXCEPT ![c] = Reimport(@, Dir(c)')]
  /\ Goes(c, "trace")
  /\ UNCHANGED <<root, failed, agrees>>

PurgesOnSuccess(c) == IF failed[c] THEN {} ELSE  \* mutant: a failed compilation leaves its modules
  {name \in DOMAIN modules : \E d \in dirs[c] : Within(modules[name], d)}
Purges(c) == {name \in DOMAIN modules : \E d \in dirs[c] : Within(modules[name], d)}
Purge(c) ==
  /\ phase[c] = "purge"
  /\ modules' = Without(modules, Purges(c))
  /\ Goes(c, "over")
  /\ UNCHANGED <<path, body, todo, added, dirs, root, failed, alone, agrees>>

ModulesStep ==
  /\ UNCHANGED job
  /\ \E c \in Compiles : \/ Start(c) \/ ImportNext(c) \/ Select(c)
                         \/ Trace(c) \/ LeaveTrace(c) \/ Purge(c)
ModulesSpec == ModulesInit /\ [][ModulesStep]_modulesVars
ModulesOver == \A c \in Compiles : phase[c] = "over"

-----------------------------------------------------------------------------
(* A compilation sees the modules that it would see in a process of its own, *)
(* however many there were before it and however they ended.                 *)
AsAlone == \A c \in Compiles : agrees[c]

(* In between, sys.path is as it was, and sys.modules holds what the process *)
(* finds there by itself: nothing is left of any directory that was compiled. *)
NothingLeft ==
  (\A c \in Compiles : phase[c] \in {"waiting", "over"}) =>
    /\ path = BasePath
    /\ \A name \in DOMAIN modules : modules[name] = Search(name, BasePath)

(* The pipeline selected is the one asked for: no imported one, none that    *)
(* only displays a name that another's function has, none of several.        *)
Answers(p, wanted) == wanted \in {"", p.function, p.display}
SelectsTheOne ==
  \A c \in Compiles : root[c] # NoPipeline =>
    LET offered == {p \in ToSet(job[c].pipelines) : p.source # "elsewhere"}
        wanted == job[c].wanted
    IN /\ root[c] \in offered /\ Answers(root[c], wanted)
       /\ \A p \in offered \ {root[c]} :
            \/ ~Answers(p, wanted)
            \/ wanted # "" /\ root[c].function = wanted /\ p.function # wanted
            \/ wanted = "" /\ root[c].source = "here" /\ p.source = "unknown"

LoadsClean == AsAlone /\ NothingLeft /\ SelectsTheOne
=============================================================================
