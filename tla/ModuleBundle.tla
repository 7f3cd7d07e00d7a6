---------------------------- MODULE ModuleBundle ----------------------------
(* The local modules a component takes along: which are found                *)
(* (ModuleBundler.collect_sources), in which order they are put down, and     *)
(* what the snippet that injects them makes of them where the component      *)
(* runs (module_bundler.py), against the same program run by Python itself.  *)
(* A dotted name is the sequence of its parts; a module defines Value once   *)
(* its imports are done.                                                     *)
EXTENDS Integers, Sequences, FiniteSets

LOCAL INSTANCE FiniteSetsExt

CONSTANTS
  Programs1,   \* [files: [name -> [package, place, body]], main: body, deps: installed names]
  Value        \* the attribute of a module that is no module

VARIABLES
  prog,        \* the program
  bundled,     \* the modules in the bundle
  batch,       \* those that may be executed next
  executed,    \* those that have been
  bundling     \* "collect", "inject" or "main"; "runs" or "fails"

bundleVars == <<prog, bundled, batch, executed, bundling>>

\* A body is a sequence of statements [from, level, of, name, lazy, uses]: "import of",
\* or "from of import name" where level counts the leading dots; in a function if lazy;
\* followed by a use of what it names if uses.
AtLoad(body) == {i \in 1..Len(body) : ~body[i].lazy}
InFunctions(body) == {i \in 1..Len(body) : body[i].lazy}

PartsOf(name) == {SubSeq(name, 1, k) : k \in 1..Len(name)}
Base(s, package) ==
  IF s.level = 0 THEN s.of ELSE SubSeq(package, 1, Len(package) - (s.level - 1)) \o s.of

-----------------------------------------------------------------------------
(* Collecting *)

\* Under the root or in a sibling directory of the project, and a source.
SourceFound(name) == name \in DOMAIN prog.files /\ prog.files[name].place = "project"
IsLocal(top) == top \notin prog.deps /\ <<top>> \in DOMAIN prog.files

\* What a statement may refer to, in a module of this package.
Targets(s, package) ==
  IF ~s.from THEN {s.of}
  ELSE (IF s.level > 0 /\ s.of = <<>> THEN {} ELSE {Base(s, package)}) \cup {Append(Base(s, package), s.name)}

FullPaths(body, package) ==
  UNION {Targets(body[i], package) : i \in {j \in 1..Len(body) : body[j].level > 0 \/ IsLocal(body[j].of[1])}}

\* The package of a module, taken from its name, as if it were no package itself.
ContextByName(name) == IF Len(name) > 1 THEN SubSeq(name, 1, Len(name) - 1) ELSE name

\* Alphabetically, and by depth before.
Precedes(m, n) ==
  \E k \in 1..Len(n) : /\ k > Len(m) \/ m[k] < n[k]
                       /\ \A j \in 1..(k - 1) : j <= Len(m) /\ m[j] = n[j]
First(S) == CHOOSE n \in S : \A m \in S : m = n \/ Precedes(n, m)
Shallowest(S) == First({n \in S : \A m \in S : Len(n) <= Len(m)})

\* acc is what was found and what was visited.
RECURSIVE Visit1(_, _), Parents(_, _, _)
Visit1(paths, acc) ==
  IF paths = {} THEN acc
  ELSE LET name == First(paths)
           seen == [acc EXCEPT !.visited = @ \cup {name}]
           Reached(a, n) == [a EXCEPT !.visited = @ \cup {n}, !.found = IF SourceFound(n) THEN @ \cup {n} ELSE @]
           outer == Parents(name, 1, Reached(acc, name))
       IN Visit1(paths \ {name},
            IF name \in acc.visited THEN acc
            ELSE IF ~SourceFound(name) THEN (IF <<name[1]>> \in seen.visited THEN seen ELSE Reached(seen, <<name[1]>>))
            ELSE Visit1(FullPaths(prog.files[name].body, ContextByName(name)), outer))
Parents(name, i, acc) ==
  LET parent == SubSeq(name, 1, i)
      seen == [acc EXCEPT !.visited = @ \cup {parent}]
  IN IF i >= Len(name) THEN acc
     ELSE Parents(name, i + 1,
            IF parent \in acc.visited THEN acc
            ELSE IF ~SourceFound(parent) THEN seen
            ELSE Visit1(FullPaths(prog.files[parent].body, parent), [seen EXCEPT !.found = @ \cup {parent}]))

Collected == Visit1(FullPaths(prog.main, <<>>), [found |-> {}, visited |-> {}]).found

-----------------------------------------------------------------------------
(* Ordering *)

\* The longest part of each target that is in the bundle, but for the module itself.
LoadDependencies(name) ==
  LET body == prog.files[name].body
      Longest(target) == LET hits == (PartsOf(target) \cap bundled) \ {name}
                         IN {n \in hits : \A m \in hits : Len(m) <= Len(n)}
  IN UNION {Longest(t) : t \in UNION {Targets(body[i], ContextByName(name)) : i \in AtLoad(body)}}

Unordered(done) == {n \in bundled \ done : LoadDependencies(n) \subseteq done}
RECURSIVE Ordered(_)
Ordered(done) == IF Unordered(done) = {} THEN done ELSE Ordered(done \cup Unordered(done))
Circular == Ordered({}) # bundled

\* By depth and name always.
NextByDepth(done) == IF bundled = done THEN {} ELSE {Shallowest(bundled \ done)}

\* The modules of a batch come in any order; a cycle leaves them by depth and name.
NextBatch(done) ==
  IF bundled = done THEN {} ELSE IF Circular THEN {Shallowest(bundled \ done)} ELSE Unordered(done)

-----------------------------------------------------------------------------
(* Injecting: all are registered, then each is executed *)

Injected == UNION {PartsOf(n) : n \in bundled}
PackageAtRun(name) ==
  IF \E n \in bundled : name \in PartsOf(n) \ {n} THEN name ELSE SubSeq(name, 1, Len(name) - 1)

Works(s, package) ==
  LET base == Base(s, package)
      sub == Append(base, s.name)
      Usable(n) == n \in Injected /\ (s.uses => n \in executed)
  IN \/ s.of # <<>> /\ s.level = 0 /\ s.of[1] \in prog.deps
     \/ /\ s.level <= Len(package)
        /\ IF ~s.from THEN Usable(s.of)
           ELSE base \in Injected /\ IF s.name = Value THEN base \in executed ELSE Usable(sub)

BundleInit ==
  /\ prog \in Programs1
  /\ bundled = {} /\ batch = {} /\ executed = {} /\ bundling = "collect"

Collect ==
  /\ bundling = "collect"
  /\ bundled' = Collected
  /\ bundling' = "inject"
  /\ UNCHANGED <<prog, batch, executed>>

Inject ==
  /\ bundling = "inject"
  /\ LET ready == IF batch = {} THEN NextBatch(executed) ELSE batch
         Loads(n) == \A i \in AtLoad(prog.files[n].body) : Works(prog.files[n].body[i], PackageAtRun(n))
     IN \/ ready = {} /\ bundling' = "main" /\ UNCHANGED <<batch, executed>>
        \/ \E n \in ready :
             \/ Loads(n) /\ batch' = ready \ {n} /\ executed' = executed \cup {n} /\ UNCHANGED bundling
             \/ ~Loads(n) /\ bundling' = "fails" /\ UNCHANGED <<batch, executed>>
  /\ UNCHANGED <<prog, bundled>>

\* The component is loaded, then its functions are called, and theirs.
RunMain ==
  /\ bundling = "main"
  /\ LET Runs1(body, package) == \A i \in 1..Len(body) : Works(body[i], package)
     IN bundling' = IF Runs1(prog.main, <<>>) /\ \A n \in executed : Runs1(prog.files[n].body, PackageAtRun(n))
                    THEN "runs" ELSE "fails"
  /\ UNCHANGED <<prog, bundled, batch, executed>>

BundleStep == Collect \/ Inject \/ RunMain
BundleSpec == BundleInit /\ [][BundleStep]_bundleVars
BundleOver == bundling \in {"runs", "fails"}

-----------------------------------------------------------------------------
(* The same program, run by Python from the project *)

PackageOf(name) == IF prog.files[name].package THEN name ELSE SubSeq(name, 1, Len(name) - 1)

\* ran: [begun, done, ok].  A module is executed when it is first imported, after its package.
RECURSIVE Imports(_, _, _), Bodies(_, _, _, _, _)
Imports(ran, name, i) ==
  LET module == SubSeq(name, 1, i)
  IN IF ~ran.ok \/ i > Len(name) \/ name[1] \in prog.deps THEN ran
     ELSE IF module \in ran.begun THEN Imports(ran, name, i + 1)
     ELSE IF module \notin DOMAIN prog.files THEN [ran EXCEPT !.ok = FALSE]
     ELSE LET after == Bodies([ran EXCEPT !.begun = @ \cup {module}], prog.files[module].body, PackageOf(module), 1, FALSE)
          IN Imports([after EXCEPT !.done = @ \cup {module}], name, i + 1)
Bodies(ran, body, package, i, lazily) ==
  IF ~ran.ok \/ i > Len(body) THEN ran
  ELSE LET s == body[i]
           named == IF s.from /\ s.name # Value THEN Append(Base(s, package), s.name) ELSE Base(s, package)
           after == Imports(ran, named, 1)
           needed == s.uses \/ (s.from /\ s.name = Value)
           ok == after.ok /\ (needed => named \in after.done \/ named[1] \in prog.deps)
       IN IF s.lazy # lazily THEN Bodies(ran, body, package, i + 1, lazily)
          ELSE IF s.level > Len(package) THEN [ran EXCEPT !.ok = FALSE]
          ELSE Bodies([after EXCEPT !.ok = ok], body, package, i + 1, lazily)

\* Every function of every module that is there is called.
RECURSIVE Calls1(_, _)
Calls1(ran, called) ==
  LET rest == ran.done \ called
      n == CHOOSE x \in rest : TRUE
  IN IF ~ran.ok \/ rest = {} THEN ran
     ELSE Calls1(Bodies(ran, prog.files[n].body, PackageOf(n), 1, TRUE), called \cup {n})

Ran == LET loaded == Bodies([begun |-> {}, done |-> {}, ok |-> TRUE], prog.main, <<>>, 1, FALSE)
       IN Calls1(Bodies(loaded, prog.main, <<>>, 1, TRUE), {})

\* What Python finds and the bundler does not take: installed, compiled, of another project.
AllInProject == \A n \in DOMAIN prog.files : prog.files[n].place = "project"

\* A package within a package that names its modules by dots.
DotsInNested == \E n \in DOMAIN prog.files : /\ Len(n) > 1 /\ prog.files[n].package
                                              /\ \E i \in 1..Len(prog.files[n].body) : prog.files[n].body[i].level > 0

(* A program of the project's own modules that Python runs is also run from  *)
(* its bundle: every module it imports is there, and none is used before it  *)
(* has been executed, whatever the order within a batch; unless modules      *)
(* import each other in a circle when loaded, or a nested package uses dots. *)
BundleRuns == (bundling = "fails" /\ AllInProject /\ ~Circular /\ ~DotsInNested) => ~Ran.ok

(* The local modules that the modules of a bundle import are in it too.      *)
CollectsTransitively ==
  (bundling \notin {"collect"} /\ AllInProject) => (Ran.ok => Ran.done \subseteq bundled)
=============================================================================
