---------------------------- MODULE SourcesProofs ----------------------------
(***************************************************************************)
(* What a command makes of its sources, whatever they are.                  *)
(*                                                                         *)
(* ModuleLoad: compilations that share a process, one after another, import *)
(* what they would import in a process of their own and leave nothing       *)
(* behind.  What is in sys.modules is compared with what the process finds  *)
(* on its own path: besides that, it holds only what the compilation under  *)
(* way is going to purge (HeldOK) and what is its own (AloneOK).            *)
(*                                                                         *)
(* VersionBump: a bump leaves a component and its source at one version,    *)
(* the next one.  What a call has done is read off the step it is at        *)
(* (PhaseOK), and what a version is off its parts (IncrementIsNext).        *)
(*                                                                         *)
(* TaskSidecar: the references of a compiled pipeline lead where the author *)
(* means them to, and it is refused only for a task at fault.  The identity *)
(* of a call stands for its component (IdentityIsComponent), a relative     *)
(* path leads back to its target (RelPathLeads), and the invariant says of  *)
(* each step what it has planned, written and checked so far (RefsInv).     *)
(*                                                                         *)
(* Tracing: pipelines traced inside one another record apart.  Each trace   *)
(* under way has a builder of its own and goes back to the one around it    *)
(* (NestOK); what a body's graph says of its text stays with TLC.           *)
(***************************************************************************)
EXTENDS ModuleLoad, VersionBump, TaskSidecar, Tracing, SequenceTheorems, FiniteSetTheorems, TLAPS

(* Every nonempty set of naturals has a least element, which Min gives.      *)
LEMMA LeastIsMin ==
  ASSUME NEW T \in SUBSET Nat, T # {}
  PROVE  Min(T) \in T /\ \A y \in T : Min(T) <= y
<1> DEFINE R == OpToRel(<, Nat)
<1>1. IsWellFoundedOn(R, Nat)
  BY NatLessThanWellFounded, Zenon
<1>2. R = {ss \in Nat \X Nat : ss[1] < ss[2]}
  BY DEF OpToRel
<1> HIDE DEF R
<1>3. PICK x \in T : \A y \in T : <<y, x>> \notin R
  BY <1>1, WFMin
<1>4. \A y \in T : <<y, x>> \in Nat \X Nat
  OBVIOUS
<1>5. \A y \in T : ~(y < x)
  BY <1>2, <1>3, <1>4
<1>6. \A y \in T : x <= y
  BY <1>5
<1> QED BY <1>6 DEF Min

-----------------------------------------------------------------------------
(* ModuleLoad: the invariants. *)
Phases == {"waiting", "load", "between", "trace", "purge", "over"}
Running(c) == phase[c] \in {"load", "trace"}
IsUnderway(c) == phase[c] \in {"load", "between", "trace", "purge"}

TypesOK ==
  /\ job \in Jobs
  /\ phase \in [Compiles -> Phases] /\ body \in [Compiles -> Nat]
  /\ added \in [Compiles -> BOOLEAN]
  /\ failed \in [Compiles -> BOOLEAN] /\ agrees \in [Compiles -> BOOLEAN]
  /\ dirs \in [Compiles -> SUBSET SourceDirs]
  /\ DOMAIN todo = Compiles /\ DOMAIN root = Compiles /\ DOMAIN alone = Compiles

(* How far a compilation has got in its traces.                              *)
BodyOK(c) ==
  /\ phase[c] = "load" => body[c] = 0
  /\ phase[c] = "between" => body[c] < Len(job[c].traces)
  /\ phase[c] = "trace" => body[c] \in 1..Len(job[c].traces)
  /\ Running(c) => Dir(c) \in dirs[c]

(* At most one compilation is under way.                                     *)
OneUnderway == \A c, d \in Compiles : IsUnderway(c) /\ IsUnderway(d) => c = d

(* sys.path, with a directory of sources or without.                         *)
Entries(dir) == IF Contains(BasePath, dir) THEN BasePath ELSE <<dir>> \o BasePath
PathOK ==
  /\ \A c \in Compiles : Running(c) => /\ added[c] = ~Contains(BasePath, Dir(c))
                                       /\ path = Entries(Dir(c))
  /\ (\A c \in Compiles : ~Running(c)) => path = BasePath

(* sys.modules holds what the process finds by itself, and besides only what *)
(* the compilation under way will purge.                                     *)
OfProcess(name) == modules[name] = Search(name, BasePath)
HeldOK ==
  /\ (\A c \in Compiles : ~IsUnderway(c)) => \A name \in DOMAIN modules : OfProcess(name)
  /\ \A c \in Compiles : IsUnderway(c) =>
       \A name \in DOMAIN modules : OfProcess(name) \/ \E d \in dirs[c] : Within(modules[name], d)

(* sys.modules is that of a process of the compilation's own, and besides    *)
(* what any process finds; and what is found where the body runs is its own. *)
AloneOK(c) ==
  /\ phase[c] = "waiting" => DOMAIN alone[c] = {}
  /\ IsUnderway(c) =>
       /\ \A name \in DOMAIN alone[c] : name \in DOMAIN modules /\ modules[name] = alone[c][name]
       /\ \A name \in DOMAIN modules \ DOMAIN alone[c] : OfProcess(name)
  /\ Running(c) /\ ~Contains(BasePath, Dir(c)) =>
       \A name \in DOMAIN modules : Found(name, Dir(c)) = {} \/ modules[name] = Dir(c)

(* Every root is the one selected.                                           *)
RootOK == \A c \in Compiles : root[c] \in {NoPipeline, Selected(job[c])}

PathInv == TypesOK /\ (\A c \in Compiles : BodyOK(c)) /\ OneUnderway /\ PathOK /\ HeldOK
AloneInv == (\A c \in Compiles : AloneOK(c) /\ agrees[c])
-----------------------------------------------------------------------------
(* Searching. *)

(* The directories that scripts and traced bodies name are directories.      *)
LEMMA SourceDirsTyped == SourceDirs \subseteq Directories
<1> SUFFICES ASSUME NEW d \in SourceDirs PROVE d \in Directories
  OBVIOUS
<1>1. PICK j \in Jobs, c \in Compiles :
        d \in {j[c].dir} \cup {j[c].traces[i].dir : i \in DOMAIN j[c].traces}
  BY DEF SourceDirs
<1>2. j[c] \in Scripts
  BY ModulesConstantsOK DEF ModulesConstantsOK
<1> DEFINE bodies == j[c].traces
<1>3. j[c].dir \in Directories /\ bodies \in Seq(TracedBodies)
  BY <1>2 DEF Scripts
<1>4. \A i \in DOMAIN bodies : bodies[i] \in TracedBodies
  <2> HIDE DEF bodies
  <2> QED BY <1>3, ElementOfSeq, LenProperties
<1> QED BY <1>1, <1>3, <1>4 DEF TracedBodies

(* A directory put before the path is searched first.                        *)
LEMMA SearchOn ==
  ASSUME NEW name, NEW dir \in Directories, NEW p \in Seq(Directories)
  PROVE  Search(name, <<dir>> \o p) =
           IF Found(name, dir) = {} THEN Search(name, p)
           ELSE (CHOOSE m \in Found(name, dir) : TRUE).in
<1> DEFINE both == <<dir>> \o p
           at == {i \in DOMAIN both : Found(name, both[i]) # {}}
           its == {i \in DOMAIN p : Found(name, p[i]) # {}}
<1>1. /\ both \in Seq(Directories) /\ Len(p) \in Nat /\ DOMAIN p = 1..Len(p)
      /\ DOMAIN both = 1..(Len(p) + 1) /\ both[1] = dir
      /\ \A i \in 1..Len(p) : both[i + 1] = p[i]
  <2>1. Len(<<dir>>) = 1 /\ <<dir>> \in Seq(Directories) /\ <<dir>>[1] = dir
    OBVIOUS
  <2>2. both \in Seq(Directories) /\ Len(both) = Len(p) + 1 /\ both[1] = dir
    BY <2>1, ConcatProperties
  <2>3. Len(p) \in Nat /\ DOMAIN p = 1..Len(p) /\ DOMAIN both = 1..Len(both)
    BY <2>2, LenProperties
  <2>4. ASSUME NEW i \in 1..Len(p) PROVE both[i + 1] = p[i]
    BY <2>1, <2>3, ConcatProperties
  <2> QED BY <2>2, <2>3, <2>4
<1>2. Search(name, both) = IF at = {} THEN Nowhere
                           ELSE (CHOOSE m \in Found(name, both[Min(at)]) : TRUE).in
  BY DEF Search
<1>3. Search(name, p) = IF its = {} THEN Nowhere
                        ELSE (CHOOSE m \in Found(name, p[Min(its)]) : TRUE).in
  BY DEF Search
<1> HIDE DEF both
<1>4. at \in SUBSET Nat /\ its \in SUBSET Nat
  BY <1>1
<1>5. CASE Found(name, dir) # {}
  <2>1. 1 \in at
    BY <1>1, <1>5
  <2>2. Min(at) \in at /\ Min(at) <= 1
    <3> HIDE DEF at
    <3> QED BY <1>4, <2>1, LeastIsMin
  <2>3. Min(at) = 1
    BY <1>1, <2>2
  <2> QED BY <1>1, <1>2, <1>5, <2>1, <2>3 DEF both
<1>6. CASE Found(name, dir) = {}
  <2>1. \A i \in DOMAIN both : i \in at <=> i - 1 \in its
    <3> SUFFICES ASSUME NEW i \in 1..(Len(p) + 1)
                 PROVE  i \in at <=> i - 1 \in its
      BY <1>1
    <3>1. CASE i = 1
      BY <1>1, <1>6, <3>1
    <3>2. CASE i # 1
      <4>1. i - 1 \in 1..Len(p) /\ (i - 1) + 1 = i
        BY <1>1, <3>2
      <4>2. both[i] = p[i - 1]
        BY <1>1, <4>1
      <4> QED BY <1>1, <4>1, <4>2
    <3> QED BY <3>1, <3>2
  <2>2. \A i \in its : i + 1 \in at
    <3> SUFFICES ASSUME NEW i \in its PROVE i + 1 \in at
      OBVIOUS
    <3>1. i + 1 \in DOMAIN both /\ (i + 1) - 1 = i
      BY <1>1
    <3> HIDE DEF at, its
    <3> QED BY <2>1, <3>1
  <2>3. CASE its = {}
    <3>1. at = {}
      BY <2>1, <2>3
    <3> QED BY <1>2, <1>3, <1>6, <2>3, <3>1 DEF both
  <2>4. CASE its # {}
    <3> DEFINE k == Min(its)
               l == Min(at)
    <3>0. at # {}
      BY <2>2, <2>4
    <3>1. k \in its /\ \A y \in its : k <= y
      <4> HIDE DEF its
      <4> QED BY <1>4, <2>4, LeastIsMin
    <3>2. l \in at /\ \A y \in at : l <= y
      <4> HIDE DEF at
      <4> QED BY <1>4, <3>0, LeastIsMin
    <3> HIDE DEF k, l
    <3>3. l - 1 \in its /\ k + 1 \in at
      BY <2>1, <2>2, <3>1, <3>2
    <3>4. k <= l - 1 /\ l <= k + 1
      BY <3>1, <3>2, <3>3
    <3>5. k \in 1..Len(p) /\ l \in Nat
      BY <1>1, <3>1, <3>2
    <3>6. l = k + 1
      BY <1>1, <3>4, <3>5
    <3>7. both[l] = p[k]
      BY <1>1, <3>5, <3>6
    <3> QED BY <1>2, <1>3, <1>6, <2>4, <3>0, <3>7 DEF both, k, l
  <2> QED BY <2>3, <2>4
<1> QED BY <1>5, <1>6
(* What is on a path is a directory.                                        *)
LEMMA ContainsDir ==
  ASSUME NEW p \in Seq(Directories), NEW dir, Contains(p, dir)
  PROVE  dir \in Directories
BY ElementOfSeq DEF Contains

(* What is found on the path of a body is what the process finds, or lies in *)
(* the directory of the body.                                                *)
LEMMA FoundOnPath ==
  ASSUME NEW name, NEW dir \in SourceDirs
  PROVE  \/ Search(name, Entries(dir)) = Search(name, BasePath)
         \/ Within(Search(name, Entries(dir)), dir)
<1> SUFFICES ASSUME ~Contains(BasePath, dir), Found(name, dir) # {}
             PROVE  Within(Search(name, <<dir>> \o BasePath), dir)
  BY SearchOn, SourceDirsTyped, ModulesConstantsOK DEF Entries, ModulesConstantsOK
<1> DEFINE m == CHOOSE m \in Found(name, dir) : TRUE
<1>1. m \in Found(name, dir)
  OBVIOUS
<1>2. m \in Modules /\ m.on = dir
  BY <1>1 DEF Found
<1>3. Within(m.in, dir)
  BY <1>2, ImportsOK DEF ImportsOK
<1>4. Search(name, <<dir>> \o BasePath) = m.in
  BY SearchOn, SourceDirsTyped, ModulesConstantsOK DEF ModulesConstantsOK
<1> QED BY <1>3, <1>4

(* Where scripts have plain modules beside them, it is that directory itself *)
(* if anything is found there.                                               *)
LEMMA FoundBeside ==
  ASSUME PlainModules, NEW name, NEW dir \in SourceDirs, ~Contains(BasePath, dir)
  PROVE  /\ \A m \in Found(name, dir) : m.in = dir
         /\ Search(name, Entries(dir)) = IF Found(name, dir) = {} THEN Search(name, BasePath) ELSE dir
<1>1. dir \notin ToSet(BasePath)
  BY DEF Contains, ToSet
<1>2. \A m \in Found(name, dir) : m.in = dir
  BY <1>1 DEF Found, PlainModules
<1>3. Search(name, <<dir>> \o BasePath) =
        IF Found(name, dir) = {} THEN Search(name, BasePath)
        ELSE (CHOOSE m \in Found(name, dir) : TRUE).in
  BY SearchOn, SourceDirsTyped, ModulesConstantsOK DEF ModulesConstantsOK
<1>4. Found(name, dir) # {} => (CHOOSE m \in Found(name, dir) : TRUE) \in Found(name, dir)
  OBVIOUS
<1> QED BY <1>2, <1>3, <1>4 DEF Entries

(* The entry that was put first on the path is the one taken off it.         *)
LEMMA FirstTakenOff ==
  ASSUME NEW dir \in Directories, NEW p \in Seq(Directories)
  PROVE  /\ Contains(<<dir>> \o p, dir)
         /\ RemoveAt(<<dir>> \o p, Min({i \in DOMAIN (<<dir>> \o p) : (<<dir>> \o p)[i] = dir})) = p
<1> DEFINE both == <<dir>> \o p
           at == {i \in DOMAIN both : both[i] = dir}
<1>1. /\ both \in Seq(Directories) /\ Len(p) \in Nat /\ DOMAIN p = 1..Len(p)
      /\ Len(both) = Len(p) + 1 /\ DOMAIN both = 1..(Len(p) + 1) /\ both[1] = dir
      /\ \A i \in 1..Len(p) : both[i + 1] = p[i]
  <2>1. Len(<<dir>>) = 1 /\ <<dir>> \in Seq(Directories) /\ <<dir>>[1] = dir
    OBVIOUS
  <2>2. both \in Seq(Directories) /\ Len(both) = Len(p) + 1 /\ both[1] = dir
    BY <2>1, ConcatProperties
  <2>3. Len(p) \in Nat /\ DOMAIN p = 1..Len(p) /\ DOMAIN both = 1..Len(both)
    BY <2>2, LenProperties
  <2>4. ASSUME NEW i \in 1..Len(p) PROVE both[i + 1] = p[i]
    BY <2>1, <2>3, ConcatProperties
  <2> QED BY <2>2, <2>3, <2>4
<1> HIDE DEF both
<1>2. Contains(both, dir)
  BY <1>1 DEF Contains
<1>3. Min(at) = 1
  <2>1. 1 \in at /\ at \in SUBSET Nat
    BY <1>1
  <2>2. Min(at) \in at /\ Min(at) <= 1
    <3> HIDE DEF at
    <3> QED BY <2>1, LeastIsMin
  <2> QED BY <1>1, <2>2
<1>4. RemoveAt(both, 1) = p
  <2>1. RemoveAt(both, 1) = SubSeq(both, 1, 0) \o SubSeq(both, 2, Len(both))
    BY DEF RemoveAt
  <2>2. SubSeq(both, 1, 0) = <<>>
    BY <1>1
  <2> DEFINE rest == SubSeq(both, 2, Len(both))
  <2>3. rest \in Seq(Directories) /\ Len(rest) = Len(p) /\ \A i \in 1..Len(p) : rest[i] = both[i + 1]
    BY <1>1, SubSeqProperties
  <2> HIDE DEF rest
  <2>4. rest = p
    BY <1>1, <2>3, SeqEqual
  <2>5. <<>> \o rest = rest
    BY <2>3, ConcatEmptySeq
  <2> QED BY <2>1, <2>2, <2>4, <2>5 DEF rest
<1> QED BY <1>2, <1>3, <1>4 DEF both

(* sys.modules after an import, and after an eviction.                       *)
LEMMA WithFacts ==
  ASSUME NEW cached, NEW name, NEW dir
  PROVE  /\ DOMAIN With(cached, name, dir) =
              DOMAIN cached \cup (IF dir = Nowhere THEN {} ELSE {name})
         /\ \A x \in DOMAIN cached \ {name} : With(cached, name, dir)[x] = cached[x]
         /\ dir # Nowhere => With(cached, name, dir)[name] = dir
         /\ dir = Nowhere => With(cached, name, dir) = cached
BY DEF With

(* Eviction takes modules away and leaves the others as they are.           *)
LEMMA ReimportFacts ==
  ASSUME NEW cached, NEW dir
  PROVE  /\ DOMAIN Reimport(cached, dir) = DOMAIN cached \ Evicts(cached, dir)
         /\ \A x \in DOMAIN Reimport(cached, dir) : Reimport(cached, dir)[x] = cached[x]
BY DEF Reimport, Without, Restrict
-----------------------------------------------------------------------------
(* What a compilation leaves. *)

(* No compilation has begun: nothing has been added.                         *)
LEMMA PathInit == ModulesInit => PathInv
<1> SUFFICES ASSUME ModulesInit PROVE PathInv
  OBVIOUS
<1>1. TypesOK
  BY DEF ModulesInit, TypesOK, Phases
<1>2. \A c \in Compiles : phase[c] = "waiting"
  BY DEF ModulesInit
<1>3. (\A c \in Compiles : BodyOK(c)) /\ OneUnderway
  BY <1>2 DEF BodyOK, OneUnderway, Running, IsUnderway
<1>4. PathOK
  BY <1>2 DEF PathOK, Running, ModulesInit
<1>5. HeldOK
  BY <1>2, ImportsOK DEF HeldOK, OfProcess, IsUnderway, ModulesInit, ImportsOK
<1> QED BY <1>1, <1>3, <1>4, <1>5 DEF PathInv

(* A compilation starts when none is under way, if they take turns.          *)
LEMMA NoneUnderway ==
  ASSUME AtOnce = 1, TypesOK, NEW c \in Compiles, Start(c)
  PROVE  \A x \in Compiles : ~IsUnderway(x)
<1>1. Underway \subseteq Compiles
  BY DEF Underway
<1>2. IsFiniteSet(Underway)
  BY <1>1, FS_Subset, ModulesConstantsOK DEF ModulesConstantsOK
<1>3. Cardinality(Underway) < 1 /\ Cardinality(Underway) \in Nat
  BY <1>2, FS_CardinalityType DEF Start
<1>4. Cardinality(Underway) = 0
  BY <1>3
<1>5. Underway = {}
  BY <1>2, <1>4, FS_EmptySet
<1> QED BY <1>5 DEF Underway, IsUnderway

(* The directories a compilation gets to.                                    *)
LEMMA ScriptFacts ==
  ASSUME TypesOK, NEW c \in Compiles
  PROVE  /\ job[c].dir \in SourceDirs
         /\ Len(job[c].traces) \in Nat \ {0}
         /\ \A i \in 1..Len(job[c].traces) : job[c].traces[i].dir \in SourceDirs
<1> DEFINE s == job[c]
           bodies == s.traces
<1>1. s \in Scripts /\ s \in {j[x] : j \in Jobs, x \in Compiles}
  BY ModulesConstantsOK DEF ModulesConstantsOK, TypesOK
<1>2. bodies \in Seq(TracedBodies) /\ bodies # <<>>
  BY <1>1 DEF Scripts
<1>3. {s.dir} \cup {s.traces[i].dir : i \in DOMAIN s.traces} \subseteq SourceDirs
  <2> HIDE DEF s
  <2> QED BY <1>1 DEF SourceDirs
<1>4. Len(bodies) \in Nat /\ DOMAIN bodies = 1..Len(bodies) /\ Len(bodies) # 0
  <2> HIDE DEF bodies
  <2> QED BY <1>2, LenProperties, EmptySeq
<1> QED BY <1>3, <1>4

(* A body is entered: its directory is put on the path.                      *)
LEMMA Entered ==
  ASSUME TypesOK, PathOK, NEW c \in Compiles, NEW next \in Nat, NEW dir \in SourceDirs, NEW imports,
         \A x \in Compiles : ~Running(x), EnterDir(c, next, dir, imports),
         UNCHANGED job, Dir(c)' = dir, Running(c)', \A x \in Compiles : x # c => ~Running(x)'
  PROVE  /\ PathOK'
         /\ body' \in [Compiles -> Nat] /\ body'[c] = next
         /\ \A x \in Compiles : x # c => body'[x] = body[x]
         /\ added' \in [Compiles -> BOOLEAN]
         /\ dirs' \in [Compiles -> SUBSET SourceDirs] /\ dirs'[c] = dirs[c] \cup {dir}
         /\ DOMAIN todo' = Compiles
<1>1. path = BasePath
  BY DEF PathOK
<1>2. added'[c] = ~Contains(BasePath, dir) /\ path' = Entries(dir)
  BY <1>1 DEF EnterDir, Entries, TypesOK
<1>3. PathOK'
  <2>1. added'[c] = ~Contains(BasePath, Dir(c)') /\ path' = Entries(Dir(c)')
    BY <1>2
  <2> QED BY <2>1 DEF PathOK, Entries
<1> QED BY <1>3 DEF EnterDir, TypesOK
(* A body is left: sys.path is as it was.                                    *)
LEMMA PathLeft ==
  ASSUME PathInv, NEW c \in Compiles, Running(c)
  PROVE  Restored(c) = BasePath
<1>1. added[c] = ~Contains(BasePath, Dir(c)) /\ path = Entries(Dir(c))
  BY DEF PathInv, PathOK
<1>2. CASE Contains(BasePath, Dir(c))
  BY <1>1, <1>2 DEF Restored, Entries
<1>3. CASE ~Contains(BasePath, Dir(c))
  <2>1. Dir(c) \in Directories
    <3>1. dirs[c] \in SUBSET SourceDirs /\ Dir(c) \in dirs[c]
      BY DEF PathInv, TypesOK, BodyOK
    <3> QED BY <3>1, SourceDirsTyped
  <2>2. path = <<Dir(c)>> \o BasePath /\ added[c]
    BY <1>1, <1>3 DEF Entries
  <2> QED BY <2>1, <2>2, FirstTakenOff, ModulesConstantsOK DEF Restored, ModulesConstantsOK
<1> QED BY <1>2, <1>3

(* A compilation that starts puts its directory first and evicts.            *)
LEMMA PathStart ==
  ASSUME AtOnce = 1, PathInv, UNCHANGED job, NEW c \in Compiles, Start(c)
  PROVE  PathInv'
<1> DEFINE dir == job[c].dir
<1>1. TypesOK /\ (\A x \in Compiles : BodyOK(x)) /\ PathOK /\ HeldOK
  BY DEF PathInv
<1>2. \A x \in Compiles : ~IsUnderway(x)
  BY <1>1, NoneUnderway
<1>3. \A x \in Compiles : ~Running(x)
  BY <1>2 DEF IsUnderway, Running
<1>4. phase' = [phase EXCEPT ![c] = "load"] /\ EnterDir(c, 0, dir, job[c].imports)
  BY DEF Start, Goes
<1>5. /\ Running(c)' /\ IsUnderway(c)'
      /\ \A x \in Compiles : x # c => ~Running(x)' /\ ~IsUnderway(x)'
  BY <1>1, <1>2, <1>3, <1>4 DEF Running, IsUnderway, TypesOK
<1>6. dir \in SourceDirs
  BY <1>1, ScriptFacts
<1>7. Dir(c)' = dir
  <2>1. body'[c] = 0
    BY <1>1, <1>4 DEF EnterDir, TypesOK
  <2> QED BY <2>1 DEF Dir
<1>8. /\ PathOK' /\ body' \in [Compiles -> Nat] /\ body'[c] = 0
      /\ added' \in [Compiles -> BOOLEAN]
      /\ dirs' \in [Compiles -> SUBSET SourceDirs] /\ dirs'[c] = dirs[c] \cup {dir}
      /\ DOMAIN todo' = Compiles
  <2> HIDE DEF dir
  <2> QED BY <1>1, <1>3, <1>4, <1>5, <1>6, <1>7, Entered
<1>9. TypesOK'
  BY <1>1, <1>4, <1>8 DEF TypesOK, Phases, Start
<1>10. ASSUME NEW x \in Compiles PROVE BodyOK(x)'
  <2>1. CASE x = c
    BY <1>1, <1>4, <1>7, <1>8, <2>1 DEF BodyOK, TypesOK
  <2>2. CASE x # c
    <3>1. phase'[x] \notin {"load", "between", "trace"}
      BY <1>5, <2>2 DEF IsUnderway
    <3> QED BY <3>1 DEF BodyOK, Running
  <2> QED BY <2>1, <2>2
<1>11. OneUnderway'
  BY <1>5 DEF OneUnderway
<1>12. HeldOK'
  <2>1. \A name \in DOMAIN modules : OfProcess(name)
    BY <1>1, <1>2 DEF HeldOK
  <2>2. modules' = Reimport(modules, dir)
    BY DEF Start
  <2>3. \A name \in DOMAIN modules' : name \in DOMAIN modules /\ modules'[name] = modules[name]
    <3> DEFINE left == Reimport(modules, dir)
    <3>1. \A name \in DOMAIN left : name \in DOMAIN modules /\ left[name] = modules[name]
      BY ReimportFacts, Zenon
    <3> HIDE DEF left
    <3>2. modules' = left
      BY <2>2 DEF left
    <3> QED BY <3>1, <3>2, Zenon
  <2>4. \A name \in DOMAIN modules' : OfProcess(name)'
    BY <2>1, <2>3 DEF OfProcess
  <2> QED BY <2>4 DEF HeldOK
<1> QED BY <1>8, <1>9, <1>10, <1>11, <1>12 DEF PathInv

(* An import adds modules, which lie on the path or beside the script.       *)
LEMMA PathImport ==
  ASSUME PathInv, UNCHANGED job, NEW c \in Compiles, ImportNext(c)
  PROVE  PathInv'
<1> DEFINE name == Head(todo[c])
           dir == Import(name, modules, path)
<1>1. TypesOK /\ (\A x \in Compiles : BodyOK(x)) /\ OneUnderway /\ PathOK /\ HeldOK
  BY DEF PathInv
<1>2. /\ Running(c) /\ IsUnderway(c)
      /\ modules' = With(modules, name, dir)
      /\ failed' = [failed EXCEPT ![c] = dir = Nowhere]
      /\ DOMAIN alone' = DOMAIN alone
      /\ agrees' = [agrees EXCEPT ![c] = @ /\ dir = Import(name, alone[c],
             IF Contains(BasePath, Dir(c)) THEN BasePath ELSE <<Dir(c)>> \o BasePath)]
      /\ DOMAIN todo' = DOMAIN todo
      /\ UNCHANGED <<path, phase, body, added, dirs, root>>
  BY DEF ImportNext, Running, IsUnderway
<1> HIDE DEF name, dir
<1>3. TypesOK'
  BY <1>1, <1>2 DEF TypesOK
<1>4. /\ \A x \in Compiles : (Running(x)' <=> Running(x)) /\ (IsUnderway(x)' <=> IsUnderway(x))
      /\ \A x \in Compiles : Dir(x)' = Dir(x)
  BY <1>2 DEF Running, IsUnderway, Dir
<1>5. (\A x \in Compiles : BodyOK(x)') /\ OneUnderway' /\ PathOK'
  <2>1. \A x \in Compiles : BodyOK(x)'
    BY <1>1, <1>2, <1>4 DEF BodyOK
  <2>2. OneUnderway'
    BY <1>1, <1>4 DEF OneUnderway
  <2>3. PathOK'
    BY <1>1, <1>2, <1>4 DEF PathOK
  <2> QED BY <2>1, <2>2, <2>3
<1>6. HeldOK'
  <2>1. Dir(c) \in dirs[c] /\ Dir(c) \in SourceDirs /\ path = Entries(Dir(c))
    BY <1>1, <1>2 DEF BodyOK, TypesOK, PathOK
  <2> DEFINE after == With(modules, name, dir)
  <2>0. modules' = after
    BY <1>2
  <2>4. /\ DOMAIN after = DOMAIN modules \cup (IF dir = Nowhere THEN {} ELSE {name})
        /\ \A x \in DOMAIN modules \ {name} : after[x] = modules[x]
        /\ dir # Nowhere => after[name] = dir
        /\ dir = Nowhere => after = modules
    BY WithFacts, Zenon
  <2> HIDE DEF after
  <2>2. CASE name \in DOMAIN modules
    <3>1. dir = modules[name]
      BY <2>2 DEF dir, Import
    <3>2. DOMAIN modules' = DOMAIN modules /\ \A x \in DOMAIN modules : modules'[x] = modules[x]
      BY <2>0, <2>2, <2>4, <3>1
    <3> QED BY <1>1, <1>2, <1>4, <3>2 DEF HeldOK, OfProcess
  <2>3. CASE name \notin DOMAIN modules
    <3>1. dir = Search(name, BasePath) \/ Within(dir, Dir(c))
      BY <2>1, <2>3, FoundOnPath DEF dir, Import
    <3>2. ASSUME NEW x \in DOMAIN modules'
          PROVE  OfProcess(x)' \/ \E d \in dirs[c] : Within(modules'[x], d)
      <4>1. CASE x = name
        <5>1. dir # Nowhere
          BY <2>0, <2>3, <2>4, <3>2, <4>1
        <5>2. modules'[x] = dir
          BY <2>0, <2>4, <4>1, <5>1
        <5> QED BY <2>1, <3>1, <4>1, <5>2 DEF OfProcess
      <4>2. CASE x # name
        <5>1. x \in DOMAIN modules /\ modules'[x] = modules[x]
          BY <2>0, <2>4, <3>2, <4>2
        <5> QED BY <1>1, <1>2, <5>1 DEF HeldOK, OfProcess
      <4> QED BY <4>1, <4>2
    <3> QED BY <1>1, <1>2, <1>4, <3>2 DEF HeldOK, OneUnderway
  <2> QED BY <2>2, <2>3
<1> QED BY <1>3, <1>5, <1>6 DEF PathInv

(* The steps after a body: nothing is run any more.                          *)
LEMMA PathLeave ==
  ASSUME PathInv, UNCHANGED <<job, modules, body, dirs>>, NEW c \in Compiles, Running(c),
         NEW to \in {"between", "purge"}, phase' = [phase EXCEPT ![c] = to],
         to = "between" => body[c] < Len(job[c].traces),
         path' = Restored(c), added' = [added EXCEPT ![c] = FALSE],
         DOMAIN todo' = Compiles, DOMAIN root' = Compiles, DOMAIN alone' = Compiles,
         failed' \in [Compiles -> BOOLEAN], UNCHANGED agrees
  PROVE  PathInv'
<1>1. TypesOK /\ (\A x \in Compiles : BodyOK(x)) /\ OneUnderway /\ PathOK /\ HeldOK
  BY DEF PathInv
<1>2. path' = BasePath
  BY PathLeft
<1>3. /\ phase' \in [Compiles -> Phases] /\ phase'[c] = to
      /\ \A x \in Compiles : x # c => phase'[x] = phase[x]
  BY <1>1 DEF TypesOK, Phases
<1>4. /\ \A x \in Compiles : IsUnderway(x)' <=> IsUnderway(x)
      /\ \A x \in Compiles : x # c => ~Running(x)
  BY <1>1, <1>3 DEF IsUnderway, Running, OneUnderway
<1>5. \A x \in Compiles : ~Running(x)'
  BY <1>3, <1>4 DEF Running
<1>6. TypesOK'
  BY <1>1, <1>3 DEF TypesOK
<1>7. (\A x \in Compiles : BodyOK(x)') /\ OneUnderway'
  <2>1. ASSUME NEW x \in Compiles PROVE BodyOK(x)'
    BY <1>1, <1>3, <1>5 DEF BodyOK, Running
  <2> QED BY <1>1, <1>4, <2>1 DEF OneUnderway
<1>8. PathOK'
  BY <1>2, <1>5 DEF PathOK
<1>9. HeldOK'
  BY <1>1, <1>4 DEF HeldOK, OfProcess
<1> QED BY <1>6, <1>7, <1>8, <1>9 DEF PathInv

(* When a pipeline has been selected, or none, the path is as it was.        *)
LEMMA PathSelect ==
  ASSUME PathInv, UNCHANGED job, NEW c \in Compiles, Select(c)
  PROVE  PathInv'
<1> DEFINE chosen == IF failed[c] \/ job[c].raises THEN NoPipeline ELSE Selected(job[c])
           to == IF chosen = NoPipeline THEN "purge" ELSE "between"
<1>1. TypesOK /\ BodyOK(c)
  BY DEF PathInv
<1>2. /\ phase[c] = "load" /\ phase' = [phase EXCEPT ![c] = to] /\ to \in {"between", "purge"}
      /\ path' = Restored(c) /\ added' = [added EXCEPT ![c] = FALSE]
      /\ root' = [root EXCEPT ![c] = chosen] /\ failed' = [failed EXCEPT ![c] = chosen = NoPipeline]
      /\ todo' = [todo EXCEPT ![c] = <<>>]
      /\ UNCHANGED <<modules, body, dirs, alone, agrees>>
  BY DEF Select, Goes
<1> HIDE DEF to, chosen
<1>3. Running(c) /\ body[c] < Len(job[c].traces)
  <2>1. body[c] = 0
    BY <1>1, <1>2 DEF BodyOK
  <2>2. Len(job[c].traces) \in Nat \ {0}
    BY <1>1, ScriptFacts
  <2> QED BY <1>2, <2>1, <2>2 DEF Running
<1>4. /\ DOMAIN todo' = Compiles /\ DOMAIN root' = Compiles /\ DOMAIN alone' = Compiles
      /\ failed' \in [Compiles -> BOOLEAN]
  BY <1>1, <1>2 DEF TypesOK
<1> QED BY <1>2, <1>3, <1>4, PathLeave

(* A traced body takes its directory off again.                              *)
LEMMA PathLeaveTrace ==
  ASSUME PathInv, UNCHANGED job, NEW c \in Compiles, LeaveTrace(c)
  PROVE  PathInv'
<1> DEFINE to == IF failed[c] \/ body[c] = Len(job[c].traces) THEN "purge" ELSE "between"
<1>1. TypesOK /\ BodyOK(c)
  BY DEF PathInv
<1>2. /\ phase[c] = "trace" /\ phase' = [phase EXCEPT ![c] = to] /\ to \in {"between", "purge"}
      /\ path' = Restored(c) /\ added' = [added EXCEPT ![c] = FALSE]
      /\ todo' = [todo EXCEPT ![c] = <<>>]
      /\ UNCHANGED <<modules, body, dirs, root, failed, alone, agrees>>
  BY DEF LeaveTrace, Goes
<1>3. to = "between" => body[c] < Len(job[c].traces)
  <2>1. body[c] \in 1..Len(job[c].traces)
    BY <1>1, <1>2 DEF BodyOK
  <2>2. Len(job[c].traces) \in Nat
    BY <1>1, ScriptFacts
  <2> QED BY <2>1, <2>2
<1> HIDE DEF to
<1>4. /\ DOMAIN todo' = Compiles /\ DOMAIN root' = Compiles /\ DOMAIN alone' = Compiles
      /\ failed' \in [Compiles -> BOOLEAN] /\ Running(c)
  BY <1>1, <1>2 DEF TypesOK, Running
<1> QED BY <1>2, <1>3, <1>4, PathLeave
(* A traced body puts the directory of its pipeline first.                   *)
LEMMA PathTrace ==
  ASSUME PathInv, UNCHANGED job, NEW c \in Compiles, Trace(c)
  PROVE  PathInv'
<1> DEFINE next == body[c] + 1
           dir == job[c].traces[next].dir
           imports == job[c].traces[next].imports
<1>1. TypesOK /\ (\A x \in Compiles : BodyOK(x)) /\ OneUnderway /\ PathOK /\ HeldOK
  BY DEF PathInv
<1>2. /\ phase[c] = "between" /\ phase' = [phase EXCEPT ![c] = "trace"]
      /\ EnterDir(c, next, dir, imports) /\ modules' = Reimport(modules, Dir(c)')
      /\ alone' = [alone EXCEPT ![c] = Reimport(@, Dir(c)')]
      /\ UNCHANGED <<root, failed, agrees>>
  BY DEF Trace, Goes
<1>3. next \in 1..Len(job[c].traces) /\ next # 0 /\ next \in Nat
  <2>1. body[c] \in Nat /\ body[c] < Len(job[c].traces) /\ Len(job[c].traces) \in Nat
    BY <1>1, <1>2, ScriptFacts DEF BodyOK, TypesOK
  <2> QED BY <2>1
<1>4. dir \in SourceDirs
  <2> HIDE DEF next
  <2> QED BY <1>1, <1>3, ScriptFacts
<1>5. IsUnderway(c) /\ \A x \in Compiles : x # c => ~IsUnderway(x)
  BY <1>1, <1>2 DEF IsUnderway, OneUnderway
<1>6. \A x \in Compiles : ~Running(x)
  BY <1>2, <1>5 DEF IsUnderway, Running
<1>7. /\ Running(c)' /\ IsUnderway(c)'
      /\ \A x \in Compiles : x # c => ~Running(x)' /\ ~IsUnderway(x)'
  BY <1>1, <1>2, <1>5, <1>6 DEF Running, IsUnderway, TypesOK
<1>8. Dir(c)' = dir
  <2>1. body'[c] = next
    BY <1>1, <1>2 DEF EnterDir, TypesOK
  <2> QED BY <1>3, <2>1 DEF Dir
<1> HIDE DEF imports, dir, next
<1>9. /\ PathOK' /\ body' \in [Compiles -> Nat] /\ body'[c] = next
      /\ \A x \in Compiles : x # c => body'[x] = body[x]
      /\ added' \in [Compiles -> BOOLEAN]
      /\ dirs' \in [Compiles -> SUBSET SourceDirs] /\ dirs'[c] = dirs[c] \cup {dir}
      /\ DOMAIN todo' = Compiles
  BY <1>1, <1>2, <1>3, <1>4, <1>6, <1>7, <1>8, Entered
<1>10. TypesOK'
  BY <1>1, <1>2, <1>9 DEF TypesOK, Phases
<1>11. ASSUME NEW x \in Compiles PROVE BodyOK(x)'
  <2>1. CASE x = c
    BY <1>1, <1>2, <1>3, <1>8, <1>9, <2>1 DEF BodyOK, TypesOK
  <2>2. CASE x # c
    <3>1. phase'[x] \notin {"load", "between", "trace"}
      BY <1>7, <2>2 DEF IsUnderway
    <3> QED BY <3>1 DEF BodyOK, Running
  <2> QED BY <2>1, <2>2
<1>12. OneUnderway'
  BY <1>7 DEF OneUnderway
<1>13. HeldOK'
  <2>1. \A name \in DOMAIN modules : OfProcess(name) \/ \E d \in dirs[c] : Within(modules[name], d)
    BY <1>1, <1>5 DEF HeldOK
  <2>2. \A name \in DOMAIN modules' : name \in DOMAIN modules /\ modules'[name] = modules[name]
    <3> DEFINE left == Reimport(modules, dir)
    <3>1. \A name \in DOMAIN left : name \in DOMAIN modules /\ left[name] = modules[name]
      BY ReimportFacts, Zenon
    <3> HIDE DEF left
    <3>2. modules' = left
      BY <1>2, <1>8 DEF left
    <3> QED BY <3>1, <3>2, Zenon
  <2>3. \A name \in DOMAIN modules' :
          OfProcess(name)' \/ \E d \in dirs'[c] : Within(modules'[name], d)
    BY <1>9, <2>1, <2>2 DEF OfProcess
  <2> QED BY <1>7, <2>3 DEF HeldOK
<1> QED BY <1>9, <1>10, <1>11, <1>12, <1>13 DEF PathInv

(* What is purged is all that the process would not find by itself.          *)
LEMMA PathPurge ==
  ASSUME PathInv, UNCHANGED job, NEW c \in Compiles, Purge(c)
  PROVE  PathInv'
<1>1. TypesOK /\ (\A x \in Compiles : BodyOK(x)) /\ OneUnderway /\ PathOK /\ HeldOK
  BY DEF PathInv
<1>2. /\ phase[c] = "purge" /\ phase' = [phase EXCEPT ![c] = "over"]
      /\ modules' = Without(modules, Purges(c))
      /\ UNCHANGED <<path, body, todo, added, dirs, root, failed, alone, agrees>>
  BY DEF Purge, Goes
<1>3. IsUnderway(c) /\ \A x \in Compiles : x # c => ~IsUnderway(x)
  BY <1>1, <1>2 DEF IsUnderway, OneUnderway
<1>4. /\ \A x \in Compiles : ~Running(x) /\ ~Running(x)' /\ ~IsUnderway(x)'
      /\ \A x \in Compiles : x # c => phase'[x] = phase[x]
      /\ phase' \in [Compiles -> Phases] /\ phase'[c] = "over"
  BY <1>1, <1>2, <1>3 DEF Running, IsUnderway, TypesOK, Phases
<1>5. TypesOK' /\ (\A x \in Compiles : BodyOK(x)') /\ OneUnderway' /\ PathOK'
  <2>1. TypesOK'
    BY <1>1, <1>2, <1>4 DEF TypesOK
  <2>2. \A x \in Compiles : BodyOK(x)'
    BY <1>1, <1>2, <1>4 DEF BodyOK
  <2>3. OneUnderway' /\ PathOK'
    BY <1>1, <1>2, <1>4 DEF OneUnderway, PathOK
  <2> QED BY <2>1, <2>2, <2>3
<1>6. HeldOK'
  <2>1. \A name \in DOMAIN modules : OfProcess(name) \/ \E d \in dirs[c] : Within(modules[name], d)
    BY <1>1, <1>3 DEF HeldOK
  <2>2. modules' = [name \in DOMAIN modules \ Purges(c) |-> modules[name]]
    BY <1>2 DEF Without, Restrict
  <2>3. ASSUME NEW name \in DOMAIN modules' PROVE OfProcess(name)'
    <3>1. name \in DOMAIN modules /\ name \notin Purges(c) /\ modules'[name] = modules[name]
      BY <2>2, <2>3
    <3>2. OfProcess(name)
      BY <2>1, <3>1 DEF Purges
    <3> QED BY <3>1, <3>2 DEF OfProcess
  <2> QED BY <1>4, <2>3 DEF HeldOK
<1> QED BY <1>5, <1>6 DEF PathInv

(* So every step keeps the path and what is held.                            *)
LEMMA PathStep ==
  ASSUME AtOnce = 1, PathInv, [ModulesStep]_modulesVars
  PROVE  PathInv'
<1>1. CASE UNCHANGED modulesVars
  <2>1. UNCHANGED <<job, modules, path, phase, body, todo, added, dirs, root, failed, alone, agrees>>
    BY <1>1 DEF modulesVars
  <2>2. TypesOK' /\ PathOK' /\ HeldOK'
    BY <2>1 DEF PathInv, TypesOK, PathOK, Running, Dir, HeldOK, IsUnderway, OfProcess
  <2>3. OneUnderway' /\ (\A c \in Compiles : BodyOK(c)')
    BY <2>1 DEF PathInv, OneUnderway, IsUnderway, BodyOK, Running, Dir
  <2> QED BY <2>2, <2>3 DEF PathInv
<1>2. ASSUME NEW c \in Compiles, UNCHANGED job,
             \/ Start(c) \/ ImportNext(c) \/ Select(c) \/ Trace(c) \/ LeaveTrace(c) \/ Purge(c)
      PROVE  PathInv'
  BY <1>2, PathStart, PathImport, PathSelect, PathTrace, PathLeaveTrace, PathPurge
<1> QED BY <1>1, <1>2 DEF ModulesStep

(* In between, sys.path is as it was and sys.modules holds only what the     *)
(* process finds there, if compilations take turns: also after one whose     *)
(* imports or whose script fail, and where scripts have packages.            *)
THEOREM NothingIsLeft ==
  ASSUME AtOnce = 1
  PROVE  ModulesSpec => []NothingLeft
<1>1. PathInv => NothingLeft
  <2> SUFFICES ASSUME PathInv, \A c \in Compiles : phase[c] \in {"waiting", "over"}
               PROVE  path = BasePath /\ \A name \in DOMAIN modules : modules[name] = Search(name, BasePath)
    BY DEF NothingLeft
  <2>1. \A c \in Compiles : ~Running(c) /\ ~IsUnderway(c)
    BY DEF Running, IsUnderway
  <2> QED BY <2>1 DEF PathInv, PathOK, HeldOK, OfProcess
<1>2. PathInv /\ [ModulesStep]_modulesVars => PathInv'
  BY PathStep
<1> QED BY <1>1, <1>2, PathInit, PTL DEF ModulesSpec
-----------------------------------------------------------------------------
(* What a compilation sees. *)

(* Evicted from both: what is there on its own stays the same.               *)
LEMMA AloneReimport ==
  ASSUME PlainModules, NEW cached, NEW own, NEW dir \in SourceDirs,
         \A name \in DOMAIN own : name \in DOMAIN cached /\ cached[name] = own[name]
  PROVE  LET after == Reimport(cached, dir)
             its == Reimport(own, dir)
         IN /\ \A name \in DOMAIN its : name \in DOMAIN after /\ after[name] = its[name]
            /\ \A name \in DOMAIN after \ DOMAIN its :
                 name \in DOMAIN cached \ DOMAIN own /\ after[name] = cached[name]
            /\ ~Contains(BasePath, dir) =>
                 \A name \in DOMAIN after : Found(name, dir) = {} \/ after[name] = dir
<1> DEFINE after == Reimport(cached, dir)
           its == Reimport(own, dir)
<1>1. /\ DOMAIN after = DOMAIN cached \ Evicts(cached, dir)
      /\ DOMAIN its = DOMAIN own \ Evicts(own, dir)
      /\ \A name \in DOMAIN after : after[name] = cached[name]
      /\ \A name \in DOMAIN its : its[name] = own[name]
  BY ReimportFacts
<1> HIDE DEF after, its
<1>2. \A name \in DOMAIN own : name \in Evicts(own, dir) <=> name \in Evicts(cached, dir)
  BY DEF Evicts
<1>3. \A name \in DOMAIN its : name \in DOMAIN after /\ after[name] = its[name]
  BY <1>1, <1>2
<1>4. \A name \in DOMAIN after \ DOMAIN its :
        name \in DOMAIN cached \ DOMAIN own /\ after[name] = cached[name]
  BY <1>1, <1>2
<1>5. ASSUME ~Contains(BasePath, dir), NEW name \in DOMAIN after, Found(name, dir) # {}
      PROVE  after[name] = dir
  <2>1. \E m \in Found(name, dir) : m.in = dir
    BY <1>5, FoundBeside
  <2> QED BY <1>1, <1>5, <2>1 DEF Evicts
<1> QED BY <1>3, <1>4, <1>5 DEF after, its

(* The same is imported.                                                     *)
LEMMA SameImport ==
  ASSUME PlainModules, NEW cached, NEW own, NEW dir \in SourceDirs, NEW name,
         \A x \in DOMAIN own : x \in DOMAIN cached /\ cached[x] = own[x],
         \A x \in DOMAIN cached \ DOMAIN own : cached[x] = Search(x, BasePath),
         ~Contains(BasePath, dir) => \A x \in DOMAIN cached : Found(x, dir) = {} \/ cached[x] = dir
  PROVE  Import(name, cached, Entries(dir)) = Import(name, own, Entries(dir))
<1>1. CASE name \in DOMAIN own \/ name \notin DOMAIN cached
  BY <1>1 DEF Import
<1>2. CASE name \in DOMAIN cached \ DOMAIN own
  <2>1. Import(name, cached, Entries(dir)) = Search(name, BasePath)
    BY <1>2 DEF Import
  <2>2. Import(name, own, Entries(dir)) = Search(name, Entries(dir))
    BY <1>2 DEF Import
  <2>3. CASE Contains(BasePath, dir)
    BY <2>1, <2>2, <2>3 DEF Entries
  <2>4. CASE ~Contains(BasePath, dir)
    <3>1. Search(name, Entries(dir)) = IF Found(name, dir) = {} THEN Search(name, BasePath) ELSE dir
      BY <2>4, FoundBeside
    <3>2. Found(name, dir) # {} => cached[name] = dir
      BY <1>2, <2>4
    <3> QED BY <1>2, <2>1, <2>2, <3>1, <3>2
  <2> QED BY <2>3, <2>4
<1> QED BY <1>1, <1>2

(* No compilation has imported anything.                                     *)
LEMMA AloneInit == ModulesInit => AloneInv
<1> SUFFICES ASSUME ModulesInit, NEW c \in Compiles PROVE AloneOK(c) /\ agrees[c]
  BY DEF AloneInv
<1>1. phase[c] = "waiting" /\ alone[c] = <<>> /\ agrees[c]
  BY DEF ModulesInit
<1>2. DOMAIN alone[c] = {}
  BY <1>1
<1> QED BY <1>1, <1>2 DEF AloneOK, IsUnderway, Running

(* What is left after the eviction is what the process finds by itself.      *)
LEMMA AloneStart ==
  ASSUME AtOnce = 1, PlainModules, PathInv, AloneInv, UNCHANGED job, NEW c \in Compiles, Start(c),
         NEW x \in Compiles
  PROVE  AloneOK(x)' /\ agrees'[x]
<1> DEFINE dir == job[c].dir
           after == Reimport(modules, dir)
           its == Reimport(alone[c], dir)
<1>1. TypesOK /\ HeldOK
  BY DEF PathInv
<1>2. \A y \in Compiles : ~IsUnderway(y)
  BY <1>1, NoneUnderway
<1>3. /\ phase[c] = "waiting" /\ phase' = [phase EXCEPT ![c] = "load"]
      /\ modules' = after /\ EnterDir(c, 0, dir, job[c].imports) /\ UNCHANGED <<alone, agrees>>
  BY DEF Start, Goes
<1>4. dir \in SourceDirs
  BY <1>1, ScriptFacts
<1>5. AloneOK(x) /\ agrees[x] /\ AloneOK(c)
  BY DEF AloneInv
<1>6. CASE x # c
  <2>1. phase'[x] = phase[x]
    BY <1>1, <1>3, <1>6 DEF TypesOK
  <2>2. ~IsUnderway(x)' /\ ~Running(x)'
    BY <1>2, <2>1 DEF IsUnderway, Running
  <2> QED BY <1>3, <1>5, <2>1, <2>2 DEF AloneOK
<1>7. CASE x = c
  <2>1. DOMAIN alone[c] = {}
    BY <1>3, <1>5 DEF AloneOK
  <2>2. \A name \in DOMAIN alone[c] : name \in DOMAIN modules /\ modules[name] = alone[c][name]
    BY <2>1
  <2> HIDE DEF dir
  <2>3. /\ \A name \in DOMAIN after \ DOMAIN its :
             name \in DOMAIN modules \ DOMAIN alone[c] /\ after[name] = modules[name]
        /\ ~Contains(BasePath, dir) =>
             \A name \in DOMAIN after : Found(name, dir) = {} \/ after[name] = dir
    BY <1>4, <2>2, AloneReimport
  <2>4. DOMAIN its = {}
    BY <2>1, ReimportFacts
  <2> HIDE DEF after, its
  <2>5. Dir(c)' = dir
    <3>1. body'[c] = 0
      BY <1>1, <1>3 DEF EnterDir, TypesOK
    <3> QED BY <3>1 DEF Dir, dir
  <2>6. \A name \in DOMAIN modules : OfProcess(name)
    BY <1>1, <1>2 DEF HeldOK
  <2>7. \A name \in DOMAIN modules' : OfProcess(name)'
    BY <1>3, <2>3, <2>4, <2>6 DEF OfProcess
  <2>8. phase'[c] # "waiting"
    BY <1>1, <1>3 DEF TypesOK
  <2>9. ~Contains(BasePath, Dir(c)') =>
          \A name \in DOMAIN modules' : Found(name, Dir(c)') = {} \/ modules'[name] = Dir(c)'
    BY <1>3, <2>3, <2>5
  <2>10. DOMAIN alone'[c] = {}
    BY <1>3, <2>1
  <2> QED BY <1>3, <1>5, <1>7, <2>7, <2>8, <2>9, <2>10 DEF AloneOK
<1> QED BY <1>6, <1>7
(* An import finds what it would find alone, and is remembered as that.      *)
LEMMA AloneImport ==
  ASSUME PlainModules, PathInv, AloneInv, UNCHANGED job, NEW c \in Compiles, ImportNext(c),
         NEW x \in Compiles
  PROVE  AloneOK(x)' /\ agrees'[x]
<1> DEFINE name == Head(todo[c])
           dir == Import(name, modules, path)
           its == Import(name, alone[c], Entries(Dir(c)))
           after == With(modules, name, dir)
           own == With(alone[c], name, its)
<1>1. TypesOK /\ BodyOK(c) /\ OneUnderway /\ PathOK
  BY DEF PathInv
<1>2. /\ Running(c) /\ IsUnderway(c) /\ phase[c] # "waiting"
      /\ modules' = after /\ alone' = [alone EXCEPT ![c] = own]
      /\ agrees' = [agrees EXCEPT ![c] = @ /\ dir = its]
      /\ UNCHANGED <<phase, body>>
  BY DEF ImportNext, Running, IsUnderway, Entries
<1>3. AloneOK(x) /\ agrees[x] /\ AloneOK(c)
  BY DEF AloneInv
<1>4. /\ \A y \in Compiles : (Running(y)' <=> Running(y)) /\ (IsUnderway(y)' <=> IsUnderway(y))
      /\ \A y \in Compiles : Dir(y)' = Dir(y)
  BY <1>2 DEF Running, IsUnderway, Dir
<1> HIDE DEF name, dir, its, after, own
<1>5. CASE x # c
  <2>1. ~IsUnderway(x) /\ ~Running(x)
    BY <1>1, <1>2, <1>5 DEF OneUnderway, IsUnderway, Running
  <2>2. alone'[x] = alone[x] /\ agrees'[x] = agrees[x]
    BY <1>1, <1>2, <1>5 DEF TypesOK
  <2> QED BY <1>2, <1>3, <1>4, <2>1, <2>2 DEF AloneOK
<1>6. CASE x = c
  <2>1. Dir(c) \in SourceDirs /\ path = Entries(Dir(c))
    BY <1>1, <1>2 DEF BodyOK, TypesOK, PathOK
  <2>2. /\ \A y \in DOMAIN alone[c] : y \in DOMAIN modules /\ modules[y] = alone[c][y]
        /\ \A y \in DOMAIN modules \ DOMAIN alone[c] : modules[y] = Search(y, BasePath)
        /\ ~Contains(BasePath, Dir(c)) => \A y \in DOMAIN modules : Found(y, Dir(c)) = {} \/ modules[y] = Dir(c)
    BY <1>2, <1>3 DEF AloneOK, OfProcess
  <2>3. dir = its
    <3> DEFINE cached == modules
               mine == alone[c]
               there == Dir(c)
    <3>1. /\ there \in SourceDirs
          /\ \A y \in DOMAIN mine : y \in DOMAIN cached /\ cached[y] = mine[y]
          /\ \A y \in DOMAIN cached \ DOMAIN mine : cached[y] = Search(y, BasePath)
          /\ ~Contains(BasePath, there) => \A y \in DOMAIN cached : Found(y, there) = {} \/ cached[y] = there
      BY <2>1, <2>2
    <3> HIDE DEF cached, mine, there
    <3>2. Import(name, cached, Entries(there)) = Import(name, mine, Entries(there))
      BY <3>1, SameImport
    <3> QED BY <2>1, <3>2 DEF dir, its, cached, mine, there
  <2>4. agrees'[c] /\ alone'[c] = own
    BY <1>1, <1>2, <1>3, <1>6, <2>3 DEF TypesOK
  <2>5. /\ DOMAIN after = DOMAIN modules \cup (IF dir = Nowhere THEN {} ELSE {name})
        /\ \A y \in DOMAIN modules \ {name} : after[y] = modules[y]
        /\ dir # Nowhere => after[name] = dir
        /\ dir = Nowhere => after = modules
    BY WithFacts, Zenon DEF after
  <2>6. /\ DOMAIN own = DOMAIN alone[c] \cup (IF dir = Nowhere THEN {} ELSE {name})
        /\ \A y \in DOMAIN alone[c] \ {name} : own[y] = alone[c][y]
        /\ dir # Nowhere => own[name] = dir
        /\ dir = Nowhere => own = alone[c]
    <3> DEFINE mine == alone[c]
    <3> HIDE DEF mine
    <3>1. /\ DOMAIN With(mine, name, dir) = DOMAIN mine \cup (IF dir = Nowhere THEN {} ELSE {name})
          /\ \A y \in DOMAIN mine \ {name} : With(mine, name, dir)[y] = mine[y]
          /\ dir # Nowhere => With(mine, name, dir)[name] = dir
          /\ dir = Nowhere => With(mine, name, dir) = mine
      BY WithFacts, Zenon
    <3>2. own = With(mine, name, dir)
      BY <2>3 DEF own, mine
    <3> QED BY <3>1, <3>2 DEF mine
  <2>7. /\ \A y \in DOMAIN own : y \in DOMAIN after /\ after[y] = own[y]
        /\ \A y \in DOMAIN after \ DOMAIN own : after[y] = Search(y, BasePath)
    BY <2>2, <2>5, <2>6
  <2>8. ASSUME ~Contains(BasePath, Dir(c)), NEW y \in DOMAIN after, Found(y, Dir(c)) # {}
        PROVE  after[y] = Dir(c)
    <3>1. CASE y \in DOMAIN modules /\ y # name
      BY <2>2, <2>5, <2>8, <3>1
    <3>2. CASE y = name /\ name \in DOMAIN modules
      <4>1. dir = modules[name]
        BY <3>2 DEF dir, Import
      <4> QED BY <2>2, <2>5, <2>8, <3>2, <4>1
    <3>3. CASE y = name /\ name \notin DOMAIN modules
      <4>1. dir = Search(name, Entries(Dir(c)))
        BY <2>1, <3>3 DEF dir, Import
      <4>2. dir = Dir(c)
        BY <2>1, <2>8, <3>3, <4>1, FoundBeside
      <4>3. dir # Nowhere
        BY <2>5, <2>8, <3>3
      <4> QED BY <2>5, <3>3, <4>2, <4>3
    <3> QED BY <2>5, <2>8, <3>1, <3>2, <3>3
  <2> QED BY <1>2, <1>4, <1>6, <2>4, <2>7, <2>8 DEF AloneOK, OfProcess
<1> QED BY <1>5, <1>6

(* A traced body begins with the modules of its own compilation.             *)
LEMMA AloneTrace ==
  ASSUME PlainModules, PathInv, AloneInv, UNCHANGED job, NEW c \in Compiles, Trace(c),
         NEW x \in Compiles
  PROVE  AloneOK(x)' /\ agrees'[x]
<1> DEFINE next == body[c] + 1
           dir == job[c].traces[next].dir
           after == Reimport(modules, dir)
           own == Reimport(alone[c], dir)
<1>1. TypesOK /\ BodyOK(c) /\ OneUnderway
  BY DEF PathInv
<1>2. /\ phase[c] = "between" /\ phase' = [phase EXCEPT ![c] = "trace"]
      /\ EnterDir(c, next, dir, job[c].traces[next].imports) /\ modules' = Reimport(modules, Dir(c)')
      /\ alone' = [alone EXCEPT ![c] = Reimport(@, Dir(c)')]
      /\ UNCHANGED <<root, failed, agrees>>
  BY DEF Trace, Goes
<1>3. next \in 1..Len(job[c].traces) /\ next # 0
  <2>1. body[c] \in Nat /\ body[c] < Len(job[c].traces) /\ Len(job[c].traces) \in Nat
    BY <1>1, <1>2, ScriptFacts DEF BodyOK, TypesOK
  <2> QED BY <2>1
<1>4. dir \in SourceDirs
  <2> HIDE DEF next
  <2> QED BY <1>1, <1>3, ScriptFacts
<1>5. Dir(c)' = dir
  <2>1. body'[c] = next
    BY <1>1, <1>2 DEF EnterDir, TypesOK
  <2> QED BY <1>3, <2>1 DEF Dir
<1>6. IsUnderway(c) /\ \A y \in Compiles : y # c => ~IsUnderway(y)
  BY <1>1, <1>2 DEF IsUnderway, OneUnderway
<1>7. AloneOK(x) /\ agrees[x] /\ AloneOK(c) /\ agrees'[x]
  BY <1>2 DEF AloneInv
<1>8. modules' = after /\ alone' = [alone EXCEPT ![c] = own]
  BY <1>2, <1>5
<1> HIDE DEF next, dir, after, own
<1>9. CASE x # c
  <2>1. phase'[x] = phase[x] /\ alone'[x] = alone[x]
    BY <1>1, <1>2, <1>8, <1>9 DEF TypesOK
  <2>2. ~IsUnderway(x)' /\ ~Running(x)'
    BY <1>6, <1>9, <2>1 DEF IsUnderway, Running
  <2> QED BY <1>7, <2>1, <2>2 DEF AloneOK
<1>10. CASE x = c
  <2>1. alone'[c] = own /\ phase'[c] = "trace"
    BY <1>1, <1>2, <1>8 DEF TypesOK
  <2>2. /\ \A y \in DOMAIN alone[c] : y \in DOMAIN modules /\ modules[y] = alone[c][y]
        /\ \A y \in DOMAIN modules \ DOMAIN alone[c] : modules[y] = Search(y, BasePath)
    BY <1>6, <1>7 DEF AloneOK, OfProcess
  <2>3. /\ \A y \in DOMAIN own : y \in DOMAIN after /\ after[y] = own[y]
        /\ \A y \in DOMAIN after \ DOMAIN own :
             y \in DOMAIN modules \ DOMAIN alone[c] /\ after[y] = modules[y]
        /\ ~Contains(BasePath, dir) =>
             \A y \in DOMAIN after : Found(y, dir) = {} \/ after[y] = dir
    <3> DEFINE cached == modules
               mine == alone[c]
    <3>1. \A y \in DOMAIN mine : y \in DOMAIN cached /\ cached[y] = mine[y]
      BY <2>2
    <3> HIDE DEF cached, mine
    <3>2. LET l == Reimport(cached, dir)
              r == Reimport(mine, dir)
          IN /\ \A y \in DOMAIN r : y \in DOMAIN l /\ l[y] = r[y]
             /\ \A y \in DOMAIN l \ DOMAIN r : y \in DOMAIN cached \ DOMAIN mine /\ l[y] = cached[y]
             /\ ~Contains(BasePath, dir) => \A y \in DOMAIN l : Found(y, dir) = {} \/ l[y] = dir
      BY <1>4, <3>1, AloneReimport
    <3> QED BY <3>2 DEF after, own, cached, mine
  <2>4. \A y \in DOMAIN after \ DOMAIN own : after[y] = Search(y, BasePath)
    BY <2>2, <2>3
  <2>5. /\ \A y \in DOMAIN alone'[c] : y \in DOMAIN modules' /\ modules'[y] = alone'[c][y]
        /\ \A y \in DOMAIN modules' \ DOMAIN alone'[c] : OfProcess(y)'
    BY <1>8, <2>1, <2>3, <2>4 DEF OfProcess
  <2>6. ~Contains(BasePath, Dir(c)') =>
          \A y \in DOMAIN modules' : Found(y, Dir(c)') = {} \/ modules'[y] = Dir(c)'
    BY <1>5, <1>8, <2>3
  <2> QED BY <1>7, <1>10, <2>1, <2>5, <2>6 DEF AloneOK
<1> QED BY <1>9, <1>10

(* Nothing else concerns what a compilation sees.                            *)
LEMMA AloneOther ==
  ASSUME PathInv, AloneInv, UNCHANGED <<job, alone, agrees>>, NEW c \in Compiles,
         \/ (Select(c) \/ LeaveTrace(c)) /\ UNCHANGED modules
         \/ Purge(c)
         \/ UNCHANGED <<modules, phase, body>>,
         NEW x \in Compiles
  PROVE  AloneOK(x)' /\ agrees'[x]
<1>1. TypesOK /\ OneUnderway /\ AloneOK(x) /\ agrees[x]
  BY DEF PathInv, AloneInv
<1>2. CASE UNCHANGED <<modules, phase, body>>
  BY <1>1, <1>2 DEF AloneOK, IsUnderway, Running, Dir, OfProcess
<1>3. CASE (Select(c) \/ LeaveTrace(c)) /\ UNCHANGED modules
  <2>1. PICK to \in {"between", "purge"} : phase' = [phase EXCEPT ![c] = to]
    BY <1>3 DEF Select, LeaveTrace, Goes
  <2>2. Running(c) /\ UNCHANGED body
    BY <1>3 DEF Select, LeaveTrace, Running
  <2>3. phase'[c] = to /\ (x # c => phase'[x] = phase[x])
    BY <1>1, <2>1 DEF TypesOK
  <2>4. CASE x = c
    BY <1>1, <1>3, <2>2, <2>3, <2>4 DEF AloneOK, Running, IsUnderway, OfProcess
  <2>5. CASE x # c
    BY <1>1, <1>3, <2>2, <2>3, <2>5 DEF AloneOK, Running, IsUnderway, OfProcess, Dir
  <2> QED BY <2>4, <2>5
<1>4. CASE Purge(c)
  <2>1. phase[c] = "purge" /\ phase' = [phase EXCEPT ![c] = "over"]
    BY <1>4 DEF Purge, Goes
  <2>2. ~IsUnderway(x)' /\ ~Running(x)' /\ (phase'[x] = "waiting" => phase[x] = "waiting")
    BY <1>1, <2>1 DEF OneUnderway, IsUnderway, Running, TypesOK
  <2> QED BY <1>1, <2>2 DEF AloneOK
<1> QED BY <1>2, <1>3, <1>4

(* So every step keeps what is imported to that of a process alone.          *)
LEMMA AloneStep ==
  ASSUME AtOnce = 1, PlainModules, PathInv, AloneInv, [ModulesStep]_modulesVars
  PROVE  AloneInv'
<1> SUFFICES ASSUME NEW x \in Compiles PROVE AloneOK(x)' /\ agrees'[x]
  BY DEF AloneInv
<1>1. CASE UNCHANGED modulesVars
  <2>1. UNCHANGED <<job, alone, agrees, modules, phase, body>>
    BY <1>1 DEF modulesVars
  <2> QED BY <2>1, AloneOther
<1>2. ASSUME NEW c \in Compiles, UNCHANGED job,
             \/ Start(c) \/ ImportNext(c) \/ Select(c) \/ Trace(c) \/ LeaveTrace(c) \/ Purge(c)
      PROVE  AloneOK(x)' /\ agrees'[x]
  <2>1. CASE Start(c)
    BY <1>2, <2>1, AloneStart
  <2>2. CASE ImportNext(c)
    BY <1>2, <2>2, AloneImport
  <2>3. CASE Trace(c)
    BY <1>2, <2>3, AloneTrace
  <2>4. CASE Select(c) \/ LeaveTrace(c)
    <3>1. UNCHANGED <<alone, agrees, modules>>
      BY <2>4 DEF Select, LeaveTrace
    <3> QED BY <1>2, <2>4, <3>1, AloneOther
  <2>5. CASE Purge(c)
    <3>1. UNCHANGED <<alone, agrees>>
      BY <2>5 DEF Purge
    <3> QED BY <1>2, <2>5, <3>1, AloneOther
  <2> QED BY <1>2, <2>1, <2>2, <2>3, <2>4, <2>5
<1> QED BY <1>1, <1>2 DEF ModulesStep
-----------------------------------------------------------------------------
(* What is compiled. *)

(* A pipeline is the only one of its candidates.                             *)
LEMMA SingleIs ==
  ASSUME NEW script, NEW candidates, Single(script, candidates) # NoPipeline
  PROVE  \E i \in candidates : candidates = {i} /\ Single(script, candidates) = script.pipelines[i]
<1>1. PICK i \in candidates : candidates = {i}
  BY DEF Single
<1>2. (CHOOSE k \in candidates : TRUE) = i
  BY <1>1
<1> QED BY <1>1, <1>2 DEF Single

(* The one selected is offered, answers to what is asked for, and does so    *)
(* better than any other.                                                    *)
LEMMA SelectedIsTheOne ==
  ASSUME NEW script \in Scripts, Selected(script) # NoPipeline
  PROVE  LET offered == {p \in ToSet(script.pipelines) : p.source # "elsewhere"}
             one == Selected(script)
             wanted == script.wanted
         IN /\ one \in offered /\ Answers(one, wanted)
            /\ \A p \in offered \ {one} :
                 \/ ~Answers(p, wanted)
                 \/ wanted # "" /\ one.function = wanted /\ p.function # wanted
                 \/ wanted = "" /\ one.source = "here" /\ p.source = "unknown"
<1> DEFINE ps == script.pipelines
           wanted == script.wanted
           one == Selected(script)
           offered == {p \in ToSet(ps) : p.source # "elsewhere"}
           local == {i \in DOMAIN ps : ps[i].source = "here"}
           unknown == {i \in DOMAIN ps : ps[i].source = "unknown"}
           all == local \cup unknown
<1>1. ps \in Seq(Pipelines)
  BY DEF Scripts
<1>2. \A i \in DOMAIN ps : ps[i].source \in {"here", "unknown", "elsewhere"}
  <2>1. \A i \in DOMAIN ps : ps[i] \in Pipelines
    <3> HIDE DEF ps
    <3> QED BY <1>1, ElementOfSeq, LenProperties
  <2> QED BY <2>1 DEF Pipelines
<1>3. DOMAIN ps = 1..Len(ps)
  <2> HIDE DEF ps
  <2> QED BY <1>1, LenProperties
<1>4. \A p : p \in offered <=> \E i \in all : p = ps[i]
  <2>1. \A p : p \in ToSet(ps) <=> \E i \in DOMAIN ps : p = ps[i]
    BY DEF ToSet
  <2>2. \A i \in DOMAIN ps : ps[i].source # "elsewhere" <=> i \in all
    BY <1>2
  <2> HIDE DEF ps, all
  <2>3. \A i \in all : i \in DOMAIN ps
    BY DEF all
  <2> QED BY <2>1, <2>2, <2>3
<1>5. CASE wanted # ""
  <2> DEFINE byFunction == {i \in all : ps[i].function = wanted}
             byDisplay == {i \in all : ps[i].display = wanted}
             named == Named(script, all)
  <2>1. one = Single(script, named)
    BY <1>5 DEF Selected
  <2>2. named = IF byFunction # {} THEN byFunction ELSE byDisplay
    BY DEF Named
  <2>3. PICK i \in named : named = {i} /\ one = ps[i]
    <3> HIDE DEF named, one
    <3> USE <2>1
    <3>1. \E i \in named : named = {i} /\ Single(script, named) = script.pipelines[i]
      BY SingleIs DEF one
    <3> QED BY <3>1
  <2> HIDE DEF one, named, ps, wanted, all, offered
  <2>4. i \in all /\ (ps[i].function = wanted \/ ps[i].display = wanted)
    BY <2>2, <2>3
  <2>5. ASSUME NEW p \in offered \ {one}
        PROVE  ~Answers(p, wanted) \/ (one.function = wanted /\ p.function # wanted)
    <3>1. PICK k \in all : p = ps[k]
      BY <1>4
    <3>2. k \notin named
      BY <2>3, <3>1
    <3>3. CASE byFunction # {}
      BY <2>2, <2>3, <3>1, <3>2, <3>3
    <3>4. CASE byFunction = {}
      BY <1>5, <2>2, <3>1, <3>2, <3>4 DEF Answers
    <3> QED BY <3>3, <3>4
  <2>6. one \in offered /\ Answers(one, wanted)
    BY <1>4, <2>3, <2>4 DEF Answers
  <2> QED BY <1>5, <2>5, <2>6 DEF one, ps, wanted, offered
<1>6. CASE wanted = ""
  <2> DEFINE candidates == IF local # {} THEN local ELSE unknown
  <2>1. one = Single(script, candidates)
    BY <1>6 DEF Selected
  <2>2. PICK i \in candidates : candidates = {i} /\ one = ps[i]
    <3> HIDE DEF candidates, one
    <3> USE <2>1
    <3>1. \E i \in candidates : candidates = {i} /\ Single(script, candidates) = script.pipelines[i]
      BY SingleIs DEF one
    <3> QED BY <3>1
  <2>3. one \in offered /\ Answers(one, wanted)
    <3>1. i \in all
      OBVIOUS
    <3> HIDE DEF one, offered, all
    <3> QED BY <1>4, <1>6, <2>2, <3>1 DEF Answers
  <2>4. ASSUME NEW p \in offered \ {one}
        PROVE  one.source = "here" /\ p.source = "unknown"
    <3>1. PICK k \in all : p = ps[k]
      <4> HIDE DEF one, offered, all
      <4> QED BY <1>4
    <3>2. k \notin candidates
      BY <2>2, <3>1
    <3> HIDE DEF one
    <3> QED BY <2>2, <3>1, <3>2
  <2> HIDE DEF one, offered
  <2> QED BY <1>6, <2>3, <2>4 DEF one, offered
<1> QED BY <1>5, <1>6

(* A step sets the root to the pipeline that is the one, or not at all.      *)
LEMMA RootStep ==
  ASSUME TypesOK, RootOK, [ModulesStep]_modulesVars
  PROVE  RootOK'
<1> SUFFICES ASSUME NEW x \in Compiles PROVE root'[x] \in {NoPipeline, Selected(job[x])}
  <2>1. job' = job
    BY DEF ModulesStep, modulesVars
  <2> QED BY <2>1 DEF RootOK
<1>1. root[x] \in {NoPipeline, Selected(job[x])}
  BY DEF RootOK
<1>2. CASE UNCHANGED root
  BY <1>1, <1>2
<1>3. ASSUME NEW c \in Compiles, Select(c) PROVE root'[x] \in {NoPipeline, Selected(job[x])}
  <2>1. root' = [root EXCEPT ![c] =
          IF failed[c] \/ job[c].raises THEN NoPipeline ELSE Selected(job[c])]
    BY <1>3 DEF Select
  <2> QED BY <1>1, <2>1 DEF TypesOK
<1>4. \/ UNCHANGED root
      \/ \E c \in Compiles : Select(c)
  BY DEF ModulesStep, modulesVars, Start, ImportNext, Trace, LeaveTrace, Purge
<1> QED BY <1>2, <1>3, <1>4

(* The root is the one pipeline a script means, or none.                     *)
LEMMA RootIsTheOne ==
  ASSUME TypesOK, RootOK
  PROVE  SelectsTheOne
<1> SUFFICES ASSUME NEW c \in Compiles, root[c] # NoPipeline
             PROVE  LET offered == {p \in ToSet(job[c].pipelines) : p.source # "elsewhere"}
                        wanted == job[c].wanted
                    IN /\ root[c] \in offered /\ Answers(root[c], wanted)
                       /\ \A p \in offered \ {root[c]} :
                            \/ ~Answers(p, wanted)
                            \/ wanted # "" /\ root[c].function = wanted /\ p.function # wanted
                            \/ wanted = "" /\ root[c].source = "here" /\ p.source = "unknown"
  BY DEF SelectsTheOne
<1>1. job[c] \in Scripts
  BY ModulesConstantsOK DEF ModulesConstantsOK, TypesOK
<1>2. root[c] = Selected(job[c])
  BY DEF RootOK
<1> DEFINE script == job[c]
           it == root[c]
<1>3. script \in Scripts /\ Selected(script) # NoPipeline /\ it = Selected(script)
  BY <1>1, <1>2
<1> HIDE DEF script, it
<1>4. LET offered == {p \in ToSet(script.pipelines) : p.source # "elsewhere"}
          wanted == script.wanted
      IN /\ it \in offered /\ Answers(it, wanted)
         /\ \A p \in offered \ {it} :
              \/ ~Answers(p, wanted)
              \/ wanted # "" /\ it.function = wanted /\ p.function # wanted
              \/ wanted = "" /\ it.source = "here" /\ p.source = "unknown"
  BY <1>3, SelectedIsTheOne
<1> QED BY <1>4 DEF script, it

(* A compilation that takes its turn, of scripts with plain modules beside   *)
(* them, imports what it would import in a process of its own, compiles the  *)
(* pipeline asked for, and leaves nothing behind.                            *)
THEOREM LoadsAreClean ==
  ASSUME AtOnce = 1, PlainModules
  PROVE  ModulesSpec => []LoadsClean
<1>1. ModulesInit => PathInv /\ AloneInv /\ RootOK
  <2>1. ModulesInit => RootOK
    BY DEF ModulesInit, RootOK
  <2> QED BY <2>1, PathInit, AloneInit
<1>2. PathInv /\ AloneInv /\ RootOK /\ [ModulesStep]_modulesVars => (PathInv /\ AloneInv /\ RootOK)'
  <2> SUFFICES ASSUME PathInv, AloneInv, RootOK, [ModulesStep]_modulesVars
               PROVE  (PathInv /\ AloneInv /\ RootOK)'
    OBVIOUS
  <2>1. PathInv'
    BY PathStep
  <2>2. AloneInv'
    BY AloneStep
  <2>3. RootOK'
    BY RootStep DEF PathInv
  <2> QED BY <2>1, <2>2, <2>3
<1>3. PathInv /\ AloneInv /\ RootOK => AsAlone /\ SelectsTheOne
  BY RootIsTheOne DEF PathInv, AloneInv, AsAlone
<1>4. ModulesSpec => [](AsAlone /\ SelectsTheOne)
  BY <1>1, <1>2, <1>3, PTL DEF ModulesSpec
<1>5. AsAlone /\ SelectsTheOne /\ NothingLeft => LoadsClean
  BY DEF LoadsClean
<1>6. ModulesSpec => []NothingLeft
  BY NothingIsLeft
<1> QED BY <1>4, <1>5, <1>6, PTL

-----------------------------------------------------------------------------
(* VersionBump. *)
-----------------------------------------------------------------------------
(* Versions. *)

(* The parts of a version, and its first three.                              *)
LEMMA VersionFacts ==
  ASSUME NEW v \in Versions
  PROVE  /\ Len(v) \in Nat /\ DOMAIN v = 1..Len(v)
         /\ \A i \in 1..Len(v) : v[i] \in Nat \cup {Word}
         /\ v # <<>> <=> Len(v) # 0
         /\ ThreeParts(v) \in Versions
         /\ Len(ThreeParts(v)) = IF Len(v) < 3 THEN Len(v) ELSE 3
         /\ \A i \in 1..Len(ThreeParts(v)) : ThreeParts(v)[i] = v[i]
<1>1. v \in Seq(Nat \cup {Word})
  BY DEF Versions
<1>2. /\ Len(v) \in Nat /\ DOMAIN v = 1..Len(v)
      /\ \A i \in 1..Len(v) : v[i] \in Nat \cup {Word}
      /\ v # <<>> <=> Len(v) # 0
  BY <1>1, LenProperties, ElementOfSeq, EmptySeq
<1> DEFINE n == IF Len(v) < 3 THEN Len(v) ELSE 3
           s == SubSeq(v, 1, n)
<1>3. n \in Nat /\ n <= Len(v)
  BY <1>2
<1>4. s \in Seq(Nat \cup {Word}) /\ Len(s) = n /\ \A i \in 1..n : s[i] = v[i]
  <2> HIDE DEF n
  <2>1. CASE n = 0
    <3>1. s = <<>>
      BY <1>1, <1>3, <2>1
    <3> QED BY <2>1, <3>1
  <2>2. CASE n # 0
    <3>1. 1 \in 1..(Len(v) + 1) /\ n \in 0..Len(v)
      BY <1>2, <1>3
    <3>2. s \in Seq(Nat \cup {Word}) /\ Len(s) = n /\ \A i \in 1..n : s[i] = v[1 + i - 1]
      BY <1>1, <1>2, <1>3, <2>2, SubSeqProperties
    <3> QED BY <1>3, <3>2
  <2> QED BY <2>1, <2>2
<1> QED BY <1>2, <1>4 DEF ThreeParts, Versions

(* The version after v: its last part, of two or three, is one more.         *)
LEMMA IncrementShape ==
  ASSUME NEW v \in Versions, v # <<>>, Legible(v)
  PROVE  LET depth == IF Len(v) < 3 THEN 2 ELSE 3
             w == increment_version(v)
         IN /\ w \in Seq(Nat) /\ Len(w) = depth
            /\ \A i \in 1..3 : Part(v, i) \in Nat
            /\ depth = 2 => Part(v, 3) = 0
            /\ \A i \in 1..(depth - 1) : w[i] = Part(v, i)
            /\ w[depth] = Part(v, depth) + 1
<1> DEFINE depth == IF Len(v) < 3 THEN 2 ELSE 3
           w == increment_version(v)
           parts == parse_version(v)
           s == ThreeParts(v)
<1>1. /\ Len(v) \in Nat \ {0}
      /\ s \in Versions /\ Len(s) = (IF Len(v) < 3 THEN Len(v) ELSE 3)
      /\ \A i \in 1..Len(s) : s[i] = v[i]
  BY VersionFacts
<1>2. \A i \in 1..Len(s) : s[i] \in Nat
  BY <1>1, VersionFacts DEF Legible
<1> HIDE DEF s
<1>3. \A i \in 1..3 : Part(v, i) \in Nat
  BY <1>1, <1>2 DEF Part
<1>4. depth = 2 => Part(v, 3) = 0
  BY <1>1 DEF Part
<1>5. parts \in [1..depth -> Nat] /\ \A i \in 1..depth : parts[i] = Part(v, i)
  <2>1. CASE Len(v) = 1
    <3>1. parts = <<v[1], 0>> /\ v[1] \in Nat
      BY <1>1, <1>2, <2>1 DEF parse_version
    <3> QED BY <2>1, <3>1 DEF Part
  <2>2. CASE Len(v) # 1
    <3>1. parts = s
      BY <2>2 DEF parse_version, s
    <3>0. Len(s) = depth
      <4>1. Len(v) \in Nat /\ Len(v) >= 2
        <5>1. Len(v) \in Nat /\ Len(v) # 0
          BY VersionFacts
        <5> DEFINE n == Len(v)
        <5>2. n \in Nat /\ n # 0 /\ n # 1
          BY <2>2, <5>1
        <5> HIDE DEF n
        <5>3. n >= 2
          BY <5>2
        <5> QED BY <5>2, <5>3 DEF n
      <4>2. CASE Len(v) < 3
        BY <1>1, <4>1, <4>2
      <4>3. CASE ~(Len(v) < 3)
        BY <1>1, <4>3
      <4> QED BY <4>2, <4>3
    <3>2. s \in [1..Len(s) -> Nat]
      <4>1. s \in Seq(Nat \cup {Word})
        BY <1>1 DEF Versions
      <4>2. s \in [1..Len(s) -> Nat \cup {Word}]
        BY <4>1, LenProperties
      <4> QED BY <1>2, <4>2
    <3>3. \A i \in 1..depth : i <= Len(v) /\ s[i] = v[i]
      BY <1>1, <2>2, <3>0
    <3> HIDE DEF parts, depth
    <3> QED BY <3>0, <3>1, <3>2, <3>3 DEF Part
  <2> QED BY <2>1, <2>2
<1>6. Len(parts) = depth /\ w = [parts EXCEPT ![depth] = @ + 1]
  <2> HIDE DEF parts
  <2>1. depth \in Nat
    OBVIOUS
  <2> HIDE DEF depth
  <2>2. Len(parts) = depth
    BY <1>5, <2>1, LenProperties, SeqDef
  <2> QED BY <2>2 DEF increment_version, parts
<1> HIDE DEF w, parts
<1>7. w \in [1..depth -> Nat] /\ \A i \in 1..(depth - 1) : w[i] = Part(v, i)
  BY <1>5, <1>6
<1>8. w[depth] = Part(v, depth) + 1
  BY <1>5, <1>6
<1>9. w \in Seq(Nat) /\ Len(w) = depth
  <2>1. depth \in Nat
    OBVIOUS
  <2> HIDE DEF depth
  <2> QED BY <1>7, <2>1, LenProperties, SeqDef
<1> QED BY <1>3, <1>4, <1>7, <1>8, <1>9 DEF w

(* It is the first version after v of so many parts.                         *)
LEMMA IncrementIsNext ==
  ASSUME NEW v \in Versions, v # <<>>, Legible(v)
  PROVE  IsNext(v, increment_version(v))
<1> DEFINE depth == IF Len(v) < 3 THEN 2 ELSE 3
           w == increment_version(v)
<1>1. /\ w \in Seq(Nat) /\ Len(w) = depth
      /\ \A i \in 1..3 : Part(v, i) \in Nat
      /\ depth = 2 => Part(v, 3) = 0
      /\ \A i \in 1..(depth - 1) : w[i] = Part(v, i)
      /\ w[depth] = Part(v, depth) + 1
  BY IncrementShape
<1>2. depth \in {2, 3}
  OBVIOUS
<1> HIDE DEF w, depth
<1>3. /\ \A i \in 1..(depth - 1) : Part(w, i) = Part(v, i)
      /\ Part(w, depth) = Part(v, depth) + 1
  BY <1>1, <1>2 DEF Part
<1>4. Earlier(v, w)
  <2>1. depth \in 1..3 /\ Part(v, depth) < Part(w, depth)
    BY <1>1, <1>2, <1>3
  <2> QED BY <1>3, <2>1 DEF Earlier
<1>5. ASSUME NEW x \in [1..depth -> Numbers], Earlier(v, x)
      PROVE  x = w \/ Earlier(w, x)
  <2>1. x \in [1..depth -> Nat] /\ Len(x) = depth
    <3>1. x \in [1..depth -> Nat]
      BY NumbersOK DEF NumbersOK
    <3> QED BY <1>2, <3>1, LenProperties, SeqDef
  <2>2. /\ \A i \in 1..depth : Part(x, i) = x[i] /\ x[i] \in Nat
        /\ \A i \in 1..3 : i > depth => Part(x, i) = 0
    BY <1>2, <2>1 DEF Part
  <2>3. PICK i \in 1..3 : Part(v, i) < Part(x, i) /\ \A j \in 1..(i - 1) : Part(v, j) = Part(x, j)
    BY <1>5 DEF Earlier
  <2>4. i <= depth
    <3> SUFFICES ASSUME i > depth PROVE FALSE
      BY <1>2
    <3> QED BY <1>1, <2>2, <2>3
  <2>5. CASE i < depth
    <3>1. i \in 1..(depth - 1) /\ \A j \in 1..(i - 1) : j \in 1..(depth - 1)
      BY <1>2, <2>3, <2>5
    <3>2. Part(w, i) < Part(x, i) /\ \A j \in 1..(i - 1) : Part(w, j) = Part(x, j)
      BY <1>3, <2>3, <3>1
    <3> QED BY <2>3, <3>2 DEF Earlier
  <2>6. CASE i = depth
    <3>1. \A j \in 1..(depth - 1) : Part(w, j) = Part(x, j)
      BY <1>3, <2>3, <2>6
    <3>2. CASE Part(w, depth) < Part(x, depth)
      <4>1. depth \in 1..3
        BY <1>2
      <4> QED BY <3>1, <3>2, <4>1 DEF Earlier
    <3>3. CASE ~(Part(w, depth) < Part(x, depth))
      <4>1. Part(w, depth) = Part(x, depth)
        BY <1>1, <1>2, <1>3, <2>2, <2>3, <2>6, <3>3
      <4>2. \A j \in 1..depth : Part(w, j) = Part(x, j)
        BY <1>2, <3>1, <4>1
      <4>3. \A j \in 1..depth : w[j] = x[j]
        BY <1>1, <1>2, <2>2, <4>2 DEF Part
      <4>4. w \in [1..depth -> Nat]
        BY <1>1, LenProperties
      <4> QED BY <2>1, <4>3, <4>4
    <3> QED BY <3>2, <3>3
  <2> QED BY <1>2, <2>3, <2>4, <2>5, <2>6
<1>6. w \in [1..depth -> Nat]
  BY <1>1, LenProperties
<1> QED BY <1>4, <1>5, <1>6 DEF IsNext, w, depth

(* A version made by incrementing has two or three parts, and so is one.     *)
LEMMA BumpedTyped ==
  ASSUME NEW v \in Versions, v # <<>>, Legible(v)
  PROVE  increment_version(v) \in Versions /\ increment_version(v) # <<>>
<1> DEFINE w == increment_version(v)
<1>1. w \in Seq(Nat) /\ Len(w) = (IF Len(v) < 3 THEN 2 ELSE 3)
  BY IncrementShape
<1> HIDE DEF w
<1>2. w \in Seq(Nat \cup {Word})
  <2>1. w \in [1..Len(w) -> Nat] /\ Len(w) \in Nat
    BY <1>1, LenProperties
  <2>2. w \in [1..Len(w) -> Nat \cup {Word}]
    BY <2>1
  <2> QED BY <2>1, <2>2, SeqDef
<1>3. w # <<>>
  <2>1. Len(w) # 0
    BY <1>1
  <2> QED BY <2>1, EmptySeq
<1> QED BY <1>2, <1>3 DEF w, Versions

(* A version that is set is cut to three parts, or filled to two: it is      *)
(* neither earlier nor later than what was asked for.                        *)
LEMMA ParsedIsLevel ==
  ASSUME NEW v \in Versions, v # <<>>, Legible(v)
  PROVE  /\ parse_version(v) \in Versions /\ parse_version(v) # <<>>
         /\ ~Earlier(parse_version(v), ThreeParts(v)) /\ ~Earlier(ThreeParts(v), parse_version(v))
<1> DEFINE parts == parse_version(v)
           s == ThreeParts(v)
<1>1. /\ Len(v) \in Nat /\ Len(v) # 0
      /\ s \in Versions /\ Len(s) = (IF Len(v) < 3 THEN Len(v) ELSE 3)
      /\ \A i \in 1..Len(s) : s[i] = v[i]
  BY VersionFacts
<1>2. \A i \in 1..Len(s) : s[i] \in Nat
  BY <1>1, VersionFacts DEF Legible
<1>3. Len(s) \in 1..3
  <2> DEFINE n == Len(v)
  <2>1. n \in Nat /\ n # 0 /\ Len(s) = (IF n < 3 THEN n ELSE 3)
    BY <1>1
  <2> HIDE DEF n, s
  <2> QED BY <2>1
<1> HIDE DEF s
<1>4. \A i \in 1..3 : Part(s, i) \in Nat
  BY <1>2, <1>3 DEF Part
<1>5. CASE Len(v) = 1
  <2>1. v[1] \in Nat /\ s[1] = v[1] /\ Len(s) = 1
    BY <1>1, <1>2, <1>5
  <2>2. parts = <<v[1], 0>>
    BY <1>5 DEF parse_version
  <2>3. parts \in Seq(Nat \cup {Word}) /\ parts # <<>>
    BY <2>1, <2>2
  <2>4. \A i \in 1..3 : Part(parts, i) = Part(s, i)
    BY <2>1, <2>2 DEF Part
  <2> HIDE DEF parts
  <2>5. ~Earlier(parts, s) /\ ~Earlier(s, parts)
    BY <1>4, <2>4 DEF Earlier
  <2> QED BY <2>3, <2>5 DEF Versions, parts, s
<1>6. CASE Len(v) # 1
  <2>1. parts = s
    BY <1>6 DEF parse_version, s
  <2>2. ~Earlier(s, s)
    BY <1>4 DEF Earlier
  <2>3. s # <<>>
    <3>1. Len(s) # 0
      BY <1>3
    <3>2. Len(<<>>) = 0
      OBVIOUS
    <3> QED BY <3>1, <3>2
  <2> QED BY <1>1, <2>1, <2>2, <2>3 DEF s
<1> QED BY <1>5, <1>6

\* What holds of a component whose numbers without quotes are within the bound.
BareOK(c) == c.bare => \A v \in {c.version, c.top} : \A i \in DOMAIN v : v[i] \in 0..MaxDecimal \cup {Word}

(* Every number has the decimals that are left when its last zeros go.       *)
LEMMA DecimalsExist ==
  ASSUME NEW n \in 1..999
  PROVE  \E d \in 1..n : d % 10 # 0 /\ \E zeros \in {1, 10, 100} : d * zeros = n
<1>1. CASE n % 10 # 0
  <2>1. n \in 1..n /\ n * 1 = n
    OBVIOUS
  <2> QED BY <1>1, <2>1
<1>2. CASE n % 10 = 0
  <2>1. PICK d \in 1..99 : d * 10 = n
    <3>1. n = 10 * (n \div 10) + (n % 10)
      OBVIOUS
    <3>2. n \div 10 \in 1..99
      BY <1>2, <3>1
    <3>3. (n \div 10) * 10 = n
      BY <1>2, <3>1, <3>2
    <3> QED BY <3>2, <3>3
  <2>2. CASE d % 10 # 0
    <3>1. d \in 1..n
      BY <2>1
    <3> QED BY <2>1, <2>2, <3>1
  <2>3. CASE d % 10 = 0
    <3>1. PICK e \in 1..9 : e * 10 = d
      <4>1. d = 10 * (d \div 10) + (d % 10)
        OBVIOUS
      <4>2. d \div 10 \in 1..9
        BY <2>3, <4>1
      <4>3. (d \div 10) * 10 = d
        BY <2>3, <4>1, <4>2
      <4> QED BY <4>2, <4>3
    <3>2. e \in 1..n /\ e % 10 # 0 /\ e * 100 = n
      BY <2>1, <3>1
    <3> QED BY <3>2
  <2> QED BY <2>2, <2>3
<1> QED BY <1>1, <1>2

(* The version a component is read to have is one.                           *)
LEMMA ReadTyped ==
  ASSUME NEW c \in Components, BareOK(c)
  PROVE  get_version_from_data(c) \in Versions
<1> DEFINE text == IF c.version # NoVersion THEN c.version ELSE c.top
<1>1. text \in Versions /\ c.bare \in BOOLEAN
  BY DEF Components
<1>2. CASE ~c.bare
  BY <1>1, <1>2 DEF get_version_from_data, VersionText
<1>3. CASE c.bare
  <2>1. \A i \in DOMAIN text : text[i] \in 0..MaxDecimal \cup {Word}
    BY <1>3 DEF BareOK
  <2>2. get_version_from_data(c) = Decimal(text)
    BY <1>3 DEF get_version_from_data, VersionText
  <2> HIDE DEF text
  <2>3. Len(text) \in Nat /\ DOMAIN text = 1..Len(text)
    BY <1>1, VersionFacts
  <2>4. CASE ~(Len(text) = 2 /\ text[2] # Word)
    BY <1>1, <2>2, <2>4, Zenon DEF Decimal
  <2>5. CASE Len(text) = 2 /\ text[2] # Word
    <3> DEFINE d == IF text[2] = 0 THEN 0
                    ELSE CHOOSE e \in 1..text[2] : e % 10 # 0 /\ \E zeros \in {1, 10, 100} : e * zeros = text[2]
    <3>1. 1 \in DOMAIN text /\ 2 \in DOMAIN text
      BY <2>3, <2>5
    <3>2. text[1] \in Nat \cup {Word} /\ text[2] \in 0..MaxDecimal
      BY <1>1, <2>1, <2>3, <2>5, <3>1, VersionFacts
    <3>3. text[2] \in 0..999
      <4>1. MaxDecimal \in 0..999
        BY BumpConstantsOK, Zenon DEF BumpConstantsOK
      <4> DEFINE n == text[2]
      <4>2. n \in 0..MaxDecimal
        BY <3>2
      <4> HIDE DEF n
      <4>3. n \in 0..999
        BY <4>1, <4>2
      <4> QED BY <4>3 DEF n
    <3>4. d \in Nat
      <4>1. CASE text[2] = 0
        BY <4>1
      <4>2. CASE text[2] # 0
        <5>1. text[2] \in 1..999
          BY <3>3, <4>2
        <5>2. \E e \in 1..text[2] : e % 10 # 0 /\ \E zeros \in {1, 10, 100} : e * zeros = text[2]
          BY <5>1, DecimalsExist
        <5>3. d \in 1..text[2]
          BY <4>2, <5>2, Zenon
        <5> QED BY <5>1, <5>3
      <4> QED BY <4>1, <4>2
    <3>5. get_version_from_data(c) = <<text[1], d>>
      BY <2>2, <2>5, Zenon DEF Decimal
    <3> HIDE DEF d
    <3> QED BY <3>2, <3>4, <3>5 DEF Versions
  <2> QED BY <2>4, <2>5
<1> QED BY <1>1, <1>2, <1>3

-----------------------------------------------------------------------------
(* Where the annotated files are. *)

(* The places a file is looked for at are a nonempty sequence of places.     *)
LEMMA CandidatesTyped ==
  ASSUME NEW k \in Kinds
  PROVE  /\ Candidates(k) \in Seq(Everywhere)
         /\ \A i \in DOMAIN Candidates(k) : Candidates(k)[i] \in Everywhere
         /\ DOMAIN Candidates(k) \subseteq Nat
<1>1. Candidates(k) \in Seq(Everywhere)
  <2> DEFINE first == IF yaml.rooted THEN <<"common">> ELSE <<>>
             last == IF k = "source" THEN <<"sources", "basename">> ELSE <<>>
  <2>1. first \in Seq(Everywhere) /\ last \in Seq(Everywhere) /\ <<"beside">> \in Seq(Everywhere)
    <3>1. <<"common">> \in Seq(Everywhere) /\ <<>> \in Seq(Everywhere)
      BY DEF Everywhere
    <3>2. <<"sources", "basename">> \in Seq(Everywhere)
      BY DEF Everywhere
    <3>3. <<"beside">> \in Seq(Everywhere)
      BY DEF Everywhere
    <3> QED BY <3>1, <3>2, <3>3, Zenon
  <2>2. <<"absolute">> \in Seq(Everywhere)
    BY DEF Everywhere
  <2> HIDE DEF first, last
  <2>3. first \o <<"beside">> \o last \in Seq(Everywhere)
    BY <2>1, ConcatProperties
  <2> QED BY <2>2, <2>3, Zenon DEF Candidates, first, last
<1>2. Len(Candidates(k)) \in Nat /\ DOMAIN Candidates(k) = 1..Len(Candidates(k))
  BY <1>1, LenProperties
<1>3. \A i \in 1..Len(Candidates(k)) : Candidates(k)[i] \in Everywhere
  BY <1>1, ElementOfSeq
<1> QED BY <1>1, <1>2, <1>3

(* What is found is one of the files, or none.                               *)
LEMMA FileOfTyped ==
  ASSUME places \in [Kinds -> [Everywhere -> 0..Len(pyfiles)]], Len(pyfiles) \in Nat, NEW k \in Kinds
  PROVE  FileOf(k) \in 0..Len(pyfiles)
<1> DEFINE c == Candidates(k)
           found == {i \in DOMAIN c : places[k][c[i]] # 0}
<1>1. /\ \A i \in DOMAIN c : c[i] \in Everywhere
      /\ DOMAIN c \subseteq Nat
  BY CandidatesTyped
<1>2. FileOf(k) = IF found = {} THEN 0 ELSE places[k][c[Min(found)]]
  BY Zenon DEF FileOf
<1> HIDE DEF c
<1>3. CASE found = {}
  BY <1>2, <1>3
<1>4. CASE found # {}
  <2>1. found \in SUBSET Nat
    BY <1>1
  <2> HIDE DEF found
  <2>2. Min(found) \in found
    BY <1>4, <2>1, LeastIsMin
  <2>3. Min(found) \in DOMAIN c
    BY <2>2 DEF found
  <2>4. c[Min(found)] \in Everywhere
    BY <1>1, <2>3
  <2>5. places[k][c[Min(found)]] \in 0..Len(pyfiles)
    BY <2>4
  <2> QED BY <1>2, <1>4, <2>5
<1> QED BY <1>3, <1>4

(* Which function is found, as a set of positions decides it.                *)
LEMMA FunctionOfIs ==
  ASSUME NEW file
  PROVE  FunctionOf(file) =
           IF yaml.function # ""
           THEN (IF {i \in 1..Len(file) : file[i].name = yaml.function} = {} THEN 0
                 ELSE CHOOSE i \in {i \in 1..Len(file) : file[i].name = yaml.function} : TRUE)
           ELSE IF file = <<>> THEN 0 ELSE 1
BY Zenon DEF FunctionOf

(* A function that is found is one of the file's, the one recorded if any.   *)
LEMMA FunctionFound ==
  ASSUME NEW file \in Seq(Documents), FunctionOf(file) # 0
  PROVE  /\ FunctionOf(file) \in 1..Len(file)
         /\ yaml.function \in {"", file[FunctionOf(file)].name}
<1> DEFINE named == {i \in 1..Len(file) : file[i].name = yaml.function}
<1>1. FunctionOf(file) = IF yaml.function # "" THEN (IF named = {} THEN 0 ELSE CHOOSE i \in named : TRUE)
                         ELSE IF file = <<>> THEN 0 ELSE 1
  BY Zenon DEF FunctionOf
<1>2. CASE yaml.function # ""
  <2>1. FunctionOf(file) \in named
    BY <1>1, <1>2, Zenon
  <2> QED BY <2>1
<1>3. CASE yaml.function = ""
  <2>1. file # <<>> /\ FunctionOf(file) = 1
    BY <1>1, <1>3
  <2>2. Len(file) \in Nat /\ Len(file) # 0
    BY <2>1, LenProperties, EmptySeq
  <2>3. 1 \in 1..Len(file)
    BY <2>2
  <2> QED BY <1>3, <2>1, <2>3, Zenon
<1> QED BY <1>2, <1>3

(* Rewriting the metadata of a function leaves it the one that is found.     *)
LEMMA FunctionKept ==
  ASSUME NEW file \in Seq(Documents), NEW at_function \in 1..Len(file), NEW doc \in Documents,
         doc.name = file[at_function].name
  PROVE  FunctionOf([file EXCEPT ![at_function] = doc]) = FunctionOf(file)
<1> DEFINE after == [file EXCEPT ![at_function] = doc]
<1>1. Len(file) \in Nat /\ DOMAIN file = 1..Len(file) /\ file \in [1..Len(file) -> Documents]
  BY LenProperties
<1>2. after \in [1..Len(file) -> Documents]
  BY <1>1
<1>3. after \in Seq(Documents) /\ Len(after) = Len(file)
  BY <1>1, <1>2, SeqDef, LenProperties
<1>4. \A i \in 1..Len(file) : after[i].name = file[i].name
  BY <1>1
<1>5. after # <<>> /\ file # <<>>
  <2>1. Len(file) # 0
    BY <1>1
  <2> HIDE DEF after
  <2> QED BY <1>3, <2>1, EmptySeq
<1> HIDE DEF after
<1> DEFINE n1 == {i \in 1..Len(after) : after[i].name = yaml.function}
           n2 == {i \in 1..Len(file) : file[i].name = yaml.function}
<1>6. n1 = n2
  BY <1>3, <1>4
<1> DEFINE pick(S) == IF S = {} THEN 0 ELSE CHOOSE i \in S : TRUE
<1>7. FunctionOf(after) = IF yaml.function # "" THEN pick(n1)
                          ELSE IF after = <<>> THEN 0 ELSE 1
  BY FunctionOfIs
<1>8. FunctionOf(file) = IF yaml.function # "" THEN pick(n2)
                         ELSE IF file = <<>> THEN 0 ELSE 1
  BY FunctionOfIs
<1> HIDE DEF n1, n2, pick
<1>9. FunctionOf(after) = FunctionOf(file)
  <2>1. CASE yaml.function # ""
    BY <1>6, <1>7, <1>8, <2>1, Zenon
  <2>2. CASE yaml.function = ""
    <3>1. FunctionOf(after) = IF after = <<>> THEN 0 ELSE 1
      BY <1>7, <2>2, Zenon
    <3>2. FunctionOf(file) = IF file = <<>> THEN 0 ELSE 1
      BY <1>8, <2>2, Zenon
    <3> QED BY <1>5, <3>1, <3>2, Zenon
  <2> QED BY <2>1, <2>2
<1> QED BY <1>9 DEF after

-----------------------------------------------------------------------------
(* The inductive invariant. *)

Calls == [set : Versions, reference : Versions, stamp : BOOLEAN]

BumpTypeOK ==
  /\ yaml \in Components /\ BareOK(yaml)
  /\ pyfiles \in Seq(Seq(Documents))
  /\ places \in [Kinds -> [Everywhere -> 0..Len(pyfiles)]]
  /\ ask \in Calls
  /\ bumping \in {"look", "yaml", "source", "generate", "over"}
  /\ bumps \in Nat
  /\ earlier.yaml \in Components /\ BareOK(earlier.yaml)
  /\ earlier.pyfiles \in Seq(Seq(Documents)) /\ Len(earlier.pyfiles) = Len(pyfiles)

\* What the call has done when it is at each of its steps.
PhaseOK ==
  /\ bumping # "over" => yaml = earlier.yaml
  /\ bumping \in {"look", "yaml", "source"} => pyfiles = earlier.pyfiles
  /\ bumping = "yaml" => yaml.links["source"] = "none"
  /\ bumping \in {"source", "generate"} => yaml.links["source"] # "none" /\ FileOf("source") # 0
  /\ bumping = "generate" =>
       LET f == FileOf("source")
           at_function == FunctionOf(pyfiles[f])
       IN Touched = {f} /\ at_function # 0 /\ SourceMoved(f, at_function)

BumpInv == BumpTypeOK /\ PhaseOK /\ BumpIsExact

\* The same operators, with the state they look at as a parameter.
Position(file, name) ==
  LET named == {i \in 1..Len(file) : file[i].name = name}
  IN IF name # "" THEN (IF named = {} THEN 0 ELSE CHOOSE i \in named : TRUE)
     ELSE IF file = <<>> THEN 0 ELSE 1
Due(reference, v, w) ==
  LET basis == IF reference # NoVersion THEN reference ELSE v
  IN IF basis = NoVersion THEN w = <<0, 1>> ELSE IsNext(basis, w)
Moved(asked, old, new, i) ==
  /\ \A j \in 1..Len(new) : j # i => new[j] = old[j]
  /\ IF asked.set = NoVersion THEN Due(asked.reference, old[i].version, new[i].version)
     ELSE new[i].version = asked.set

(* Nothing has happened when no call has been made.                          *)
LEMMA BumpInitially == BumpInit => BumpInv
<1> SUFFICES ASSUME BumpInit PROVE BumpInv
  OBVIOUS
<1>1. PICK w \in Workshops : yaml = w.yaml /\ places = w.places /\ pyfiles = w.pyfiles
  BY DEF BumpInit
<1>2. /\ yaml \in Components /\ pyfiles \in Seq(Seq(Documents))
      /\ places \in [Kinds -> [Everywhere -> 0..Len(pyfiles)]]
      /\ BareOK(yaml)
  BY <1>1, BumpConstantsOK, Zenon DEF BumpConstantsOK, BareOK
<1>3. ask \in Calls
  <2>1. <<>> \in Versions
    BY DEF Versions
  <2> QED BY <2>1 DEF BumpInit, Calls, NoVersion
<1>4. bumping = "over" /\ bumps = 0
  BY DEF BumpInit
<1>5. earlier.yaml = yaml /\ earlier.pyfiles = pyfiles
  BY DEF BumpInit
<1>6. BumpTypeOK
  BY <1>2, <1>3, <1>4, <1>5, Zenon DEF BumpTypeOK
<1>7. PhaseOK
  BY <1>4 DEF PhaseOK
<1>8. BumpIsExact
  <2>1. ~(bumps > 0)
    BY <1>4
  <2> QED BY <2>1, Zenon DEF BumpIsExact
<1> QED BY <1>6, <1>7, <1>8 DEF BumpInv

(* A call starts from the files as they are.                                 *)
LEMMA BumpCallKeeps == BumpInv /\ BumpCall => BumpInv'
<1> SUFFICES ASSUME BumpInv, BumpCall PROVE BumpInv'
  OBVIOUS
<1>1. /\ earlier' = [yaml |-> yaml, pyfiles |-> pyfiles] /\ bumping' = "look" /\ bumps' = bumps + 1
      /\ yaml' = yaml /\ places' = places /\ pyfiles' = pyfiles /\ ask' \in Asks
  BY DEF BumpCall
<1>2. /\ yaml \in Components /\ BareOK(yaml) /\ pyfiles \in Seq(Seq(Documents)) /\ bumps \in Nat
      /\ places \in [Kinds -> [Everywhere -> 0..Len(pyfiles)]]
  BY DEF BumpInv, BumpTypeOK
<1>3. earlier'.yaml = yaml /\ earlier'.pyfiles = pyfiles
  BY <1>1
<1>4. ask' \in Calls
  BY <1>1, BumpConstantsOK, Zenon DEF BumpConstantsOK, Calls
<1>5. bumps' \in Nat /\ bumping' \in {"look", "yaml", "source", "generate", "over"}
  BY <1>1, <1>2
<1>6. BumpTypeOK'
  BY <1>1, <1>2, <1>3, <1>4, <1>5, Zenon DEF BumpTypeOK
<1>7. PhaseOK'
  BY <1>1, <1>3 DEF PhaseOK
<1>8. BumpIsExact'
  BY <1>1 DEF BumpIsExact
<1> QED BY <1>6, <1>7, <1>8 DEF BumpInv

(* What the versions of a component read as.                                 *)
LEMMA ReadIs ==
  ASSUME NEW c \in Components
  PROVE  /\ get_version_from_data(c) = IF LosesZeros(c) THEN Decimal(VersionText(c)) ELSE VersionText(c)
         /\ c.bare = FALSE => ~LosesZeros(c) /\ get_version_from_data(c) = VersionText(c)
<1> DEFINE text == VersionText(c)
<1>1. text \in Versions
  BY DEF VersionText, Components
<1>2. c.bare \in BOOLEAN
  BY DEF Components
<1>3. get_version_from_data(c) = IF c.bare THEN Decimal(text) ELSE text
  BY Zenon DEF get_version_from_data, VersionText
<1>4. LosesZeros(c) <=> c.bare /\ Len(text) = 2 /\ text[2] \notin {0, Word} /\ text[2] % 10 = 0
  BY Zenon DEF LosesZeros
<1>5. CASE c.bare = FALSE
  BY <1>3, <1>4, <1>5, Zenon
<1>6. CASE c.bare = TRUE /\ (Len(text) # 2 \/ text[2] = Word)
  <2>1. ~LosesZeros(c)
    BY <1>4, <1>6
  <2>2. Decimal(text) = text
    BY <1>6 DEF Decimal
  <2> QED BY <1>3, <1>6, <2>1, <2>2, Zenon
<1>7. CASE c.bare = TRUE /\ Len(text) = 2 /\ text[2] # Word
  <2> HIDE DEF text
  <2>1. text \in [1..2 -> Nat \cup {Word}] /\ text = <<text[1], text[2]>>
    BY <1>1, <1>7 DEF Versions
  <2> DEFINE n == text[2]
             number == IF n = 0 THEN 0
                       ELSE CHOOSE d \in 1..n : d % 10 # 0 /\ \E zeros \in {1, 10, 100} : d * zeros = n
  <2>2. n \in Nat
    BY <1>7, <2>1
  <2>3. Decimal(text) = <<text[1], number>>
    BY <1>7, Zenon DEF Decimal
  <2>4. ASSUME ~LosesZeros(c) PROVE number = n
    <3>1. n = 0 \/ n % 10 # 0
      BY <1>4, <1>7, <2>4
    <3>2. CASE n = 0
      BY <3>2
    <3>3. CASE n # 0 /\ n % 10 # 0
      <4> HIDE DEF n
      <4>1. n \in 1..n /\ n * 1 = n
        BY <2>2, <3>3
      <4>2. \A d \in 1..n : (\E zeros \in {1, 10, 100} : d * zeros = n) => d = n
        <5> SUFFICES ASSUME NEW d \in 1..n, NEW zeros \in {1, 10, 100}, d * zeros = n PROVE d = n
          OBVIOUS
        <5>1. zeros # 10 /\ zeros # 100
          BY <2>2, <3>3
        <5> QED BY <2>2, <5>1
      <4> DEFINE Reads(d) == d % 10 # 0 /\ \E zeros \in {1, 10, 100} : d * zeros = n
      <4>3. Reads(n)
        BY <3>3, <4>1
      <4>4. \A d \in 1..n : Reads(d) => d = n
        BY <4>2
      <4>5. number = CHOOSE d \in 1..n : Reads(d)
        BY <3>3
      <4> HIDE DEF Reads, number
      <4> QED BY <4>1, <4>3, <4>4, <4>5, Zenon
    <3> QED BY <3>1, <3>2, <3>3
  <2> HIDE DEF n, number
  <2>5. ~LosesZeros(c) => Decimal(text) = text
    BY <2>1, <2>3, <2>4 DEF n
  <2> QED BY <1>3, <1>7, <2>5, Zenon DEF text
<1> QED BY <1>2, <1>5, <1>6, <1>7, Zenon DEF text

(* A call that fails before it has touched a source has kept its promise     *)
(* when the component is as it was, or what a failed write leaves.           *)
LEMMA FailingEarly ==
  ASSUME pyfiles' = earlier'.pyfiles, yaml' \in {earlier'.yaml, Blank, Cut}, outcome'.status # "success"
  PROVE  BumpIsExact'
<1>1. Touched' = {}
  BY DEF Touched
<1>2. Blank # Gone /\ Cut # Gone
  BY DEF Blank, Cut, Gone
<1>3. yaml' \in {earlier'.yaml, Blank, Cut, Gone}
  OBVIOUS
<1>4. yaml' = Gone => earlier'.yaml = Gone
  BY <1>2
<1>5. /\ \A f \in Touched' : /\ Touched' = {f}
                              /\ \/ \E i \in 1..Len(pyfiles'[f]) : SourceMoved(f, i)'
                                 \/ /\ yaml' = earlier'.yaml
                                    /\ \E i \in 1..Len(earlier'.pyfiles[f]), skipped \in {0, 1} : PartMoved(f, i, skipped)'
      /\ (yaml' = Gone /\ earlier'.yaml # Gone) => Touched' # {}
  BY <1>1, <1>4, Zenon
<1> QED BY <1>3, <1>5, Zenon DEF BumpIsExact

(* The statuses of what is reported.                                         *)
LEMMA Statuses == Missing1.status # "success" /\ Raised.status # "success"
BY DEF Missing1, Raised

(* Looking changes no file.                                                  *)
LEMMA LookKeeps == BumpInv /\ Look => BumpInv'
<1> SUFFICES ASSUME BumpInv, Look PROVE BumpInv'
  OBVIOUS
<1>1. /\ yaml' = yaml /\ places' = places /\ pyfiles' = pyfiles /\ ask' = ask /\ bumps' = bumps /\ earlier' = earlier
      /\ bumping = "look"
  BY DEF Look
<1>2. yaml = earlier.yaml /\ pyfiles = earlier.pyfiles
  BY <1>1 DEF BumpInv, PhaseOK
<1>3. \/ bumping' = "over" /\ outcome' \in {Missing1, Raised}
      \/ /\ ~Unusable /\ yaml.links["source"] = "none" /\ bumping' = "yaml"
      \/ /\ ~Unusable /\ yaml.links["source"] # "none" /\ bumping' = "source"
  BY Zenon DEF Look, Reports, Then
<1>4. FileOf("source")' = FileOf("source")
  BY <1>1, Zenon DEF FileOf, Candidates
<1>5. ~Unusable /\ yaml.links["source"] # "none" => FileOf("source") # 0
  BY DEF Unusable, Kinds
<1>6. BumpTypeOK'
  BY <1>1, <1>3, Zenon DEF BumpInv, BumpTypeOK
<1>7. PhaseOK'
  BY <1>1, <1>2, <1>3, <1>4, <1>5 DEF PhaseOK
<1>8. BumpIsExact'
  <2>1. CASE bumping' = "over"
    <3>1. outcome'.status # "success"
      BY <1>3, <2>1, Statuses
    <3> QED BY <1>1, <1>2, <3>1, FailingEarly
  <2>2. CASE bumping' # "over"
    BY <2>2 DEF BumpIsExact
  <2> QED BY <2>1, <2>2
<1> QED BY <1>6, <1>7, <1>8 DEF BumpInv

(* What an empty or a cut file reads as is a component.                      *)
LEMMA LeftTyped == {Blank, Cut, Gone} \subseteq Components /\ \A c \in {Blank, Cut, Gone} : BareOK(c)
<1> DEFINE unlinked == [k \in Kinds |-> "none"]
           record == [is |-> "file", shape |-> "mapping", version |-> NoVersion, bare |-> FALSE, top |-> NoVersion,
                     stamp |-> NoStamp, topStamp |-> NoStamp, supported |-> TRUE, rooted |-> FALSE,
                     links |-> unlinked, function |-> ""]
<1>1. NoVersion \in Versions
  BY DEF Versions, NoVersion
<1>2. unlinked \in [Kinds -> {"none", "relative", "absolute"}]
  OBVIOUS
<1>0. NoStamp \in Nat
  BY DEF NoStamp
<1>3. Blank = record
  BY DEF Blank
<1> HIDE DEF unlinked
<1>4. Blank \in Components /\ ~Blank.bare
  <2>1. record \in Components
    BY <1>0, <1>1, <1>2 DEF Components
  <2>2. record.bare = FALSE
    OBVIOUS
  <2> QED BY <1>3, <2>1, <2>2
<1>5. Cut \in Components /\ ~Cut.bare
  BY <1>4 DEF Cut, Components
<1>6. Gone \in Components /\ ~Gone.bare
  BY <1>4 DEF Gone, Components
<1> QED BY <1>4, <1>5, <1>6, Zenon DEF BareOK

(* The version before the one to write is one.                               *)
LEMMA BasisTyped ==
  ASSUME ask \in Calls, NEW v \in Versions
  PROVE  Basis(v) \in Versions
BY DEF Basis, Calls

(* Where none is set, the version to write is the one that is due.           *)
LEMMA BumpedIsDue ==
  ASSUME ask \in Calls, NEW v \in Versions, Legible(Basis(v))
  PROVE  Bumped(v) \in Versions /\ Bumped(v) # NoVersion /\ IsDue(v, Bumped(v))
<1>1. Basis(v) \in Versions
  BY BasisTyped
<1>2. CASE Basis(v) = NoVersion
  <2>1. Bumped(v) = <<0, 1>>
    BY <1>2 DEF Bumped
  <2>2. <<0, 1>> \in Versions /\ <<0, 1>> # <<>>
    BY DEF Versions
  <2> QED BY <1>2, <2>1, <2>2, Zenon DEF IsDue, NoVersion
<1>3. CASE Basis(v) # NoVersion
  <2>1. Bumped(v) = increment_version(Basis(v))
    BY <1>3 DEF Bumped
  <2> DEFINE b == Basis(v)
  <2>2. b \in Versions /\ b # <<>> /\ Legible(b)
    BY <1>1, <1>3 DEF NoVersion
  <2> HIDE DEF b
  <2>3. increment_version(b) \in Versions /\ increment_version(b) # <<>>
    BY <2>2, BumpedTyped
  <2>4. IsNext(b, increment_version(b))
    BY <2>2, IncrementIsNext
  <2> QED BY <1>3, <2>1, <2>3, <2>4, Zenon DEF IsDue, b, NoVersion
<1> QED BY <1>2, <1>3

(* Writing the component by itself.                                          *)
LEMMA YamlKeeps == BumpInv /\ update_yaml_file => BumpInv'
<1> SUFFICES ASSUME BumpInv, update_yaml_file PROVE BumpInv'
  OBVIOUS
<1> DEFINE found == get_version_from_data(yaml)
           unread == IF ask.set # NoVersion THEN ask.set ELSE Basis(found)
           version == IF ask.set # NoVersion THEN parse_version(ask.set) ELSE Bumped(found)
           kept == IF yaml.topStamp # NoStamp THEN yaml.topStamp ELSE yaml.stamp
           stamp == IF ask.stamp THEN bumps ELSE kept
           written == [yaml EXCEPT !.version = version, !.bare = FALSE, !.top = NoVersion, !.topStamp = NoStamp,
                                   !.stamp = stamp]
<1>1. /\ bumping = "yaml" /\ bumping' = "over"
      /\ places' = places /\ pyfiles' = pyfiles /\ ask' = ask /\ bumps' = bumps /\ earlier' = earlier
  BY DEF update_yaml_file, Reports
<1>2. \/ yaml' = yaml /\ outcome' \in {Missing1, Raised}
      \/ yaml' \in {Blank, Cut} /\ outcome' = Raised
      \/ Legible(unread) /\ yaml' = written /\ outcome' = Success(written)
  BY Zenon DEF update_yaml_file, Reports
<1>3. yaml = earlier.yaml /\ pyfiles = earlier.pyfiles /\ yaml.links["source"] = "none"
  BY <1>1 DEF BumpInv, PhaseOK
<1>4. yaml \in Components /\ BareOK(yaml) /\ ask \in Calls /\ bumps \in Nat
  BY DEF BumpInv, BumpTypeOK
<1>5. found \in Versions
  BY <1>4, ReadTyped
<1>6. ASSUME Legible(unread)
      PROVE  /\ version \in Versions /\ version # NoVersion
             /\ IF ask.set = NoVersion THEN IsDue(found, version)
                ELSE ~Earlier(version, ThreeParts(ask.set)) /\ ~Earlier(ThreeParts(ask.set), version)
  <2> HIDE DEF found
  <2>1. CASE ask.set = NoVersion
    <3>1. Legible(Basis(found)) /\ version = Bumped(found)
      BY <1>6, <2>1
    <3>2. Bumped(found) \in Versions /\ Bumped(found) # NoVersion /\ IsDue(found, Bumped(found))
      BY <1>4, <1>5, <3>1, BumpedIsDue
    <3> QED BY <2>1, <3>1, <3>2
  <2>2. CASE ask.set # NoVersion
    <3> DEFINE v == ask.set
    <3>1. v \in Versions /\ v # <<>> /\ Legible(v) /\ version = parse_version(v)
      BY <1>4, <1>6, <2>2 DEF Calls, NoVersion
    <3> HIDE DEF v, version
    <3>2. /\ parse_version(v) \in Versions /\ parse_version(v) # <<>>
          /\ ~Earlier(parse_version(v), ThreeParts(v)) /\ ~Earlier(ThreeParts(v), parse_version(v))
      BY <3>1, ParsedIsLevel
    <3> QED BY <2>2, <3>1, <3>2 DEF v, NoVersion
  <2> QED BY <2>1, <2>2
<1> HIDE DEF found, unread, version
<1>7. stamp \in Nat
  BY <1>4 DEF Components, NoStamp
<1> HIDE DEF stamp
<1>8. ASSUME version \in Versions
      PROVE  /\ written \in Components /\ written.bare = FALSE /\ written.version = version /\ written.top = NoVersion
             /\ written.stamp = stamp /\ written.links = yaml.links
  <2>1. <<>> \in Versions
    BY DEF Versions
  <2> QED BY <1>4, <1>7, <1>8, <2>1 DEF Components, NoVersion, NoStamp
<1> HIDE DEF written
<1>9. yaml' \in Components /\ BareOK(yaml)'
  <2>1. \A c \in Components : c.bare = FALSE => BareOK(c)
    BY DEF BareOK
  <2>2. yaml' \in Components /\ BareOK(yaml')
    BY <1>2, <1>4, <1>6, <1>8, <2>1, LeftTyped, Zenon
  <2> QED BY <2>2, Zenon DEF BareOK
<1>10. BumpTypeOK'
  BY <1>1, <1>9, Zenon DEF BumpInv, BumpTypeOK
<1>11. PhaseOK'
  BY <1>1 DEF PhaseOK
<1>12. BumpIsExact'
  <2>1. CASE outcome' \in {Missing1, Raised} /\ yaml' \in {yaml, Blank, Cut}
    <3>1. outcome'.status # "success"
      BY <2>1, Statuses
    <3> QED BY <1>1, <1>3, <2>1, <3>1, FailingEarly
  <2>2. CASE Legible(unread) /\ yaml' = written /\ outcome' = Success(written)
    <3>1. /\ outcome'.status = "success"
          /\ outcome'.old = get_version_from_data(earlier.yaml)
          /\ outcome'.new = get_version_from_data(written)
      BY <2>2 DEF Success
    <3>2. /\ version # NoVersion /\ written.bare = FALSE /\ written.version = version /\ written.top = NoVersion
          /\ written.stamp = stamp /\ written.links = yaml.links
      BY <1>6, <1>8, <2>2
    <3>3. get_version_from_data(written) = version
      BY <3>2 DEF get_version_from_data, VersionText
    <3>4. Touched' = {}
      BY <1>1, <1>3 DEF Touched
    <3>5. ComponentMoved'
      <4>2. outcome'.old = found /\ outcome'.new = version
        BY <1>3, <3>1, <3>3 DEF found
      <4>3. yaml'.stamp = stamp
        BY <2>2, <3>2
      <4>4. stamp = IF ask'.stamp THEN bumps'
                    ELSE IF earlier'.yaml.topStamp # NoStamp THEN earlier'.yaml.topStamp ELSE earlier'.yaml.stamp
        BY <1>1, <1>3 DEF stamp
      <4>5. IF ask'.set = NoVersion THEN IsDue(outcome.old, outcome.new)'
            ELSE ~Earlier(outcome'.new, ThreeParts(ask'.set)) /\ ~Earlier(ThreeParts(ask'.set), outcome'.new)
        <5>1. IsDue(outcome.old, outcome.new)' <=> IsDue(found, version)
          BY <1>1, <4>2 DEF IsDue, Basis
        <5> QED BY <1>1, <1>6, <2>2, <4>2, <5>1
      <4> QED BY <4>3, <4>4, <4>5 DEF ComponentMoved
    <3>6. outcome'.old = IF LosesZeros(earlier.yaml)' THEN Decimal(VersionText(earlier.yaml))' ELSE VersionText(earlier.yaml)'
      BY <1>1, <1>3, <1>4, <3>1, ReadIs
    <3>7. outcome'.new = VersionText(yaml)' /\ ~LosesZeros(yaml)'
      BY <1>6, <1>8, <2>2, <3>1, <3>2, ReadIs
    <3>8. yaml'.top = NoVersion /\ yaml'.links["source"] = "none"
      BY <1>3, <2>2, <3>2
    <3> QED BY <3>1, <3>4, <3>5, <3>6, <3>7, <3>8, Zenon DEF BumpIsExact
  <2> QED BY <1>2, <2>1, <2>2, Zenon
<1> QED BY <1>10, <1>11, <1>12 DEF BumpInv

(* What is left of a file is a run of its functions, without the first at    *)
(* most.                                                                     *)
LEMMA RemainsAre ==
  ASSUME NEW file \in Seq(Documents), Len(file) # 0, NEW left \in Remains(file)
  PROVE  \E skipped \in {0, 1} :
           /\ left \in Seq(Documents) /\ Len(left) \in Nat /\ Len(left) + skipped <= Len(file)
           /\ \A j \in 1..Len(left) : left[j] = file[j + skipped]
<1>1. PICK first \in {1, 2}, last \in 0..Len(file) : left = SubSeq(file, first, last)
  BY DEF Remains
<1>2. Len(file) \in Nat
  BY LenProperties
<1>3. CASE first = 2 /\ last = 0
  <2>1. left = <<>>
    BY <1>1, <1>2, <1>3
  <2>2. left \in Seq(Documents) /\ Len(left) = 0
    BY <2>1
  <2> QED BY <1>2, <2>2
<1>4. CASE ~(first = 2 /\ last = 0)
  <2>1. first \in 1..(Len(file) + 1) /\ last \in (first - 1)..Len(file)
    BY <1>1, <1>2, <1>4
  <2>2. /\ left \in Seq(Documents) /\ Len(left) = last - first + 1
        /\ \A j \in 1..(last - first + 1) : left[j] = file[first + j - 1]
    BY <1>1, <2>1, SubSeqProperties
  <2>3. PICK skipped \in {0, 1} : skipped = first - 1
    BY <1>1
  <2>4. \A j \in 1..Len(left) : left[j] = file[j + skipped]
    BY <1>2, <2>1, <2>2, <2>3
  <2>5. Len(left) \in Nat /\ Len(left) + skipped <= Len(file)
    BY <1>2, <2>1, <2>2, <2>3
  <2> QED BY <2>2, <2>4, <2>5
<1> QED BY <1>3, <1>4

(* Writing the metadata of the source.                                       *)
LEMMA SourceKeeps == BumpInv /\ update_python_file => BumpInv'
<1> SUFFICES ASSUME BumpInv, update_python_file PROVE BumpInv'
  OBVIOUS
<1> DEFINE f == FileOf("source")
           file == pyfiles[f]
           at_function == FunctionOf(file)
           before == file[at_function].version
           version == IF ask.set # NoVersion THEN ask.set ELSE Bumped(before)
           doc == Rewritten(file[at_function], version)
           Legibly == ask.set # NoVersion \/ Legible(Basis(before))
<1>1. /\ bumping = "source"
      /\ yaml' = yaml /\ places' = places /\ ask' = ask /\ bumps' = bumps /\ earlier' = earlier
  BY DEF update_python_file
<1>2. \/ bumping' = "over" /\ outcome' \in {Missing1, Raised} /\ pyfiles' = pyfiles
      \/ /\ at_function # 0 /\ Legibly /\ doc # file[at_function]
         /\ pyfiles' = [pyfiles EXCEPT ![f][at_function] = doc] /\ bumping' = "generate"
      \/ /\ at_function # 0 /\ Legibly /\ doc # file[at_function]
         /\ bumping' = "over" /\ outcome' = Raised
         /\ \E left \in Remains([file EXCEPT ![at_function] = doc]) : pyfiles' = [pyfiles EXCEPT ![f] = left]
  BY Zenon DEF update_python_file, Reports, Then
<1>3. yaml = earlier.yaml /\ pyfiles = earlier.pyfiles /\ yaml.links["source"] # "none" /\ f # 0
  BY <1>1 DEF BumpInv, PhaseOK
<1>4. /\ pyfiles \in Seq(Seq(Documents)) /\ places \in [Kinds -> [Everywhere -> 0..Len(pyfiles)]]
      /\ yaml \in Components /\ ask \in Calls /\ bumps \in Nat
  BY DEF BumpInv, BumpTypeOK
<1>5. Len(pyfiles) \in Nat /\ DOMAIN pyfiles = 1..Len(pyfiles) /\ pyfiles \in [1..Len(pyfiles) -> Seq(Documents)]
  BY <1>4, LenProperties
<1>6. f \in 1..Len(pyfiles)
  <2>1. "source" \in Kinds
    BY DEF Kinds
  <2>2. f \in 0..Len(pyfiles)
    BY <1>4, <1>5, <2>1, FileOfTyped
  <2> HIDE DEF f
  <2> QED BY <1>3, <1>5, <2>2
<1>7. FileOf("source")' = f
  BY <1>1, Zenon DEF FileOf, Candidates
<1> HIDE DEF f
<1>8. file \in Seq(Documents)
  BY <1>5, <1>6
<1> HIDE DEF file, Legibly, at_function
<1>9. ASSUME pyfiles' \in Seq(Seq(Documents)), Len(pyfiles') = Len(pyfiles), bumping' \in {"generate", "over"}
      PROVE  BumpTypeOK'
  <2>1. BareOK(yaml)'
    BY <1>1, Zenon DEF BumpInv, BumpTypeOK, BareOK
  <2>2. BareOK(earlier.yaml)'
    BY <1>1, Zenon DEF BumpInv, BumpTypeOK, BareOK
  <2>3. /\ earlier'.yaml \in Components /\ earlier'.pyfiles \in Seq(Seq(Documents))
        /\ Len(earlier'.pyfiles) = Len(pyfiles')
        /\ places' \in [Kinds -> [Everywhere -> 0..Len(pyfiles')]]
        /\ yaml' \in Components /\ ask' \in Calls /\ bumps' \in Nat
    BY <1>1, <1>9, Zenon DEF BumpInv, BumpTypeOK
  <2>4. bumping' \in {"look", "yaml", "source", "generate", "over"}
    BY <1>9
  <2> QED BY <1>9, <2>1, <2>2, <2>3, <2>4, Zenon DEF BumpTypeOK
<1>10. CASE bumping' = "over" /\ outcome' \in {Missing1, Raised} /\ pyfiles' = pyfiles
  <2>1. BumpTypeOK'
    BY <1>4, <1>9, <1>10
  <2>2. PhaseOK'
    BY <1>10 DEF PhaseOK
  <2>3. outcome'.status # "success"
    BY <1>10, Statuses
  <2>4. BumpIsExact'
    BY <1>1, <1>3, <1>10, <2>3, FailingEarly
  <2> QED BY <2>1, <2>2, <2>4 DEF BumpInv
<1> DEFINE after == [file EXCEPT ![at_function] = doc]
<1>11. ASSUME at_function # 0, Legibly, doc # file[at_function]
       PROVE  /\ at_function \in 1..Len(file) /\ Len(file) \in Nat
              /\ after \in [1..Len(file) -> Documents] /\ after \in Seq(Documents) /\ Len(after) = Len(file)
              /\ after[at_function] = doc /\ doc.name = file[at_function].name /\ doc.version = version
              /\ \A j \in 1..Len(file) : j # at_function => after[j] = file[j]
              /\ Moved(ask, file, after, at_function) /\ doc \in Documents
  <2>1. at_function \in 1..Len(file)
    BY <1>8, <1>11, FunctionFound DEF at_function
  <2>2. file \in [1..Len(file) -> Documents] /\ DOMAIN file = 1..Len(file) /\ Len(file) \in Nat
    BY <1>8, LenProperties
  <2>3. file[at_function] \in Documents
    BY <2>1, <2>2
  <2>4. before \in Versions
    BY <2>3 DEF Documents
  <2>5. /\ version \in Versions
        /\ IF ask.set = NoVersion THEN IsDue(before, version) ELSE version = ask.set
    <3> HIDE DEF before
    <3>1. CASE ask.set # NoVersion
      BY <1>4, <3>1 DEF Calls
    <3>2. CASE ask.set = NoVersion
      <4>1. Legible(Basis(before)) /\ version = Bumped(before)
        BY <1>11, <3>2 DEF Legibly
      <4>2. Bumped(before) \in Versions /\ IsDue(before, Bumped(before))
        BY <1>4, <2>4, <4>1, BumpedIsDue
      <4> QED BY <3>2, <4>1, <4>2
    <3> QED BY <3>1, <3>2
  <2> HIDE DEF version
  <2>6. doc \in Documents /\ doc.name = file[at_function].name /\ doc.version = version
    <3>1. file[at_function].section
      BY <1>11 DEF Rewritten
    <3> DEFINE d == file[at_function]
    <3>2. d \in Documents /\ d.section
      BY <2>3, <3>1
    <3>3. doc = [d EXCEPT !.version = version, !.stamp = IF ask.stamp THEN bumps ELSE NoStamp, !.others = FALSE]
      BY <3>1 DEF Rewritten
    <3>4. (IF ask.stamp THEN bumps ELSE NoStamp) \in Nat
      BY <1>4 DEF NoStamp
    <3> HIDE DEF d, doc
    <3>5. doc \in Documents /\ doc.name = d.name /\ doc.version = version
      BY <2>5, <3>2, <3>3, <3>4 DEF Documents
    <3> QED BY <3>5 DEF d
  <2> HIDE DEF doc
  <2>7. after \in [1..Len(file) -> Documents]
    BY <2>2, <2>6
  <2>8. after \in Seq(Documents) /\ Len(after) = Len(file)
    BY <2>2, <2>7, SeqDef, LenProperties
  <2>9. after[at_function] = doc /\ \A j \in 1..Len(file) : j # at_function => after[j] = file[j]
    BY <2>1, <2>2
  <2>10. Moved(ask, file, after, at_function)
    <3> HIDE DEF after
    <3>1. IsDue(before, version) <=> Due(ask.reference, before, version)
      BY Zenon DEF IsDue, Basis, Due
    <3>2. after[at_function].version = version /\ file[at_function].version = before
      BY <2>6, <2>9
    <3> QED BY <2>5, <2>8, <2>9, <3>1, <3>2, Zenon DEF Moved
  <2> QED BY <2>1, <2>2, <2>6, <2>7, <2>8, <2>9, <2>10
<1>12. CASE /\ at_function # 0 /\ Legibly /\ doc # file[at_function]
            /\ pyfiles' = [pyfiles EXCEPT ![f][at_function] = doc] /\ bumping' = "generate"
  <2>1. /\ at_function \in 1..Len(file) /\ Len(file) \in Nat
        /\ after \in [1..Len(file) -> Documents] /\ after \in Seq(Documents) /\ Len(after) = Len(file)
        /\ after[at_function] = doc /\ doc.name = file[at_function].name /\ doc \in Documents
        /\ Moved(ask, file, after, at_function)
    BY <1>11, <1>12
  <2>10. FunctionOf(after) = at_function
    <3>1. FunctionOf(after) = FunctionOf(file)
      BY <1>8, <2>1, FunctionKept
    <3> QED BY <3>1 DEF at_function
  <2>11. pyfiles' = [pyfiles EXCEPT ![f] = after]
    BY <1>12 DEF file
  <2> HIDE DEF after
  <2>12. pyfiles' \in [1..Len(pyfiles) -> Seq(Documents)] /\ DOMAIN pyfiles' = 1..Len(pyfiles)
    BY <1>5, <2>1, <2>11
  <2>13. pyfiles' \in Seq(Seq(Documents)) /\ Len(pyfiles') = Len(pyfiles)
    BY <1>5, <2>12, SeqDef, LenProperties
  <2>14. BumpTypeOK'
    BY <1>9, <1>12, <2>13
  <2>15. pyfiles'[f] = after /\ earlier'.pyfiles[f] = file
         /\ \A g \in 1..Len(pyfiles) : g # f => pyfiles'[g] = earlier'.pyfiles[g]
    BY <1>1, <1>3, <1>5, <1>6, <2>11 DEF file
  <2>16. Touched' = {f}
    <3>1. after # file
      BY <1>12, <2>1
    <3> QED BY <1>6, <2>12, <2>15, <3>1 DEF Touched
  <2>17. Position(after, yaml.function) = at_function
    <3>1. FunctionOf(after) = Position(after, yaml.function)
      BY Zenon DEF FunctionOf, Position
    <3> QED BY <2>10, <3>1
  <2>19. PhaseOK'
    <3>1. FunctionOf(pyfiles[FileOf("source")])' = Position(pyfiles'[FileOf("source")'], yaml'.function)
      BY Zenon DEF FunctionOf, Position
    <3>2. FunctionOf(pyfiles[FileOf("source")])' = at_function
      BY <1>1, <1>7, <2>15, <2>17, <3>1
    <3>3. SourceMoved(FileOf("source"), FunctionOf(pyfiles[FileOf("source")]))'
          <=> Moved(ask', earlier'.pyfiles[FileOf("source")'], pyfiles'[FileOf("source")'],
                    FunctionOf(pyfiles[FileOf("source")])')
      BY Zenon DEF SourceMoved, DocMoved, IsDue, Basis, Due, Moved
    <3>4. SourceMoved(FileOf("source"), FunctionOf(pyfiles[FileOf("source")]))'
      BY <1>1, <1>7, <2>1, <2>15, <3>2, <3>3
    <3>5. Touched' = {FileOf("source")'} /\ FunctionOf(pyfiles[FileOf("source")])' # 0
      BY <1>7, <1>12, <2>16, <3>2
    <3>6. yaml' = earlier'.yaml /\ yaml'.links["source"] # "none" /\ FileOf("source")' # 0 /\ bumping' = "generate"
      BY <1>1, <1>3, <1>7, <1>12
    <3> QED BY <3>4, <3>5, <3>6 DEF PhaseOK
  <2>20. BumpIsExact'
    BY <1>12 DEF BumpIsExact
  <2> QED BY <2>14, <2>19, <2>20 DEF BumpInv
<1>13. CASE /\ at_function # 0 /\ Legibly /\ doc # file[at_function]
            /\ bumping' = "over" /\ outcome' = Raised
            /\ \E left \in Remains(after) : pyfiles' = [pyfiles EXCEPT ![f] = left]
  <2>1. PICK left \in Remains(after) : pyfiles' = [pyfiles EXCEPT ![f] = left]
    BY <1>13
  <2>2. /\ at_function \in 1..Len(file) /\ Len(file) \in Nat
        /\ after \in Seq(Documents) /\ Len(after) = Len(file)
        /\ Moved(ask, file, after, at_function)
    BY <1>11, <1>13
  <2> HIDE DEF after
  <2>3. PICK skipped \in {0, 1} :
          /\ left \in Seq(Documents) /\ Len(left) \in Nat /\ Len(left) + skipped <= Len(file)
          /\ \A j \in 1..Len(left) : left[j] = after[j + skipped]
    BY <2>1, <2>2, RemainsAre
  <2>4. pyfiles' \in [1..Len(pyfiles) -> Seq(Documents)] /\ DOMAIN pyfiles' = 1..Len(pyfiles)
    BY <1>5, <2>1, <2>3
  <2>5. pyfiles' \in Seq(Seq(Documents)) /\ Len(pyfiles') = Len(pyfiles)
    BY <1>5, <2>4, SeqDef, LenProperties
  <2>6. BumpTypeOK'
    BY <1>9, <1>13, <2>5
  <2>7. PhaseOK'
    BY <1>13 DEF PhaseOK
  <2>8. pyfiles'[f] = left /\ \A g \in 1..Len(pyfiles) : g # f => pyfiles'[g] = earlier'.pyfiles[g]
    BY <1>1, <1>3, <1>5, <1>6, <2>1
  <2>9. Touched' \subseteq {f}
    BY <2>4, <2>8 DEF Touched
  <2>10. earlier'.pyfiles[f] = file /\ yaml' = earlier'.yaml /\ outcome'.status # "success"
    BY <1>1, <1>3, <1>13, Statuses DEF file
  <2>11. PICK g, i, before_it, written :
           g = f /\ i = at_function /\ before_it = file /\ written = after
    OBVIOUS
  <2>12. PartMoved(g, i, skipped)'
    <3> DEFINE IsMoved(d) == IF ask.set = NoVersion THEN Due(ask.reference, before_it[i].version, d.version)
                             ELSE d.version = ask.set
    <3>1. \A d : DocMoved(before_it[i], d)' <=> IsMoved(d)
      <4> TAKE d
      <4>1. DocMoved(before_it[i], d)'
            <=> IF ask'.set = NoVersion THEN Due(ask'.reference, before_it[i].version, d.version)
                ELSE d.version = ask'.set
        BY Zenon DEF DocMoved, IsDue, Basis, Due
      <4> QED BY <1>1, <4>1
    <3>2. IsMoved(written[i]) /\ \A j \in 1..Len(written) : j # i => written[j] = before_it[j]
      BY <2>2, <2>11, Zenon DEF Moved
    <3> HIDE DEF IsMoved
    <3>3. ASSUME NEW j \in 1..Len(left)
          PROVE  IF j + skipped = i THEN DocMoved(before_it[i], left[j])' ELSE left[j] = before_it[j + skipped]
      <4>1. left[j] = written[j + skipped] /\ j + skipped \in 1..Len(written)
        BY <2>2, <2>3, <2>11
      <4>2. CASE j + skipped = i
        <5>1. IsMoved(left[j])
          BY <3>2, <4>1, <4>2
        <5> QED BY <3>1, <4>2, <5>1, Zenon
      <4>3. CASE j + skipped # i
        BY <3>2, <4>1, <4>3
      <4> QED BY <4>2, <4>3
    <3>4. pyfiles'[g] = left /\ earlier'.pyfiles[g] = before_it /\ Len(left) + skipped <= Len(before_it)
      BY <2>3, <2>8, <2>10, <2>11
    <3> QED BY <3>3, <3>4, Zenon DEF PartMoved
  <2>13. \A h \in Touched' : /\ Touched' = {h}
                            /\ \E n \in 1..Len(earlier'.pyfiles[h]), last \in {0, 1} : PartMoved(h, n, last)'
    <3>1. \A h \in Touched' : h = g /\ Touched' = {h}
      BY <2>9, <2>11
    <3>2. i \in 1..Len(earlier'.pyfiles[g])
      BY <2>2, <2>10, <2>11
    <3>3. \E n \in 1..Len(earlier'.pyfiles[g]), last \in {0, 1} : PartMoved(g, n, last)'
      BY <2>12, <3>2, Zenon
    <3> QED BY <3>1, <3>3, Zenon
  <2>14. BumpIsExact'
    BY <2>10, <2>13, Zenon DEF BumpIsExact
  <2> QED BY <2>6, <2>7, <2>14 DEF BumpInv
<1> QED BY <1>2, <1>10, <1>12, <1>13

(* A component generated from a function has its version, its time and its   *)
(* name, and is one.                                                         *)
LEMMA GeneratedFacts ==
  ASSUME yaml \in Components, NEW doc \in Documents
  PROVE  /\ Generated(doc) \in Components /\ Generated(doc).bare = FALSE /\ Generated(doc).rooted = TRUE
         /\ Generated(doc).version = doc.version /\ Generated(doc).top = NoVersion
         /\ Generated(doc).stamp = doc.stamp /\ Generated(doc).function = doc.name
         /\ \A k \in Kinds : Generated(doc).links[k] = IF yaml.links[k] = "none" THEN "none" ELSE "relative"
<1> DEFINE links == [k \in Kinds |-> IF yaml.links[k] = "none" THEN "none" ELSE "relative"]
           made == [yaml EXCEPT !.version = doc.version, !.bare = FALSE, !.top = NoVersion, !.stamp = doc.stamp,
                                !.topStamp = NoStamp, !.rooted = TRUE, !.function = doc.name, !.links = links]
<1>1. /\ doc.version \in Versions /\ doc.stamp \in Nat /\ doc.name \in STRING
      /\ NoVersion \in Versions /\ NoStamp \in Nat
  BY DEF Documents, Versions, NoVersion, NoStamp
<1>2. links \in [Kinds -> {"none", "relative", "absolute"}]
  OBVIOUS
<1>3. Generated(doc) = made
  BY DEF Generated
<1> HIDE DEF links
<1>4. made \in Components
  BY <1>1, <1>2 DEF Components
<1>5. /\ made.bare = FALSE /\ made.rooted = TRUE /\ made.version = doc.version /\ made.top = NoVersion
      /\ made.stamp = doc.stamp /\ made.function = doc.name /\ made.links = links
  BY DEF Components
<1> HIDE DEF made
<1>6. \A k \in Kinds : links[k] = IF yaml.links[k] = "none" THEN "none" ELSE "relative"
  BY DEF links
<1> QED BY <1>3, <1>4, <1>5, <1>6

(* A source found where the generation has recorded it is the same file.     *)
LEMMA FoundAgain ==
  ASSUME yaml'.links["source"] # "absolute", yaml'.rooted = TRUE, NEW f, places'["source"]["common"] = f, f # 0
  PROVE  FileOf("source")' = f
<1> DEFINE c == Candidates("source")'
           found == {i \in DOMAIN c : places'["source"][c[i]] # 0}
<1>1. c = <<"common">> \o <<"beside">> \o <<"sources", "basename">>
  BY DEF Candidates
<1>2. c = <<"common", "beside", "sources", "basename">>
  BY <1>1
<1>3. FileOf("source")' = IF found = {} THEN 0 ELSE places'["source"][c[Min(found)]]
  BY Zenon DEF FileOf
<1> HIDE DEF c
<1>4. DOMAIN c = 1..4 /\ c[1] = "common"
  BY <1>2
<1>5. 1 \in found /\ found \in SUBSET Nat /\ \A y \in found : y >= 1
  BY <1>4
<1> HIDE DEF found
<1> DEFINE m == Min(found)
<1>6. m \in found /\ \A y \in found : m <= y
  BY <1>5, LeastIsMin
<1> HIDE DEF m
<1>7. m \in Nat /\ m >= 1 /\ m <= 1
  BY <1>5, <1>6
<1>8. m = 1
  BY <1>7
<1> QED BY <1>3, <1>4, <1>5, <1>8, Zenon DEF m

(* Generating the component from the source that was written.                *)
LEMMA GenerationKeeps == BumpInv /\ run_generation => BumpInv'
<1> SUFFICES ASSUME BumpInv, run_generation PROVE BumpInv'
  OBVIOUS
<1> DEFINE f == FileOf("source")
           file == pyfiles[f]
           at_function == FunctionOf(file)
           doc == file[at_function]
           component == Generated(doc)
           found == [k \in Kinds |-> IF yaml.links[k] = "none" THEN places[k]
                                     ELSE [places[k] EXCEPT !["common"] = FileOf(k)]]
<1>1. /\ bumping = "generate" /\ bumping' = "over"
      /\ pyfiles' = pyfiles /\ ask' = ask /\ bumps' = bumps /\ earlier' = earlier
  BY DEF run_generation, Reports
<1>2. \/ yaml' = component /\ outcome' = Success(component) /\ places' = found
      \/ outcome' \in {Missing1, Raised} /\ yaml' \in {yaml, Gone, Blank, Cut} /\ places' = places
  BY Zenon DEF run_generation, Reports
<1>3. /\ yaml = earlier.yaml /\ yaml.links["source"] # "none" /\ f # 0
      /\ Touched = {f} /\ at_function # 0 /\ SourceMoved(f, at_function)
  BY <1>1, Zenon DEF BumpInv, PhaseOK
<1>4. /\ pyfiles \in Seq(Seq(Documents)) /\ places \in [Kinds -> [Everywhere -> 0..Len(pyfiles)]]
      /\ yaml \in Components /\ BareOK(yaml) /\ ask \in Calls /\ bumps \in Nat
  BY DEF BumpInv, BumpTypeOK
<1>5. Len(pyfiles) \in Nat /\ DOMAIN pyfiles = 1..Len(pyfiles) /\ pyfiles \in [1..Len(pyfiles) -> Seq(Documents)]
  BY <1>4, LenProperties
<1>6. \A k \in Kinds : FileOf(k) \in 0..Len(pyfiles)
  BY <1>4, <1>5, FileOfTyped
<1>7. "source" \in Kinds /\ f \in 1..Len(pyfiles)
  <2>1. "source" \in Kinds
    BY DEF Kinds
  <2>2. f \in 0..Len(pyfiles)
    BY <1>6, <2>1
  <2> HIDE DEF f
  <2> QED BY <1>3, <1>5, <2>1, <2>2
<1> HIDE DEF f
<1>8. file \in Seq(Documents)
  BY <1>5, <1>7
<1> HIDE DEF file
<1>9. at_function \in 1..Len(file) /\ yaml.function \in {"", doc.name}
  <2>1. FunctionOf(file) # 0
    BY <1>3 DEF file
  <2> QED BY <1>8, <2>1, FunctionFound
<1> HIDE DEF at_function
<1>10. doc \in Documents
  BY <1>8, <1>9, ElementOfSeq
<1> HIDE DEF doc
<1>11. /\ component \in Components /\ component.bare = FALSE /\ component.rooted = TRUE
       /\ component.version = doc.version /\ component.top = NoVersion
       /\ component.stamp = doc.stamp /\ component.function = doc.name
       /\ component.links["source"] = "relative"
  BY <1>3, <1>4, <1>7, <1>10, GeneratedFacts
<1> HIDE DEF component
<1>12. found \in [Kinds -> [Everywhere -> 0..Len(pyfiles)]] /\ found["source"]["common"] = f
  <2>1. ASSUME NEW k \in Kinds
        PROVE  [places[k] EXCEPT !["common"] = FileOf(k)] \in [Everywhere -> 0..Len(pyfiles)]
    BY <1>4, <1>6
  <2>2. found \in [Kinds -> [Everywhere -> 0..Len(pyfiles)]]
    BY <1>4, <2>1
  <2>3. found["source"] = [places["source"] EXCEPT !["common"] = f]
    BY <1>3, <1>7 DEF f
  <2>4. "common" \in Everywhere /\ places["source"] \in [Everywhere -> 0..Len(pyfiles)]
    BY <1>4, <1>7 DEF Everywhere
  <2>5. found["source"]["common"] = f
    BY <2>3, <2>4
  <2> QED BY <2>2, <2>5
<1> HIDE DEF found
<1>13. BumpTypeOK'
  <2>1. yaml' \in Components /\ BareOK(yaml')
    <3>1. \A c \in Components : c.bare = FALSE => BareOK(c)
      BY DEF BareOK
    <3> QED BY <1>2, <1>4, <1>11, <3>1, LeftTyped, Zenon
  <2>2. BareOK(yaml)' /\ BareOK(earlier.yaml)'
    BY <1>1, <2>1, Zenon DEF BareOK, BumpInv, BumpTypeOK
  <2>3. places' \in [Kinds -> [Everywhere -> 0..Len(pyfiles)]]
    BY <1>2, <1>4, <1>12, Zenon
  <2>4. /\ earlier'.yaml \in Components /\ earlier'.pyfiles \in Seq(Seq(Documents))
        /\ Len(earlier'.pyfiles) = Len(pyfiles')
    BY <1>1, Zenon DEF BumpInv, BumpTypeOK
  <2> QED BY <1>1, <1>4, <2>1, <2>2, <2>3, <2>4, Zenon DEF BumpTypeOK
<1>14. PhaseOK'
  BY <1>1 DEF PhaseOK
<1>15. Touched' = {f}
  BY <1>1, <1>3 DEF Touched
<1>16. Moved(ask, earlier.pyfiles[f], file, at_function)
  BY <1>3, Zenon DEF SourceMoved, DocMoved, IsDue, Basis, Due, Moved, file
<1>18. BumpIsExact'
  <2>1. PICK g : g = f
    OBVIOUS
  <2>2. \A i : SourceMoved(g, i)' <=> Moved(ask', earlier'.pyfiles[g], pyfiles'[g], i)
    BY Zenon DEF SourceMoved, DocMoved, IsDue, Basis, Due, Moved
  <2>3. pyfiles'[g] = file /\ earlier'.pyfiles[g] = earlier.pyfiles[f] /\ Touched' = {g}
    BY <1>1, <1>15, <2>1 DEF file
  <2>4. PICK i : i = at_function
    OBVIOUS
  <2>5. i \in 1..Len(pyfiles'[g]) /\ SourceMoved(g, i)' /\ pyfiles'[g][i] = doc
    <3>1. SourceMoved(g, i)'
      BY <1>1, <1>16, <2>2, <2>3, <2>4
    <3> QED BY <1>9, <2>3, <2>4, <3>1 DEF doc
  <2>6. CASE yaml' = component /\ outcome' = Success(component) /\ places' = found
    <3>1. /\ outcome'.status = "success"
          /\ outcome'.old = get_version_from_data(earlier.yaml)
          /\ outcome'.new = get_version_from_data(component)
      BY <2>6 DEF Success
    <3>2. get_version_from_data(component) = doc.version
      BY <1>11 DEF get_version_from_data, VersionText
    <3>3. outcome'.old = IF LosesZeros(earlier.yaml)' THEN Decimal(VersionText(earlier.yaml))' ELSE VersionText(earlier.yaml)'
      BY <1>1, <1>3, <1>4, <3>1, ReadIs
    <3>4. outcome'.new = VersionText(yaml)' /\ ~LosesZeros(yaml)'
      BY <1>11, <2>6, <3>1, ReadIs
    <3>5. FileOf("source")' = g
      <4>1. yaml'.links["source"] # "absolute" /\ yaml'.rooted = TRUE /\ places'["source"]["common"] = g /\ g # 0
        BY <1>3, <1>11, <1>12, <2>1, <2>6
      <4> QED BY <4>1, FoundAgain
    <3>6. yaml'.top = NoVersion /\ yaml'.stamp = doc.stamp /\ yaml'.function = doc.name
      BY <1>11, <2>6
    <3>7. earlier'.yaml.function \in {"", yaml'.function}
      BY <1>1, <1>3, <1>9, <3>6
    <3>8. /\ SourceMoved(g, i)' /\ pyfiles'[g][i].version = outcome'.new
          /\ pyfiles'[g][i].stamp = yaml'.stamp /\ pyfiles'[g][i].name = yaml'.function
      BY <2>5, <3>1, <3>2, <3>6
    <3>9. \E h \in Touched' : Touched' = {h} /\ FileOf("source")' = h /\ \E j \in 1..Len(pyfiles'[h]) :
             /\ SourceMoved(h, j)'
             /\ pyfiles'[h][j].version = outcome'.new /\ pyfiles'[h][j].stamp = yaml'.stamp
             /\ pyfiles'[h][j].name = yaml'.function /\ earlier'.yaml.function \in {"", yaml'.function}
      <4>1. g \in Touched'
        BY <2>3
      <4> QED BY <2>3, <2>5, <3>5, <3>7, <3>8, <4>1, Zenon
    <3> QED BY <3>1, <3>3, <3>4, <3>6, <3>9, Zenon DEF BumpIsExact
  <2>7. CASE outcome' \in {Missing1, Raised} /\ yaml' \in {yaml, Gone, Blank, Cut}
    <3>1. outcome'.status # "success"
      BY <2>7, Statuses
    <3>2. yaml' \in {earlier'.yaml, Blank, Cut, Gone}
      BY <1>1, <1>3, <2>7
    <3>3. \A h \in Touched' : Touched' = {h} /\ \E j \in 1..Len(pyfiles'[h]) : SourceMoved(h, j)'
      <4>1. \A h \in Touched' : h = g
        BY <2>3
      <4>2. \E j \in 1..Len(pyfiles'[g]) : SourceMoved(g, j)'
        BY <2>5
      <4> QED BY <2>3, <4>1, <4>2, Zenon
    <3>4. Touched' # {}
      BY <2>3
    <3> QED BY <3>1, <3>2, <3>3, <3>4, Zenon DEF BumpIsExact
  <2> QED BY <1>2, <2>6, <2>7, Zenon
<1> QED BY <1>13, <1>14, <1>18 DEF BumpInv

(* A step that leaves the files and the calls as they are keeps it too.      *)
LEMMA BumpStutters == BumpInv /\ UNCHANGED bumpVars => BumpInv'
<1> SUFFICES ASSUME BumpInv, UNCHANGED bumpVars PROVE BumpInv'
  OBVIOUS
<1>1. /\ yaml' = yaml /\ places' = places /\ pyfiles' = pyfiles /\ ask' = ask
      /\ bumping' = bumping /\ bumps' = bumps /\ outcome' = outcome /\ earlier' = earlier
  BY DEF bumpVars
<1>2. BumpTypeOK'
  BY <1>1, Zenon DEF BumpInv, BumpTypeOK, BareOK
<1>3. FileOf("source")' = FileOf("source") /\ Touched' = Touched
  BY <1>1, Zenon DEF FileOf, Candidates, Touched
<1>4. \A f, i : SourceMoved(f, i)' <=> SourceMoved(f, i)
  <2> TAKE f, i
  <2>2. SourceMoved(f, i) <=> Moved(ask, earlier.pyfiles[f], pyfiles[f], i)
    BY Zenon DEF SourceMoved, DocMoved, IsDue, Basis, Due, Moved
  <2>3. SourceMoved(f, i)' <=> Moved(ask', earlier'.pyfiles[f], pyfiles'[f], i)
    BY Zenon DEF SourceMoved, DocMoved, IsDue, Basis, Due, Moved
  <2> QED BY <1>1, <2>2, <2>3
<1>5. PhaseOK'
  <2> DEFINE f == FileOf("source")
             n == FunctionOf(pyfiles[f])
  <2>1. f' = f
    BY <1>3
  <2>2. n' = Position(pyfiles'[f'], yaml'.function) /\ n = Position(pyfiles[f], yaml.function)
    BY Zenon DEF FunctionOf, Position
  <2>3. n' = n
    BY <1>1, <2>1, <2>2
  <2>4. SourceMoved(f, n)' <=> Moved(ask', earlier'.pyfiles[f'], pyfiles'[f'], n')
    BY Zenon DEF SourceMoved, DocMoved, IsDue, Basis, Due, Moved
  <2>5. SourceMoved(f, n) <=> Moved(ask, earlier.pyfiles[f], pyfiles[f], n)
    BY Zenon DEF SourceMoved, DocMoved, IsDue, Basis, Due, Moved
  <2>6. SourceMoved(f, n)' <=> SourceMoved(f, n)
    BY <1>1, <2>1, <2>3, <2>4, <2>5
  <2>7. bumping = "generate" => Touched = {f} /\ n # 0 /\ SourceMoved(f, n)
    BY Zenon DEF BumpInv, PhaseOK
  <2>8. bumping' = "generate" => Touched' = {f'} /\ n' # 0 /\ SourceMoved(f, n)'
    BY <1>1, <1>3, <2>1, <2>3, <2>6, <2>7
  <2>9. /\ bumping' # "over" => yaml' = earlier'.yaml
        /\ bumping' \in {"look", "yaml", "source"} => pyfiles' = earlier'.pyfiles
        /\ bumping' = "yaml" => yaml'.links["source"] = "none"
        /\ bumping' \in {"source", "generate"} => yaml'.links["source"] # "none" /\ f' # 0
    BY <1>1, <2>1 DEF BumpInv, PhaseOK
  <2> QED BY <2>8, <2>9, Zenon DEF PhaseOK
<1>6. BumpIsExact'
  <2>1. ComponentMoved' <=> ComponentMoved
    <3>1. IsDue(outcome.old, outcome.new)' <=> Due(ask'.reference, outcome'.old, outcome'.new)
      BY Zenon DEF IsDue, Basis, Due
    <3>2. IsDue(outcome.old, outcome.new) <=> Due(ask.reference, outcome.old, outcome.new)
      BY Zenon DEF IsDue, Basis, Due
    <3> QED BY <1>1, <3>1, <3>2 DEF ComponentMoved
  <2>2. /\ VersionText(earlier.yaml)' = VersionText(earlier.yaml) /\ VersionText(yaml)' = VersionText(yaml)
        /\ Decimal(VersionText(earlier.yaml))' = Decimal(VersionText(earlier.yaml))
        /\ LosesZeros(earlier.yaml)' <=> LosesZeros(earlier.yaml)
        /\ LosesZeros(yaml)' <=> LosesZeros(yaml)
    BY <1>1
  <2>3. \A f, i, skipped : PartMoved(f, i, skipped)' <=> PartMoved(f, i, skipped)
    <3> TAKE f, i, skipped
    <3> DEFINE IsLeft(asked, before, left) ==
                 /\ Len(left) + skipped <= Len(before)
                 /\ \A j \in 1..Len(left) :
                      IF j + skipped = i
                      THEN IF asked.set = NoVersion THEN Due(asked.reference, before[i].version, left[j].version)
                           ELSE left[j].version = asked.set
                      ELSE left[j] = before[j + skipped]
    <3>1. PartMoved(f, i, skipped) <=> IsLeft(ask, earlier.pyfiles[f], pyfiles[f])
      BY Zenon DEF PartMoved, DocMoved, IsDue, Basis, Due
    <3>2. PartMoved(f, i, skipped)' <=> IsLeft(ask', earlier'.pyfiles[f], pyfiles'[f])
      BY Zenon DEF PartMoved, DocMoved, IsDue, Basis, Due
    <3> HIDE DEF IsLeft
    <3> QED BY <1>1, <3>1, <3>2
  <2> QED BY <1>1, <1>3, <1>4, <2>1, <2>2, <2>3 DEF BumpInv, BumpIsExact
<1> QED BY <1>2, <1>5, <1>6 DEF BumpInv

(* For any workshops, calls and number of calls: a bump that succeeds leaves *)
(* the component and its source at one version, the next one or the one that *)
(* was set, which is read as it is written, and has touched no other file;   *)
(* one that fails has touched the component only by failing to write it or   *)
(* to strip its source, and then the source, one version ahead or in part    *)
(* what was to be written, is the only other file it touched                 *)
(* (version_manager.py).                                                     *)
THEOREM BumpsAreExact == BumpSpec => []BumpIsExact
<1>1. BumpInit => BumpInv
  BY BumpInitially
<1>2. BumpInv /\ [BumpStep]_bumpVars => BumpInv'
  BY BumpCallKeeps, LookKeeps, YamlKeeps, SourceKeeps, GenerationKeeps, BumpStutters DEF BumpStep
<1>3. BumpInv => BumpIsExact
  BY DEF BumpInv
<1> QED BY <1>1, <1>2, <1>3, PTL DEF BumpSpec

-----------------------------------------------------------------------------
(* TaskSidecar: paths. *)

(* A nonempty set of sequences no longer than a bound has a longest one.     *)
LEMMA LongestExists ==
  ASSUME NEW S, S # {}, NEW bound \in Nat, \A s \in S : Len(s) \in 0..bound
  PROVE  \E s \in S : \A e \in S : Len(e) <= Len(s)
<1> DEFINE gaps == {bound - Len(s) : s \in S}
           m == Min(gaps)
<1>1. gaps \in SUBSET Nat /\ gaps # {}
  OBVIOUS
<1>2. m \in gaps /\ \A y \in gaps : m <= y
  BY <1>1, LeastIsMin
<1>3. PICK s \in S : m = bound - Len(s)
  BY <1>2
<1>4. \A e \in S : m <= bound - Len(e)
  BY <1>2
<1> HIDE DEF m
<1>5. ASSUME NEW e \in S PROVE Len(e) <= Len(s)
  BY <1>3, <1>4
<1> QED BY <1>5

(* The path from a directory to a target leads there.                        *)
LEMMA RelPathLeads ==
  ASSUME NEW target \in FilePaths, NEW start \in FilePaths
  PROVE  RelPath(target, start) \in Relatives /\ At(start, RelPath(target, start)) = target
<1> DEFINE S == {target, start}
           common == LongestCommonPrefix(S)
           same == Len(common)
<1>1. \A p \in CommonPrefixes(S) : IsPrefix(p, target) /\ IsPrefix(p, start) /\ Len(p) \in 0..Len(target)
  <2>1. ASSUME NEW s \in S, NEW l \in 0..Len(s) PROVE Len(SubSeq(s, 1, l)) \in Nat
    BY <2>1, LenProperties DEF FilePaths
  <2> QED BY <2>1 DEF CommonPrefixes, Prefixes, IsPrefix
<1>2. <<>> \in CommonPrefixes(S)
  BY DEF CommonPrefixes, Prefixes, IsPrefix, FilePaths
<1>3. \E p \in CommonPrefixes(S) : \A e \in CommonPrefixes(S) : Len(e) <= Len(p)
  <2>1. Len(target) \in Nat
    BY DEF FilePaths
  <2> QED BY <1>1, <1>2, <2>1, LongestExists
<1>4. common \in CommonPrefixes(S)
  BY <1>3 DEF LongestCommonPrefix
<1>5. /\ same \in 0..Len(target) /\ same <= Len(start)
      /\ SubSeq(target, 1, same) = SubSeq(start, 1, same)
  BY <1>1, <1>4 DEF IsPrefix
<1> HIDE DEF common
<1>6. SubSeq(target, 1, same) \o SubSeq(target, same + 1, Len(target)) = target
  <2>1. SubSeq(target, 1, same) \o SubSeq(target, same + 1, Len(target)) = SubSeq(target, 1, Len(target))
    <3>1. target \in Seq(STRING) /\ Len(target) \in Nat /\ 1 \in 1..Len(target) + 1
      BY DEF FilePaths
    <3>2. same \in 1 - 1 .. Len(target) /\ Len(target) \in same..Len(target)
      BY <1>5, <3>1
    <3> QED BY <3>1, <3>2, ConcatAdjacentSubSeq, Zenon
  <2> QED BY <2>1, SubSeqFull DEF FilePaths
<1>7. RelPath(target, start) = [up |-> Len(start) - same, down |-> SubSeq(target, same + 1, Len(target))]
  BY DEF RelPath, common
<1>8. Len(start) - (Len(start) - same) = same /\ Len(start) - same \in Nat
  BY <1>5 DEF FilePaths
<1>9. SubSeq(target, same + 1, Len(target)) \in FilePaths
  BY <1>5 DEF FilePaths
<1>10. At(start, RelPath(target, start)) =
         SubSeq(start, 1, same) \o SubSeq(target, same + 1, Len(target))
  <2> DEFINE rel == RelPath(target, start)
  <2>1. rel.up = Len(start) - same /\ rel.down = SubSeq(target, same + 1, Len(target))
    BY <1>7
  <2> HIDE DEF rel
  <2>2. ~(rel.up > Len(start)) /\ Len(start) - rel.up = same
    BY <1>5, <2>1 DEF FilePaths
  <2>3. At(start, rel) = SubSeq(start, 1, Len(start) - rel.up) \o rel.down
    BY <2>2, Zenon DEF At
  <2> QED BY <2>1, <2>2, <2>3 DEF rel
<1>11. RelPath(target, start) \in Relatives
  BY <1>7, <1>8, <1>9 DEF Relatives
<1> QED BY <1>5, <1>6, <1>10, <1>11

(* What a relative path leads to is a path.                                  *)
LEMMA AtIsPath ==
  ASSUME NEW dir \in FilePaths, NEW rel \in Relatives
  PROVE  At(dir, rel) \in FilePaths
BY DEF At, Relatives, FilePaths

(* Of directories above a path, Deepest is one that none is deeper than.     *)
LEMMA DeepestIs ==
  ASSUME NEW route \in FilePaths, NEW above \in SUBSET Ancestors(route), above # {}
  PROVE  /\ Deepest(above) \in above /\ Deepest(above) \in FilePaths
         /\ \A d \in above : Len(d) \in Nat /\ Len(d) <= Len(Deepest(above))
<1>1. \A d \in above : d \in FilePaths /\ Len(d) \in 0..Len(route)
  BY DEF Ancestors, FilePaths
<1>2. \E d \in above : \A e \in above : Len(e) <= Len(d)
  <2>1. Len(route) \in Nat
    BY DEF FilePaths
  <2> QED BY <1>1, <2>1, LongestExists
<1> QED BY <1>1, <1>2 DEF Deepest

-----------------------------------------------------------------------------
(* TaskSidecar: the tasks of a compilation. *)

(* What is known of a task of a compilation, by its kind.                    *)
LEMMA TaskFacts ==
  ASSUME NEW g \in RefCalls, NEW i \in Tasks(g)
  PROVE  LET t == g.tasks[i]
         IN /\ i \in Nat /\ i # 0
            /\ t.kind \in {"task", "registered", "author", "child"}
            /\ t.kind = "task" => /\ t.file \in FilePaths \ {<<>>} /\ t.root \in FilePaths /\ t.deps \in FilePaths
            /\ t.kind = "registered" =>
                 /\ t.file \in FilePaths \ {<<>>}
                 /\ t.config.is \in {"remote", "absolute", "file", "relative", "none"}
                 /\ t.config.is # "none" => t.config.path \in Relatives
            /\ t.kind \in {"author", "child"} => t.url \in WrittenUrls
<1> DEFINE t == g.tasks[i]
<1>1. i \in Nat /\ i # 0 /\ t \in CalledTasks \cup RegisteredTasks \cup WrittenTasks
  BY RefsConstantsOK, LenProperties, ElementOfSeq DEF Tasks
<1> HIDE DEF t
<1>2. CASE t \in CalledTasks
  BY <1>1, <1>2 DEF CalledTasks, t
<1>3. CASE t \in RegisteredTasks
  BY <1>1, <1>3 DEF RegisteredTasks, t
<1>4. CASE t \in WrittenTasks
  BY <1>1, <1>4 DEF WrittenTasks, t
<1> QED BY <1>1, <1>2, <1>3, <1>4

(* The directories of a compilation are paths.                               *)
LEMMA GraphFacts ==
  ASSUME NEW g \in RefCalls
  PROVE  g.source \in FilePaths /\ g.out \in FilePaths /\ g.files \subseteq FilePaths /\ g.zones \subseteq FilePaths
BY RefsConstantsOK

(* An optional path, written from a directory and read from it again.        *)
LEMMA OptionReads ==
  ASSUME NEW route \in FilePaths, NEW other \in FilePaths, NEW from \in FilePaths
  PROVE  /\ RelOption(route, from) = NoPath <=> route = <<>>
         /\ route # <<>> => At(from, RelOption(route, from)) = route
         /\ RelOption(route, from) = RelOption(other, from) => route = other
         /\ RelPath(route, from) # NoPath
         /\ RelPath(route, from) = RelPath(other, from) => route = other
<1>1. ASSUME NEW p \in FilePaths
      PROVE  RelPath(p, from) # NoPath /\ At(from, RelPath(p, from)) = p
  <2>1. RelPath(p, from) \in Relatives /\ At(from, RelPath(p, from)) = p
    BY RelPathLeads
  <2>2. NoPath \notin Relatives
    BY DEF NoPath, Relatives
  <2> QED BY <2>1, <2>2
<1> QED BY <1>1 DEF RelOption

(* A task that calls a function: its file, root and requirements are paths.  *)
IsCall(t) == t.file \in FilePaths /\ t.root \in FilePaths /\ t.deps \in FilePaths

(* The identity of a call tells exactly what its component is.               *)
LEMMA IdentityIsComponent ==
  ASSUME graph \in RefCalls, NEW t, IsCall(t), NEW u, IsCall(u)
  PROVE  Identity(t) = Identity(u) <=> Component(t) = Component(u)
<1>1. graph.source \in FilePaths
  BY GraphFacts
<1>2. ASSUME Identity(t) = Identity(u) PROVE Component(t) = Component(u)
  <2> DEFINE p == Identity(t).generation
             q == Identity(u).generation
  <2>1. /\ p.image = Image(t) /\ p.function = t.function /\ p.keys = t.keys
        /\ p.root = RelOption(t.root, graph.source) /\ p.deps = RelOption(t.deps, graph.source)
        /\ p.file = RelPath(t.file, graph.source)
        /\ p.mode = (IF t.mode = Absent THEN "inline" ELSE t.mode)
    BY DEF Identity, Payload
  <2>2. /\ q.image = Image(u) /\ q.function = u.function /\ q.keys = u.keys
        /\ q.root = RelOption(u.root, graph.source) /\ q.deps = RelOption(u.deps, graph.source)
        /\ q.file = RelPath(u.file, graph.source)
        /\ q.mode = (IF u.mode = Absent THEN "inline" ELSE u.mode)
    BY DEF Identity, Payload
  <2>3. p = q /\ t.scope = u.scope
    BY <1>2 DEF Identity
  <2> HIDE DEF p, q
  <2>4. t.file = u.file /\ t.root = u.root /\ t.deps = u.deps
    BY <1>1, <2>1, <2>2, <2>3, OptionReads DEF IsCall
  <2> QED BY <2>1, <2>2, <2>3, <2>4 DEF Component
<1>3. ASSUME Component(t) = Component(u) PROVE Identity(t) = Identity(u)
  <2>1. /\ t.file = u.file /\ t.root = u.root /\ t.deps = u.deps /\ t.keys = u.keys
        /\ t.scope = u.scope /\ t.function = u.function /\ Image(t) = Image(u)
        /\ (IF t.mode = Absent THEN "inline" ELSE t.mode) = (IF u.mode = Absent THEN "inline" ELSE u.mode)
    BY <1>3 DEF Component
  <2>2. ASSUME NEW x
        PROVE  Identity(x).generation =
                 [image |-> Image(x), function |-> x.function,
                  mode |-> IF x.mode = Absent THEN "inline" ELSE x.mode,
                  root |-> RelOption(x.root, graph.source), deps |-> RelOption(x.deps, graph.source),
                  keys |-> x.keys, file |-> RelPath(x.file, graph.source)]
    BY DEF Identity, Payload
  <2>3. Identity(t).generation = Identity(u).generation
    BY <2>1, <2>2
  <2>4. ASSUME NEW x
        PROVE  Identity(x) = [module |-> LogicalModule(x.file), scope |-> x.scope,
                              function |-> x.function, generation |-> Identity(x).generation]
    BY DEF Identity
  <2> QED BY <2>1, <2>3, <2>4
<1> QED BY <1>2, <1>3

(* The spelling that leaves the mode out is the shorter of two that agree on *)
(* everything else.                                                          *)
LEMMA SpellingOf ==
  ASSUME NEW t, NEW u, NEW from, Component(t) = Component(u)
  PROVE  LET p == Payload(t, from)
             q == Payload(u, from)
         IN /\ Spelling(p) \in Nat
            /\ Spelling(p) <= Spelling(q) /\ u.mode = Absent => t.mode = Absent
<1> DEFINE p == Payload(t, from)
           q == Payload(u, from)
           K == {"image", "mode", "keys"}
           P == {x \in K : p[x] # Absent}
           Q == {x \in K : q[x] # Absent}
<1>1. /\ p.image = Image(t) /\ p.keys = t.keys /\ p.mode = t.mode
      /\ q.image = Image(u) /\ q.keys = u.keys /\ q.mode = u.mode
  BY DEF Payload
<1>2. Image(t) = Image(u) /\ t.keys = u.keys
  BY DEF Component
<1> HIDE DEF p, q
<1>3. IsFiniteSet(K)
  <2>1. K = (({} \cup {"image"}) \cup {"mode"}) \cup {"keys"}
    OBVIOUS
  <2>2. IsFiniteSet({} \cup {"image"})
    BY FS_EmptySet, FS_AddElement
  <2>3. IsFiniteSet(({} \cup {"image"}) \cup {"mode"})
    BY <2>2, FS_AddElement
  <2> QED BY <2>1, <2>3, FS_AddElement
<1>4. IsFiniteSet(P) /\ IsFiniteSet(Q) /\ Cardinality(P) \in Nat /\ Cardinality(Q) \in Nat
  BY <1>3, FS_Subset, FS_CardinalityType
<1>5. ASSUME u.mode = Absent, t.mode # Absent PROVE Cardinality(P) = Cardinality(Q) + 1
  <2>1. P = Q \cup {"mode"} /\ "mode" \notin Q
    BY <1>1, <1>2, <1>5
  <2> QED BY <1>4, <2>1, FS_AddElement
<1> QED BY <1>4, <1>5 DEF Spelling, p, q

-----------------------------------------------------------------------------
(* TaskSidecar: the invariant. *)

AllCalls == OfKind(graph, "task")
TaskOf(i) == graph.tasks[i]
Planned == {i \in AllCalls : at_ref = "plan" => i <= ref}
Identities(f) == {Identity(TaskOf(i)) : i \in {j \in Planned : TaskOf(j).function = f}}

RefsTyped ==
  /\ graph \in RefCalls /\ ref \in Nat /\ DOMAIN urls = Tasks(graph)
  /\ at_ref \in {"plan", "entries", "relocate", "register", "check", "done"}
  /\ at_ref = "relocate" => ref = 0
RefusedOK ==
  refused # 0 => at_ref = "done" /\ refused \in Tasks(graph) /\ AtFault(TaskOf(refused))

(* An entry of a call: the payload of a planned call of its component, in    *)
(* the shortest spelling of those planned.                                   *)
EntryOf(t) == variants[t.function][Identity(t)]
Fits(entry, t) ==
  /\ entry.publish = t.publish
  /\ Spelling(entry.payload) <= Spelling(Payload(t, graph.out))
  /\ \E j \in Planned : Identity(TaskOf(j)) = Identity(t) /\ entry.payload = Payload(TaskOf(j), graph.out)
VariantsOK ==
  /\ DOMAIN variants = {TaskOf(i).function : i \in Planned}
  /\ \A f \in DOMAIN variants : DOMAIN variants[f] = Identities(f)
  /\ \A i \in Planned : graph.sidecar /\ ~PayloadFails(TaskOf(i)) /\ Fits(EntryOf(TaskOf(i)), TaskOf(i))
EntriesOK == at_ref \notin {"plan", "entries"} => EntriesDescribe

(* What a URL is so far, for each kind of task.                              *)
CallUrlOK(i) == at_ref \in {"plan", "entries"} \/ urls[i].is = "sidecar"
AuthorUrlOK(i) ==
  IF at_ref \in {"plan", "entries", "relocate"} \/ TaskOf(i).url.is # "relative" THEN urls[i] = TaskOf(i).url
  ELSE /\ urls[i].is = "relative"
       /\ urls[i].path = RelPath(At(graph.source, TaskOf(i).url.path), graph.out)
RegisteredUrlOK(i) ==
  LET config == ConfigOf(TaskOf(i))
  IN at_ref \in {"check", "done"} \/ (at_ref = "register" /\ i <= ref) =>
       /\ config.is # "lost" /\ urls[i].is = config.is
       /\ urls[i].path = IF config.is = "relative" THEN RelPath(config.path, graph.out)
                         ELSE [up |-> 0, down |-> config.path]
UrlOK(i) ==
  /\ TaskOf(i).kind = "task" => CallUrlOK(i)
  /\ TaskOf(i).kind = "child" => urls[i] = TaskOf(i).url
  /\ TaskOf(i).kind = "author" => AuthorUrlOK(i)
  /\ TaskOf(i).kind = "registered" => RegisteredUrlOK(i)
  /\ at_ref = "done" \/ (at_ref = "check" /\ i <= ref) => Present(urls[i]) \/ TaskOf(i).kind = "child"

RefsInv ==
  /\ RefsTyped /\ RefusedOK
  /\ refused = 0 => VariantsOK /\ EntriesOK /\ \A i \in Tasks(graph) : UrlOK(i)

(* What only depends on the compilation stays as it is.                      *)
LEMMA GraphStays ==
  ASSUME graph' = graph
  PROVE  /\ AllCalls' = AllCalls /\ \A i : TaskOf(i)' = TaskOf(i)
         /\ \A t : /\ Image(t)' = Image(t) /\ Component(t)' = Component(t)
                   /\ Identity(t)' = Identity(t) /\ ConfigOf(t)' = ConfigOf(t)
                   /\ PayloadFails(t)' = PayloadFails(t) /\ AtFault(t)' = AtFault(t)
                   /\ \A from : Payload(t, from)' = Payload(t, from)
<1>1. \A t : Image(t)' = Image(t)
  BY DEF Image
<1>2. AllCalls' = AllCalls /\ \A i : TaskOf(i)' = TaskOf(i)
  BY DEF AllCalls, OfKind, Tasks, TaskOf
<1>3. \A t : Component(t)' = Component(t)
  BY <1>1 DEF Component
<1>4. \A t, from : Payload(t, from)' = Payload(t, from)
  BY <1>1 DEF Payload
<1>5. \A t : LogicalModule(t)' = LogicalModule(t)
  BY DEF LogicalModule
<1>6. \A t : Identity(t)' = Identity(t)
  BY <1>4, <1>5 DEF Identity
<1>7. \A t : ConfigOf(t)' = ConfigOf(t)
  BY DEF ConfigOf
<1>8. \A t : PayloadFails(t)' = PayloadFails(t)
  BY <1>1 DEF PayloadFails, Lost
<1>9. \A t : AtFault(t)' = AtFault(t)
  BY <1>1, <1>3, <1>7 DEF AtFault, OfKind, Tasks
<1> QED BY <1>1, <1>2, <1>3, <1>4, <1>6, <1>7, <1>8, <1>9

(* Of the tasks that are left, Min is the next.                              *)
LEMMA NextLeft ==
  ASSUME RefsTyped, Left # {}
  PROVE  /\ Min(Left) \in Left /\ Left \subseteq About /\ About \subseteq Tasks(graph)
         /\ Left \subseteq Nat \ {0} /\ \A j \in Left : Min(Left) <= j
<1>1. About \subseteq Tasks(graph)
  BY DEF About, OfKind
<1>2. Left \subseteq About
  BY DEF Left
<1>3. Left \subseteq Nat \ {0}
  BY <1>1, <1>2, TaskFacts DEF RefsTyped
<1> QED BY <1>1, <1>2, <1>3, LeastIsMin

(* It starts with nothing planned and every URL as it is written.            *)
LEMMA RefsInitially == RefsInit => RefsInv
<1> SUFFICES ASSUME RefsInit PROVE RefsInv
  OBVIOUS
<1>1. RefsTyped /\ RefusedOK
  BY DEF RefsInit, RefsTyped, RefusedOK
<1>2. Planned = {}
  <2>1. \A i \in Tasks(graph) : i \in Nat /\ i # 0
    BY TaskFacts DEF RefsInit
  <2> QED BY <2>1 DEF Planned, AllCalls, OfKind, RefsInit
<1>3. VariantsOK
  BY <1>2 DEF VariantsOK, RefsInit
<1>4. ASSUME NEW i \in Tasks(graph) PROVE UrlOK(i)
  <2>1. urls[i] = IF TaskOf(i).kind \in {"author", "child"} THEN TaskOf(i).url ELSE Pending
    BY DEF RefsInit, TaskOf
  <2> QED BY <2>1 DEF UrlOK, CallUrlOK, AuthorUrlOK, RegisteredUrlOK, RefsInit
<1> QED BY <1>1, <1>3, <1>4 DEF RefsInv, EntriesOK, RefsInit

(* A call is of a component that has been planned, with its publication, or  *)
(* the plan refuses it; and it joins its component in the shorter spelling.  *)
LEMMA PlanKeeps ==
  ASSUME RefsInv, at_ref = "plan", graph' = graph,
         NEW i \in Left, \A j \in Left : i <= j, Left \subseteq Nat, PlanTask(i)
  PROVE  RefsInv'
<1> DEFINE t == TaskOf(i)
           f == t.function
           id == Identity(t)
           known == Known(variants, f, <<>>)
           emitted == Payload(t, graph.out)
           before == known[id]
           entry == IF id \in DOMAIN known /\ Spelling(before.payload) <= Spelling(emitted)
                    THEN before ELSE [payload |-> emitted, publish |-> t.publish]
<1>1. /\ RefsTyped /\ refused = 0 /\ VariantsOK /\ \A j \in Tasks(graph) : UrlOK(j)
      /\ i \in AllCalls /\ i > ref /\ i \in Nat /\ ref \in Nat
  BY DEF RefsInv, RefusedOK, Left, About, AllCalls, RefsTyped
<1>2. \A j \in AllCalls : j \in Tasks(graph) /\ IsCall(TaskOf(j)) /\ j \in Nat /\ j # 0 /\ TaskOf(j).kind = "task"
  BY <1>1, TaskFacts DEF RefsTyped, AllCalls, OfKind, IsCall, TaskOf
<1>3. \A j \in AllCalls, k \in AllCalls : Identity(TaskOf(j)) = Identity(TaskOf(k)) <=> Component(TaskOf(j)) = Component(TaskOf(k))
  BY <1>1, <1>2, IdentityIsComponent DEF RefsTyped
<1>4. /\ f \in DOMAIN variants => known = variants[f] /\ DOMAIN known = Identities(f)
      /\ f \notin DOMAIN variants => known = <<>> /\ Identities(f) = {}
      /\ DOMAIN known = Identities(f)
  BY <1>1 DEF Known, VariantsOK, Identities
<1>5. ASSUME id \in DOMAIN known
      PROVE  /\ before = EntryOf(t)
             /\ \E j \in Planned : Identity(TaskOf(j)) = id /\ TaskOf(j).function = f /\ Fits(before, TaskOf(j))
  <2>1. PICK j \in Planned : Identity(TaskOf(j)) = id /\ TaskOf(j).function = f
    BY <1>4, <1>5 DEF Identities
  <2>2. Fits(EntryOf(TaskOf(j)), TaskOf(j))
    BY <1>1 DEF VariantsOK
  <2>3. before = EntryOf(t) /\ EntryOf(TaskOf(j)) = EntryOf(t)
    BY <1>4, <1>5, <2>1 DEF EntryOf
  <2> QED BY <2>1, <2>2, <2>3
<1> DEFINE bad == \/ ~graph.sidecar \/ PayloadFails(t)
                  \/ id \in DOMAIN known /\ before.publish # t.publish
<1>6. IF bad THEN Refuse(i)
      ELSE /\ variants' = Assign(variants, f, Assign(known, id, entry))
           /\ ref' = i /\ UNCHANGED <<at_ref, sidecar, urls, refused>>
  BY DEF PlanTask, TaskOf
<1>7. CASE bad
  <2>1. refused' = i /\ at_ref' = "done" /\ UNCHANGED <<ref, variants, sidecar, urls>>
    BY <1>6, <1>7 DEF Refuse
  <2>2. ASSUME ~graph.sidecar \/ PayloadFails(t) PROVE AtFault(t)
    <3>1. t.kind = "task" /\ t.file # <<>>
      BY <1>1, <1>2, TaskFacts DEF TaskOf, RefsTyped
    <3> HIDE DEF t
    <3> QED BY <2>2, <3>1 DEF AtFault, PayloadFails, Lost
  <2>3. ASSUME id \in DOMAIN known, before.publish # t.publish PROVE AtFault(t)
    <3>1. PICK j \in Planned : Identity(TaskOf(j)) = id /\ Fits(before, TaskOf(j))
      BY <1>5, <2>3
    <3>2. j \in AllCalls /\ Component(TaskOf(j)) = Component(t) /\ TaskOf(j).publish # t.publish
      BY <1>1, <1>3, <2>3, <3>1 DEF Planned, Fits
    <3>3. t.kind = "task"
      BY <1>1, <1>2
    <3>4. \E k \in OfKind(graph, "task") :
            Component(graph.tasks[k]) = Component(t) /\ graph.tasks[k].publish # t.publish
      BY <3>2 DEF AllCalls, TaskOf
    <3> HIDE DEF t
    <3> QED BY <3>3, <3>4 DEF AtFault
  <2>4. AtFault(t)
    BY <1>7, <2>2, <2>3
  <2>5. AtFault(TaskOf(i))'
    BY <2>4, GraphStays
  <2>6. RefusedOK'
    BY <1>1, <1>2, <2>1, <2>5 DEF RefusedOK, TaskOf
  <2>7. RefsTyped'
    BY <1>1, <2>1 DEF RefsTyped
  <2>8. refused' # 0
    BY <1>1, <1>2, <2>1
  <2> QED BY <2>6, <2>7, <2>8 DEF RefsInv
<1>8. CASE ~bad
  <2>1. /\ variants' = Assign(variants, f, Assign(known, id, entry))
        /\ ref' = i /\ UNCHANGED <<at_ref, sidecar, urls, refused>>
    BY <1>6, <1>8
  <2>2. RefsTyped' /\ RefusedOK' /\ EntriesOK'
    BY <1>1, <2>1 DEF RefsTyped, RefusedOK, EntriesOK
  <2>3. ASSUME NEW j \in Tasks(graph)' PROVE UrlOK(j)'
    BY <1>1, <2>1, <2>3 DEF UrlOK, CallUrlOK, AuthorUrlOK, RegisteredUrlOK, TaskOf, Tasks
  <2>4. Planned' = Planned \cup {i}
    BY <1>1, <1>2, <2>1 DEF Planned, AllCalls, OfKind, Tasks, Left, About
  <2>5. VariantsOK'
    <3>1. /\ DOMAIN variants' = DOMAIN variants \cup {f}
          /\ variants'[f] = Assign(known, id, entry)
          /\ \A g \in DOMAIN variants : g # f => variants'[g] = variants[g]
      BY <2>1 DEF Assign
    <3>2. /\ DOMAIN variants'[f] = DOMAIN known \cup {id}
          /\ variants'[f][id] = entry
          /\ \A x \in DOMAIN known : x # id => variants'[f][x] = known[x]
      BY <3>1 DEF Assign
    <3>3. \A g : Identities(g)' = IF g = f THEN Identities(f) \cup {id} ELSE Identities(g)
      BY <2>4, GraphStays DEF Identities
    <3>4. DOMAIN variants' = {TaskOf(j).function : j \in Planned}'
      BY <1>1, <2>4, <3>1, GraphStays DEF VariantsOK
    <3>5. ASSUME NEW g \in DOMAIN variants' PROVE DOMAIN variants'[g] = Identities(g)'
      <4>1. CASE g = f
        BY <1>4, <3>2, <3>3, <4>1
      <4>2. CASE g # f
        <5>1. g \in DOMAIN variants /\ variants'[g] = variants[g] /\ Identities(g)' = Identities(g)
          BY <3>1, <3>3, <4>2, <3>5
        <5>2. DOMAIN variants[g] = Identities(g)
          BY <1>1, <5>1 DEF VariantsOK
        <5> QED BY <5>1, <5>2
      <4> QED BY <4>1, <4>2
    <3>6. \A x, y : Identity(x) = Identity(y) => x.function = y.function
      BY DEF Identity
    <3>7. ASSUME NEW j \in Planned', Identity(TaskOf(j)) = id
          PROVE  /\ entry.publish = TaskOf(j).publish
                 /\ Spelling(entry.payload) <= Spelling(Payload(TaskOf(j), graph.out))
                 /\ \E k \in Planned' : Identity(TaskOf(k)) = id /\ entry.payload = Payload(TaskOf(k), graph.out)
      <4>1. TaskOf(j).function = f /\ (j \in Planned \/ TaskOf(j) = t) /\ (j \in Planned => id \in DOMAIN known)
        BY <1>4, <2>4, <3>6, <3>7 DEF Identities
      <4>2. \A k \in Planned : Identity(TaskOf(k)) = id /\ id \in DOMAIN known => Fits(before, TaskOf(k))
        <5> SUFFICES ASSUME NEW k \in Planned, Identity(TaskOf(k)) = id, id \in DOMAIN known
                     PROVE  Fits(before, TaskOf(k))
          OBVIOUS
        <5>1. EntryOf(TaskOf(k)) = EntryOf(t)
          BY <3>6 DEF EntryOf
        <5> QED BY <1>1, <1>5, <5>1 DEF VariantsOK
      <4>3. ASSUME id \in DOMAIN known
            PROVE  /\ before.publish = t.publish
                   /\ \E k \in Planned : Identity(TaskOf(k)) = id /\ before.payload = Payload(TaskOf(k), graph.out)
        BY <1>5, <1>8, <4>3 DEF Fits
      <4>4. CASE id \in DOMAIN known /\ Spelling(before.payload) <= Spelling(emitted)
        <5>1. entry = before
          BY <4>4
        <5> HIDE DEF entry
        <5>2. before.publish = TaskOf(j).publish /\ Spelling(before.payload) <= Spelling(Payload(TaskOf(j), graph.out))
          BY <3>7, <4>1, <4>2, <4>3, <4>4 DEF Fits
        <5>3. \E k \in Planned' : Identity(TaskOf(k)) = id /\ before.payload = Payload(TaskOf(k), graph.out)
          BY <2>4, <4>3, <4>4
        <5> QED BY <5>1, <5>2, <5>3
      <4>5. CASE ~(id \in DOMAIN known /\ Spelling(before.payload) <= Spelling(emitted))
        <5>1. entry.payload = emitted /\ entry.publish = t.publish
          BY <4>5
        <5> HIDE DEF entry
        <5>2. \A x, y : Component(x) = Component(y) => Spelling(Payload(x, graph.out)) \in Nat
          BY SpellingOf
        <5>3. Spelling(emitted) \in Nat
          BY <5>2
        <5>4. i \in Planned' /\ Identity(t) = id
          BY <2>4
        <5>5. CASE TaskOf(j) = t
          <6>1. entry.publish = TaskOf(j).publish /\ entry.payload = Payload(TaskOf(j), graph.out)
            BY <5>1, <5>5
          <6>2. Spelling(entry.payload) <= Spelling(Payload(TaskOf(j), graph.out))
            BY <5>1, <5>3, <6>1
          <6> QED BY <5>1, <5>4, <6>1, <6>2
        <5>6. CASE j \in Planned
          <6>1. /\ id \in DOMAIN known /\ before.publish = TaskOf(j).publish
                /\ Spelling(before.payload) <= Spelling(Payload(TaskOf(j), graph.out))
            BY <3>7, <4>1, <4>2, <5>6 DEF Fits
          <6>2. Spelling(before.payload) \in Nat /\ Spelling(Payload(TaskOf(j), graph.out)) \in Nat
            BY <4>3, <5>2, <6>1
          <6>3. Spelling(emitted) <= Spelling(before.payload)
            BY <4>5, <5>3, <6>1, <6>2
          <6>4. Spelling(emitted) <= Spelling(Payload(TaskOf(j), graph.out))
            BY <5>3, <6>1, <6>2, <6>3
          <6>5. before.publish = t.publish
            BY <4>3, <6>1
          <6> QED BY <5>1, <5>4, <6>1, <6>4, <6>5
        <5> QED BY <4>1, <5>5, <5>6
      <4> QED BY <4>4, <4>5
    <3>8. ASSUME NEW j \in Planned' PROVE Fits(EntryOf(TaskOf(j)), TaskOf(j))'
      <4> DEFINE e == EntryOf(TaskOf(j))'
      <4>1. /\ e.publish = TaskOf(j).publish
            /\ Spelling(e.payload) <= Spelling(Payload(TaskOf(j), graph.out))
            /\ \E k \in Planned' : Identity(TaskOf(k)) = Identity(TaskOf(j)) /\ e.payload = Payload(TaskOf(k), graph.out)
        <5>1. e = variants'[TaskOf(j).function][Identity(TaskOf(j))]
          BY GraphStays DEF EntryOf
        <5> HIDE DEF e
        <5>2. CASE Identity(TaskOf(j)) = id
          <6>1. e = entry
            BY <3>2, <3>6, <5>1, <5>2
          <6> QED BY <3>7, <5>2, <6>1
        <5>3. CASE Identity(TaskOf(j)) # id
          <6>1. j \in Planned
            BY <2>4, <5>3
          <6>2. TaskOf(j).function \in DOMAIN variants /\ Identity(TaskOf(j)) \in Identities(TaskOf(j).function)
            BY <1>1, <6>1 DEF VariantsOK, Identities
          <6>3. e = EntryOf(TaskOf(j))
            BY <1>4, <3>1, <3>2, <5>1, <5>3, <6>2 DEF EntryOf
          <6>4. Fits(EntryOf(TaskOf(j)), TaskOf(j))
            BY <1>1, <6>1 DEF VariantsOK
          <6> QED BY <2>4, <6>3, <6>4 DEF Fits
        <5> QED BY <5>2, <5>3
      <4> QED BY <4>1, GraphStays DEF Fits
    <3>9. ASSUME NEW j \in Planned' PROVE graph.sidecar' /\ ~PayloadFails(TaskOf(j))'
      BY <1>1, <1>8, <2>4, GraphStays DEF VariantsOK
    <3> QED BY <3>4, <3>5, <3>8, <3>9 DEF VariantsOK
  <2> QED BY <1>1, <2>1, <2>2, <2>3, <2>5 DEF RefsInv
<1> QED BY <1>7, <1>8

(* What an entry says of one call. *)
Alike(i) == {j \in AllCalls : Component(TaskOf(j)) = Component(TaskOf(i))}
Namesakes(i) == {j \in AllCalls : TaskOf(j).function = TaskOf(i).function}
Sharing(i) == {j \in AllCalls : urls[j].fragment = urls[i].fragment}
Describes(i) ==
  LET fragment == urls[i].fragment
  IN /\ fragment \in DOMAIN sidecar
     /\ Described(sidecar[fragment].payload, TaskOf(i).scope) = Component(TaskOf(i))
     /\ sidecar[fragment].publish = TaskOf(i).publish
     /\ Alike(i) = Sharing(i)
     /\ fragment.identity = {} <=> Alike(i) = Namesakes(i)
     /\ sidecar[fragment].payload.mode = Absent <=> \E j \in Alike(i) : TaskOf(j).mode = Absent

(* EntriesDescribe says it of every call.                                    *)
LEMMA DescribesEach ==
  /\ EntriesDescribe <=> \A i \in AllCalls : Describes(i)
  /\ EntriesDescribe' <=> \A i \in AllCalls' : Describes(i)'
BY Zenon DEF EntriesDescribe, Describes, Alike, Namesakes, Sharing, AllCalls, TaskOf

(* The entries describe the calls as long as neither they nor the fragments  *)
(* of the calls change.                                                      *)
LEMMA EntriesStay ==
  ASSUME EntriesDescribe, graph' = graph, sidecar' = sidecar,
         \A j \in AllCalls : urls'[j].fragment = urls[j].fragment
  PROVE  EntriesDescribe'
<1>1. \A p, x : Described(p, x)' = Described(p, x)
  BY DEF Described
<1>2. AllCalls' = AllCalls /\ \A x : TaskOf(x)' = TaskOf(x) /\ Component(x)' = Component(x)
  BY GraphStays
<1>3. ASSUME NEW i \in AllCalls
      PROVE  Alike(i)' = Alike(i) /\ Namesakes(i)' = Namesakes(i) /\ Sharing(i)' = Sharing(i)
  <2>1. Alike(i)' = Alike(i)
    BY <1>2 DEF Alike
  <2>2. Namesakes(i)' = Namesakes(i)
    BY <1>2 DEF Namesakes
  <2>3. Sharing(i)' = Sharing(i)
    BY <1>2 DEF Sharing
  <2> QED BY <2>1, <2>2, <2>3
<1>4. ASSUME NEW i \in AllCalls PROVE Describes(i)'
  <2>1. Describes(i)
    BY DescribesEach
  <2>2. urls'[i].fragment = urls[i].fragment
    OBVIOUS
  <2> QED BY <1>1, <1>2, <1>3, <2>1, <2>2 DEF Describes
<1> QED BY <1>2, <1>4, DescribesEach

(* A payload, read from where it is written, describes the component of its  *)
(* call.                                                                     *)
LEMMA PayloadDescribes ==
  ASSUME graph \in RefCalls, NEW t, IsCall(t)
  PROVE  Described(Payload(t, graph.out), t.scope) = Component(t)
<1> DEFINE p == Payload(t, graph.out)
           Read(rel) == IF rel = NoPath THEN <<>> ELSE At(graph.out, rel)
<1>1. graph.out \in FilePaths
  BY GraphFacts
<1>2. /\ p.image = Image(t) /\ p.function = t.function /\ p.mode = t.mode /\ p.keys = t.keys
      /\ p.root = RelOption(t.root, graph.out) /\ p.deps = RelOption(t.deps, graph.out)
      /\ p.file = RelPath(t.file, graph.out)
  BY DEF Payload
<1> HIDE DEF p
<1>3. Read(p.root) = t.root /\ Read(p.deps) = t.deps
  BY <1>1, <1>2, OptionReads DEF IsCall
<1>4. Read(p.file) = t.file
  BY <1>1, <1>2, OptionReads, RelPathLeads DEF IsCall
<1>5. Described(p, t.scope) =
        [file |-> Read(p.file), scope |-> t.scope, function |-> p.function,
         image |-> p.image, mode |-> IF p.mode = Absent THEN "inline" ELSE p.mode,
         root |-> Read(p.root), deps |-> Read(p.deps), keys |-> p.keys]
  BY DEF Described
<1> QED BY <1>2, <1>3, <1>4, <1>5 DEF Component, p

(* The identities of a function's calls are finitely many.                   *)
LEMMA IdentitiesFinite ==
  ASSUME RefsTyped, NEW f
  PROVE  IsFiniteSet(Identities(f))
<1> DEFINE S == {j \in Planned : TaskOf(j).function = f}
           F == [j \in S |-> Identity(TaskOf(j))]
<1>1. IsFiniteSet(S)
  <2>1. IsFiniteSet(1..Len(graph.tasks))
    BY RefsConstantsOK, LenProperties, FS_Interval DEF RefsTyped
  <2>2. S \subseteq 1..Len(graph.tasks)
    BY RefsConstantsOK, LenProperties DEF RefsTyped, Planned, AllCalls, OfKind, Tasks
  <2> QED BY <2>1, <2>2, FS_Subset
<1>2. F \in Surjection(S, Identities(f))
  BY DEF Surjection, Identities
<1> QED BY <1>1, <1>2, FS_Surjection

(* Calls share a fragment exactly when they share an identity, and the       *)
(* fragment names the identity only where the function has several.          *)
LEMMA FragmentsTell ==
  ASSUME RefsTyped, VariantsOK, NEW i \in Planned, NEW j \in Planned
  PROVE  LET FragmentOf(k) == Fragment(TaskOf(k).function, Identity(TaskOf(k)))
         IN /\ FragmentOf(i) = FragmentOf(j) <=> Identity(TaskOf(i)) = Identity(TaskOf(j))
            /\ FragmentOf(i).identity = {} <=>
                 \A k \in Planned : TaskOf(k).function = TaskOf(i).function => Identity(TaskOf(k)) = Identity(TaskOf(i))
            /\ FragmentOf(i).base = TaskOf(i).function
            /\ FragmentOf(i).identity \in {{}, {Identity(TaskOf(i))}}
<1> DEFINE D(k) == DOMAIN variants[TaskOf(k).function]
           FragmentOf(k) == Fragment(TaskOf(k).function, Identity(TaskOf(k)))
<1>1. ASSUME NEW k \in Planned
      PROVE  /\ Identity(TaskOf(k)) \in D(k)
             /\ Cardinality(D(k)) = 1 <=> \A m \in Planned : TaskOf(m).function = TaskOf(k).function => Identity(TaskOf(m)) = Identity(TaskOf(k))
  <2>1. D(k) = Identities(TaskOf(k).function) /\ IsFiniteSet(D(k)) /\ Identity(TaskOf(k)) \in D(k)
    <3>1. D(k) = Identities(TaskOf(k).function)
      BY DEF VariantsOK
    <3> QED BY <3>1, IdentitiesFinite DEF Identities
  <2>2. Cardinality(D(k)) = 1 <=> \E x : D(k) = {x}
    BY <2>1, FS_Singleton
  <2>3. (\E x : D(k) = {x}) <=> \A y \in D(k) : y = Identity(TaskOf(k))
    BY <2>1
  <2>4. (\A y \in D(k) : y = Identity(TaskOf(k))) <=>
          \A m \in Planned : TaskOf(m).function = TaskOf(k).function => Identity(TaskOf(m)) = Identity(TaskOf(k))
    BY <2>1 DEF Identities
  <2> QED BY <2>1, <2>2, <2>3, <2>4
<1>2. ASSUME NEW k \in Planned
      PROVE  /\ FragmentOf(k).base = TaskOf(k).function
             /\ Cardinality(D(k)) = 1 => /\ FragmentOf(k).identity = {}
                                         /\ FragmentOf(k).keys = Identity(TaskOf(k)).generation.keys
             /\ Cardinality(D(k)) # 1 => FragmentOf(k).identity = {Identity(TaskOf(k))}
  BY DEF Fragment
<1>3. \A x, y : Identity(x) = Identity(y) => x.function = y.function
  BY DEF Identity
<1>4. FragmentOf(i) = FragmentOf(j) => Identity(TaskOf(i)) = Identity(TaskOf(j))
  <2> SUFFICES ASSUME FragmentOf(i) = FragmentOf(j) PROVE Identity(TaskOf(i)) = Identity(TaskOf(j))
    OBVIOUS
  <2>1. TaskOf(i).function = TaskOf(j).function /\ FragmentOf(i).identity = FragmentOf(j).identity
    BY <1>2
  <2> HIDE DEF FragmentOf
  <2>2. CASE Cardinality(D(i)) = 1
    BY <1>1, <2>1, <2>2
  <2>3. CASE Cardinality(D(i)) # 1
    BY <1>2, <2>1, <2>3
  <2> QED BY <2>2, <2>3
<1>5. Identity(TaskOf(i)) = Identity(TaskOf(j)) => FragmentOf(i) = FragmentOf(j)
  BY <1>3
<1> QED BY <1>1, <1>2, <1>4, <1>5

(* The entries that are written describe the calls.                          *)
LEMMA EntriesWritten ==
  ASSUME RefsTyped, VariantsOK, at_ref = "entries", graph' = graph, WriteEntries
  PROVE  EntriesDescribe'
<1> DEFINE F(k) == Fragment(TaskOf(k).function, Identity(TaskOf(k)))
           fragments == UNION {{Fragment(f, identity) : identity \in DOMAIN variants[f]} : f \in DOMAIN variants}
           NamedBy(x) == CHOOSE identity \in DOMAIN variants[x.base] : x.identity \subseteq {identity}
<1>1. Planned = AllCalls
  BY DEF Planned
<1>2. \A k \in AllCalls : IsCall(TaskOf(k)) /\ k \in Tasks(graph)
  BY TaskFacts DEF RefsTyped, AllCalls, OfKind, IsCall, TaskOf
<1>3. /\ sidecar' = [x \in fragments |-> variants[x.base][NamedBy(x)]]
      /\ \A k \in AllCalls : urls'[k] = Url("resolve", "sidecar", NoPath, F(k))
  BY <1>2 DEF WriteEntries, TaskOf, AllCalls
<1>4. \A k \in AllCalls : urls'[k].fragment = F(k)
  <2>1. \A a, b, c, d : Url(a, b, c, d).fragment = d
    BY DEF Url
  <2> QED BY <1>3, <2>1
<1>5. ASSUME NEW k \in AllCalls
      PROVE  F(k) \in fragments /\ sidecar'[F(k)] = EntryOf(TaskOf(k))
  <2>1. TaskOf(k).function \in DOMAIN variants /\ DOMAIN variants[TaskOf(k).function] = Identities(TaskOf(k).function)
    BY <1>1 DEF VariantsOK
  <2>2. Identity(TaskOf(k)) \in DOMAIN variants[TaskOf(k).function]
    BY <1>1, <2>1 DEF Identities
  <2>3. F(k) \in fragments
    BY <2>1, <2>2
  <2>4. NamedBy(F(k)) = Identity(TaskOf(k))
    <3> DEFINE D == DOMAIN variants[F(k).base]
    <3>1. F(k).base = TaskOf(k).function /\ F(k).identity \in {{}, {Identity(TaskOf(k))}}
      BY <1>1, FragmentsTell
    <3>2. F(k).identity = {} => \A x \in D : x = Identity(TaskOf(k))
      BY <1>1, <2>1, <3>1, FragmentsTell DEF Identities
    <3>3. Identity(TaskOf(k)) \in D /\ F(k).identity \subseteq {Identity(TaskOf(k))}
      BY <2>2, <3>1
    <3> HIDE DEF F, D
    <3>4. \A x \in D : F(k).identity \subseteq {x} => x = Identity(TaskOf(k))
      BY <3>1, <3>2
    <3>5. NamedBy(F(k)) = CHOOSE x \in D : F(k).identity \subseteq {x}
      BY DEF D
    <3> QED BY <3>3, <3>4, <3>5
  <2> QED BY <1>1, <1>3, <2>3, <2>4, FragmentsTell DEF EntryOf
<1>6. AllCalls' = AllCalls /\ \A x : TaskOf(x)' = TaskOf(x) /\ Component(x)' = Component(x)
  BY GraphStays
<1>7. \A p, x : Described(p, x)' = Described(p, x)
  BY DEF Described
<1>8. \A j \in AllCalls, k \in AllCalls :
        Identity(TaskOf(j)) = Identity(TaskOf(k)) <=> Component(TaskOf(j)) = Component(TaskOf(k))
  BY <1>2, IdentityIsComponent DEF RefsTyped
<1>9. ASSUME NEW i \in AllCalls PROVE Describes(i)'
  <2> DEFINE entry == EntryOf(TaskOf(i))
  <2>1. Fits(entry, TaskOf(i))
    BY <1>1 DEF VariantsOK
  <2>2. PICK j \in AllCalls : /\ Identity(TaskOf(j)) = Identity(TaskOf(i)) /\ Component(TaskOf(j)) = Component(TaskOf(i))
                              /\ entry.payload = Payload(TaskOf(j), graph.out)
    BY <1>1, <1>8, <2>1 DEF Fits
  <2>3. entry.publish = TaskOf(i).publish /\ Spelling(entry.payload) <= Spelling(Payload(TaskOf(i), graph.out))
    BY <2>1 DEF Fits
  <2>4. Described(entry.payload, TaskOf(i).scope) = Component(TaskOf(i))
    <3>1. TaskOf(j).scope = TaskOf(i).scope
      BY <2>2 DEF Identity
    <3> QED BY <1>2, <2>2, <3>1, PayloadDescribes DEF RefsTyped
  <2>5. Alike(i)' = Alike(i) /\ Namesakes(i)' = Namesakes(i)
    <3>1. Alike(i)' = Alike(i)
      BY <1>6 DEF Alike
    <3>2. Namesakes(i)' = Namesakes(i)
      BY <1>6 DEF Namesakes
    <3> QED BY <3>1, <3>2
  <2>6. \A k \in AllCalls : F(k) = F(i) <=> Component(TaskOf(k)) = Component(TaskOf(i))
    BY <1>1, <1>8, FragmentsTell
  <2>7. Sharing(i)' = Alike(i)
    BY <1>4, <1>6, <2>6 DEF Sharing, Alike
  <2>8. F(i).identity = {} <=> Alike(i) = Namesakes(i)
    <3>1. F(i).identity = {} <=>
            \A k \in AllCalls : TaskOf(k).function = TaskOf(i).function => Identity(TaskOf(k)) = Identity(TaskOf(i))
      BY <1>1, FragmentsTell
    <3>2. \A k \in AllCalls : Identity(TaskOf(k)) = Identity(TaskOf(i)) => TaskOf(k).function = TaskOf(i).function
      BY DEF Identity
    <3> HIDE DEF F
    <3> QED BY <1>8, <3>1, <3>2 DEF Alike, Namesakes
  <2>9. entry.payload.mode = Absent <=> \E k \in Alike(i) : TaskOf(k).mode = Absent
    <3>1. entry.payload.mode = TaskOf(j).mode
      BY <2>2 DEF Payload
    <3>2. j \in Alike(i)
      BY <2>2 DEF Alike
    <3>3. ASSUME NEW k \in Alike(i), TaskOf(k).mode = Absent PROVE TaskOf(j).mode = Absent
      <4>1. k \in AllCalls /\ Component(TaskOf(j)) = Component(TaskOf(k)) /\ Identity(TaskOf(k)) = Identity(TaskOf(i))
        BY <1>8, <2>2, <3>3 DEF Alike
      <4>2. EntryOf(TaskOf(k)) = entry
        <5>1. TaskOf(k).function = TaskOf(i).function
          BY <4>1 DEF Identity
        <5> QED BY <4>1, <5>1 DEF EntryOf
      <4>3. Spelling(Payload(TaskOf(j), graph.out)) <= Spelling(Payload(TaskOf(k), graph.out))
        BY <1>1, <2>2, <4>1, <4>2 DEF VariantsOK, Fits
      <4> QED BY <3>3, <4>1, <4>3, SpellingOf
    <3> HIDE DEF entry
    <3> QED BY <3>1, <3>2, <3>3
  <2> HIDE DEF F, entry
  <2>10. sidecar'[F(i)] = entry /\ F(i) \in DOMAIN sidecar' /\ urls'[i].fragment = F(i)
    BY <1>3, <1>4, <1>5 DEF entry
  <2> QED BY <1>6, <1>7, <2>3, <2>4, <2>5, <2>7, <2>8, <2>9, <2>10 DEF Describes
<1> QED BY <1>6, <1>9, DescribesEach

(* What is planned is not planned again: VariantsOK outlives the later steps.*)
LEMMA VariantsStay ==
  ASSUME VariantsOK, graph' = graph, variants' = variants, Planned' = Planned
  PROVE  VariantsOK'
<1>1. DOMAIN variants' = {TaskOf(i).function : i \in Planned}'
  BY GraphStays DEF VariantsOK
<1>2. \A f : Identities(f)' = Identities(f)
  BY GraphStays DEF Identities
<1>3. ASSUME NEW i \in Planned'
      PROVE  graph.sidecar' /\ ~PayloadFails(TaskOf(i))' /\ Fits(EntryOf(TaskOf(i)), TaskOf(i))'
  <2>1. EntryOf(TaskOf(i))' = EntryOf(TaskOf(i))
    BY GraphStays DEF EntryOf
  <2>2. graph.sidecar /\ ~PayloadFails(TaskOf(i)) /\ Fits(EntryOf(TaskOf(i)), TaskOf(i))
    BY DEF VariantsOK
  <2>3. Fits(EntryOf(TaskOf(i)), TaskOf(i))'
    BY <2>1, <2>2, GraphStays DEF Fits
  <2> QED BY <2>2, <2>3, GraphStays
<1> QED BY <1>1, <1>2, <1>3 DEF VariantsOK

(* Writing the entries keeps the invariant.                                  *)
LEMMA EntriesKeep ==
  ASSUME RefsInv, at_ref = "entries", graph' = graph, WriteEntries
  PROVE  RefsInv'
<1>1. RefsTyped /\ refused = 0 /\ VariantsOK /\ \A j \in Tasks(graph) : UrlOK(j)
  BY DEF RefsInv, RefusedOK
<1>2. EntriesDescribe'
  BY <1>1, EntriesWritten
<1>3. /\ at_ref' = "relocate" /\ ref' = 0 /\ UNCHANGED <<variants, refused>>
      /\ urls' = [i \in Tasks(graph) |->
                    IF i \notin AllCalls THEN urls[i]
                    ELSE Url("resolve", "sidecar", NoPath, Fragment(TaskOf(i).function, Identity(TaskOf(i))))]
  BY DEF WriteEntries, AllCalls, TaskOf
<1>4. RefsTyped' /\ RefusedOK'
  BY <1>1, <1>3 DEF RefsTyped, RefusedOK
<1>5. Planned' = Planned
  BY <1>3, GraphStays DEF Planned
<1>6. VariantsOK'
  BY <1>1, <1>3, <1>5, VariantsStay
<1>7. ASSUME NEW i \in Tasks(graph)' PROVE UrlOK(i)'
  <2>1. TaskOf(i)' = TaskOf(i) /\ i \in Tasks(graph) /\ UrlOK(i)
    BY <1>1, GraphStays DEF Tasks
  <2>2. TaskOf(i).kind = "task" => urls'[i].is = "sidecar"
    <3>1. \A a, b, c, d : Url(a, b, c, d).is = b
      BY DEF Url
    <3>2. TaskOf(i).kind = "task" => i \in AllCalls
      BY <2>1 DEF AllCalls, OfKind, TaskOf
    <3> QED BY <1>3, <2>1, <3>1, <3>2
  <2>3. TaskOf(i).kind # "task" => urls'[i] = urls[i]
    BY <1>3, <2>1 DEF AllCalls, OfKind, TaskOf
  <2> QED BY <1>3, <2>1, <2>2, <2>3 DEF UrlOK, CallUrlOK, AuthorUrlOK, RegisteredUrlOK
<1> QED BY <1>1, <1>2, <1>3, <1>4, <1>6, <1>7 DEF RefsInv, EntriesOK

(* A refusal is for a task at fault.                                         *)
LEMMA RefuseKeeps ==
  ASSUME RefsTyped, graph' = graph, NEW i \in Tasks(graph), AtFault(TaskOf(i)), Refuse(i)
  PROVE  RefsInv'
<1>1. refused' = i /\ at_ref' = "done" /\ UNCHANGED <<ref, variants, sidecar, urls>>
  BY DEF Refuse
<1>2. RefsTyped' /\ i # 0
  BY <1>1, TaskFacts DEF RefsTyped
<1>3. AtFault(TaskOf(i))' /\ i \in Tasks(graph)'
  BY GraphStays DEF Tasks
<1>4. RefusedOK'
  BY <1>1, <1>3, GraphStays DEF RefusedOK
<1> QED BY <1>1, <1>2, <1>4 DEF RefsInv

(* The later steps keep the entries; what they do to the URLs is theirs.     *)
LEMMA LaterKeeps ==
  ASSUME RefsInv, refused = 0, graph' = graph, UNCHANGED <<variants, sidecar, refused>>,
         at_ref \notin {"plan", "entries"}, at_ref' \notin {"plan", "entries"}, RefsTyped',
         \A j \in AllCalls : urls'[j].fragment = urls[j].fragment,
         \A i \in Tasks(graph) : UrlOK(i)'
  PROVE  RefsInv'
<1>1. VariantsOK /\ EntriesDescribe
  BY DEF RefsInv, EntriesOK
<1>2. EntriesDescribe'
  BY <1>1, EntriesStay
<1>3. Planned' = Planned
  BY GraphStays DEF Planned
<1>4. VariantsOK'
  BY <1>1, <1>3, VariantsStay
<1> QED BY <1>2, <1>4 DEF RefsInv, EntriesOK, RefusedOK, Tasks

(* The configuration of a registered task: where it is found, and that none  *)
(* is nearer.                                                                *)
LEMMA ConfigFacts ==
  ASSUME graph \in RefCalls, NEW i \in Tasks(graph), TaskOf(i).kind = "registered"
  PROVE  LET t == TaskOf(i)
             config == ConfigOf(t)
         IN /\ config.is \in {"remote", "absolute", "relative", "lost"}
            /\ config.is = "remote" <=> t.config.is = "remote"
            /\ config.is \in {"absolute", "relative"} => config.path \in graph.files
            /\ config.is = "relative" /\ t.config.is = "none" =>
                 \A d \in Ancestors(t.file) :
                   Append(d, "gen_config") \in graph.files => Len(d) < Len(config.path)
<1> DEFINE t == TaskOf(i)
           config == ConfigOf(t)
           zones == Ancestors(t.file) \cap graph.zones
           homes == {d \in Ancestors(t.file) : Append(d, "gen_config") \in graph.files}
           file(is, route) == [is |-> IF route \in graph.files THEN is ELSE "lost", path |-> route]
           none == [is |-> "lost", path |-> <<>>]
<1>1. /\ t.file \in FilePaths
      /\ t.config.is \in {"remote", "absolute", "file", "relative", "none"}
  BY TaskFacts DEF TaskOf
<1>2. config =
        CASE t.config.is = "remote" -> [is |-> "remote", path |-> t.config.path.down]
          [] t.config.is = "absolute" -> file("absolute", t.config.path.down)
          [] t.config.is = "file" -> file("absolute", At(Parent(t.file), t.config.path))
          [] t.config.is = "relative" ->
               IF zones = {} THEN none
               ELSE file("relative", At(Deepest(zones), t.config.path))
          [] t.config.is = "none" ->
               IF homes = {} THEN none ELSE file("relative", Append(Deepest(homes), "gen_config"))
  BY DEF ConfigOf
<1> HIDE DEF config, t, zones, homes
<1>3. CASE t.config.is = "none"
  <2>1. config = IF homes = {} THEN none ELSE file("relative", Append(Deepest(homes), "gen_config"))
    BY <1>2, <1>3
  <2>2. CASE homes = {}
    BY <1>3, <2>1, <2>2 DEF config, t
  <2>3. CASE homes # {}
    <3>1. config = file("relative", Append(Deepest(homes), "gen_config"))
      BY <2>1, <2>3
    <3>2. /\ Deepest(homes) \in homes /\ Deepest(homes) \in FilePaths
          /\ \A d \in homes : Len(d) \in Nat /\ Len(d) <= Len(Deepest(homes))
      BY <1>1, <2>3, DeepestIs DEF homes
    <3>3. Len(Append(Deepest(homes), "gen_config")) = Len(Deepest(homes)) + 1
      BY <3>2 DEF FilePaths
    <3>4. \A d \in homes : Len(d) < Len(Append(Deepest(homes), "gen_config"))
      <4>1. Len(Deepest(homes)) \in Nat
        BY <3>2
      <4> QED BY <3>2, <3>3, <4>1
    <3>5. Append(Deepest(homes), "gen_config") \in graph.files
      BY <3>2 DEF homes
    <3>6. config.is = "relative" /\ config.path = Append(Deepest(homes), "gen_config")
      BY <3>1, <3>5
    <3> QED BY <1>3, <3>4, <3>5, <3>6 DEF config, t, homes
  <2> QED BY <2>2, <2>3
<1>4. CASE t.config.is # "none"
  <2> HIDE DEF file
  <2>1. /\ config.is \in {"remote", "absolute", "relative", "lost"}
        /\ config.is = "remote" <=> t.config.is = "remote"
        /\ config.is \in {"absolute", "relative"} => config.path \in graph.files
    <3>1. CASE t.config.is = "remote"
      BY <1>2, <3>1
    <3>2. ASSUME t.config.is # "remote"
          PROVE  config = none \/ \E is \in {"absolute", "relative"} : \E route : config = file(is, route)
      BY <1>1, <1>2, <1>4, <3>2
    <3>3. CASE t.config.is # "remote"
      <4>1. CASE config = none
        <5>1. config.is = "lost"
          BY <4>1
        <5> QED BY <3>3, <5>1
      <4>2. CASE config # none
        <5>1. PICK is \in {"absolute", "relative"} : \E route : config = file(is, route)
          BY <3>2, <3>3, <4>2
        <5>2. PICK route : config = file(is, route)
          BY <5>1
        <5>3. config.is = (IF route \in graph.files THEN is ELSE "lost") /\ config.path = route
          BY <5>2 DEF file
        <5> HIDE DEF none
        <5> QED BY <3>3, <5>3
      <4> QED BY <4>1, <4>2
    <3> QED BY <3>1, <3>3
  <2> QED BY <1>4, <2>1 DEF config, t
<1> QED BY <1>3, <1>4

(* Moving the author's references keeps the invariant.                       *)
LEMMA RelocateKeeps ==
  ASSUME RefsInv, at_ref = "relocate", graph' = graph, Relocate
  PROVE  RefsInv'
<1>1. RefsTyped /\ refused = 0 /\ \A j \in Tasks(graph) : UrlOK(j)
  BY DEF RefsInv, RefusedOK
<1>2. /\ at_ref' = "register" /\ ref' = 0 /\ ref = 0 /\ UNCHANGED <<variants, sidecar, refused>>
      /\ DOMAIN urls' = Tasks(graph)
      /\ \A j \in Tasks(graph) :
           urls'[j] = IF TaskOf(j).kind = "author" /\ urls[j].is = "relative"
                      THEN [urls[j] EXCEPT !.path = RelPath(At(graph.source, urls[j].path), graph.out)]
                      ELSE urls[j]
  BY <1>1 DEF Relocate, OfKind, TaskOf, RefsTyped
<1>3. RefsTyped'
  BY <1>1, <1>2 DEF RefsTyped, Tasks
<1>4. \A j \in AllCalls : urls'[j].fragment = urls[j].fragment
  BY <1>2 DEF AllCalls, OfKind, TaskOf
<1>5. ASSUME NEW i \in Tasks(graph) PROVE UrlOK(i)'
  <2>1. TaskOf(i)' = TaskOf(i) /\ UrlOK(i) /\ i \in Nat /\ i # 0
    BY <1>1, TaskFacts, GraphStays DEF RefsTyped
  <2>2. CASE TaskOf(i).kind # "author"
    <3>1. urls'[i] = urls[i]
      BY <1>2, <2>2
    <3> QED BY <1>2, <2>1, <2>2, <3>1 DEF UrlOK, CallUrlOK, RegisteredUrlOK
  <2>3. CASE TaskOf(i).kind = "author"
    <3>1. urls[i] = TaskOf(i).url /\ TaskOf(i).url \in WrittenUrls
      BY <1>1, <2>1, <2>3, TaskFacts DEF UrlOK, AuthorUrlOK, TaskOf, RefsTyped
    <3>2. \A u \in WrittenUrls : \A x : LET v == [u EXCEPT !.path = x] IN v.is = u.is /\ v.path = x
      BY DEF WrittenUrls
    <3>3. AuthorUrlOK(i)'
      <4>1. CASE TaskOf(i).url.is = "relative"
        <5> DEFINE route == RelPath(At(graph.source, TaskOf(i).url.path), graph.out)
        <5>1. urls'[i] = [TaskOf(i).url EXCEPT !.path = route]
          BY <1>2, <2>3, <3>1, <4>1
        <5> HIDE DEF route
        <5>2. urls'[i].is = "relative" /\ urls'[i].path = route
          BY <3>1, <3>2, <4>1, <5>1
        <5> QED BY <1>2, <2>1, <4>1, <5>2 DEF AuthorUrlOK, route
      <4>2. CASE TaskOf(i).url.is # "relative"
        <5>1. urls'[i] = TaskOf(i).url
          BY <1>2, <3>1, <4>2
        <5> QED BY <2>1, <4>2, <5>1 DEF AuthorUrlOK
      <4> QED BY <4>1, <4>2
    <3> QED BY <1>2, <2>1, <2>3, <3>3 DEF UrlOK
  <2> QED BY <2>2, <2>3
<1> QED BY <1>1, <1>2, <1>3, <1>4, <1>5, LaterKeeps

(* So does the registration of a task, or it is refused for want of its      *)
(* configuration.                                                            *)
LEMMA RegisterKeeps ==
  ASSUME RefsInv, at_ref = "register", graph' = graph,
         NEW i \in Left, \A j \in Left : i <= j, Left \subseteq Nat, RegisterTask(i)
  PROVE  RefsInv'
<1>1. /\ RefsTyped /\ refused = 0 /\ \A j \in Tasks(graph) : UrlOK(j)
      /\ i \in Tasks(graph) /\ TaskOf(i).kind = "registered"
  BY DEF RefsInv, RefusedOK, Left, About, OfKind, TaskOf
<1> DEFINE config == ConfigOf(TaskOf(i))
           fragment == [NoFragment EXCEPT !.base = TaskOf(i).function]
           route == IF config.is = "relative" THEN RelPath(config.path, graph.out)
                   ELSE [up |-> 0, down |-> config.path]
<1>2. IF config.is = "lost" THEN Refuse(i)
      ELSE /\ urls' = [urls EXCEPT ![i] = Url("resolve", config.is, route, fragment)]
           /\ ref' = i
           /\ UNCHANGED <<at_ref, variants, sidecar, refused>>
  BY DEF RegisterTask, TaskOf
<1>3. CASE config.is = "lost"
  <2>1. AtFault(TaskOf(i))
    BY <1>1, <1>3, ConfigFacts DEF AtFault, RefsTyped
  <2> QED BY <1>1, <1>2, <1>3, <2>1, RefuseKeeps
<1>4. CASE config.is # "lost"
  <2>1. /\ urls' = [urls EXCEPT ![i] = Url("resolve", config.is, route, fragment)]
        /\ ref' = i /\ UNCHANGED <<at_ref, variants, sidecar, refused>>
    BY <1>2, <1>4
  <2>2. \A a, b, c, d : Url(a, b, c, d).is = b /\ Url(a, b, c, d).path = c
    BY DEF Url
  <2>3. RefsTyped'
    BY <1>1, <2>1 DEF RefsTyped, Tasks, Left
  <2>4. \A j \in Tasks(graph) : j # i => urls'[j] = urls[j]
    BY <1>1, <2>1 DEF RefsTyped
  <2>5. \A j \in AllCalls : urls'[j].fragment = urls[j].fragment
    BY <1>1, <2>4 DEF AllCalls, OfKind, TaskOf
  <2>6. ASSUME NEW j \in Tasks(graph) PROVE UrlOK(j)'
    <3>1. TaskOf(j)' = TaskOf(j) /\ ConfigOf(TaskOf(j))' = ConfigOf(TaskOf(j)) /\ UrlOK(j)
      BY <1>1, GraphStays
    <3>2. CASE j # i
      <4>1. urls'[j] = urls[j]
        BY <2>4, <3>2
      <4>2. j <= i /\ TaskOf(j).kind = "registered" => j <= ref
        <5> SUFFICES ASSUME j <= i, TaskOf(j).kind = "registered", ~(j <= ref) PROVE FALSE
          OBVIOUS
        <5>1. j \in Nat /\ ref \in Nat /\ i \in Nat
          BY <1>1, TaskFacts DEF RefsTyped
        <5>2. j \in Left
          BY <5>1 DEF Left, About, OfKind, TaskOf
        <5> QED BY <3>2, <5>1, <5>2
      <4> QED BY <2>1, <3>1, <4>1, <4>2 DEF UrlOK, CallUrlOK, AuthorUrlOK, RegisteredUrlOK
    <3>3. CASE j = i
      <4>1. urls'[i].is = config.is /\ urls'[i].path = route
        BY <1>1, <2>1, <2>2 DEF RefsTyped
      <4>2. RegisteredUrlOK(j)'
        BY <1>4, <3>1, <3>3, <4>1, GraphStays DEF RegisteredUrlOK
      <4> QED BY <1>1, <2>1, <3>1, <3>3, <4>2 DEF UrlOK
    <3> QED BY <3>2, <3>3
  <2> QED BY <1>1, <2>1, <2>3, <2>5, <2>6, LaterKeeps
<1> QED BY <1>3, <1>4

(* A reference that leads nowhere, or to no file, is that of a task at fault.*)
LEMMA UrlFaults ==
  ASSUME RefsTyped, at_ref \in {"check", "done"}, NEW i \in Tasks(graph), UrlOK(i)
  PROVE  /\ urls[i].is # "pending"
         /\ TaskOf(i).kind = "author" /\ urls[i].is = "relative" =>
              At(graph.out, urls[i].path) = At(graph.source, TaskOf(i).url.path)
         /\ TaskOf(i).kind = "registered" => ~AtFault(TaskOf(i)) /\ Present(urls[i])
         /\ TaskOf(i).kind = "author" => (Present(urls[i]) <=> ~AtFault(TaskOf(i)))
         /\ TaskOf(i).kind = "task" => Present(urls[i])
         /\ TaskOf(i).kind = "child" => ~AtFault(TaskOf(i))
<1>1. TaskOf(i).kind \in {"task", "registered", "author", "child"}
  BY TaskFacts DEF TaskOf, RefsTyped
<1>2. CASE TaskOf(i).kind = "task"
  BY <1>2 DEF UrlOK, CallUrlOK, Present
<1>3. CASE TaskOf(i).kind = "child"
  <2>1. urls[i] = TaskOf(i).url /\ TaskOf(i).url.is # "pending"
    BY <1>3, TaskFacts DEF UrlOK, TaskOf, RefsTyped, WrittenUrls
  <2> QED BY <1>3, <2>1 DEF AtFault
<1>4. CASE TaskOf(i).kind = "author"
  <2>1. TaskOf(i).url.is \in {"relative", "absolute", "remote"} /\ TaskOf(i).url.path \in Relatives
    BY <1>4, TaskFacts DEF TaskOf, RefsTyped, WrittenUrls
  <2>2. AtFault(TaskOf(i)) <=> TaskOf(i).url.is = "relative" /\ At(graph.source, TaskOf(i).url.path) \notin graph.files
    BY <1>4 DEF AtFault
  <2>3. CASE TaskOf(i).url.is = "relative"
    <3>1. urls[i].is = "relative" /\ urls[i].path = RelPath(At(graph.source, TaskOf(i).url.path), graph.out)
      BY <1>4, <2>3 DEF UrlOK, AuthorUrlOK
    <3>2. At(graph.out, urls[i].path) = At(graph.source, TaskOf(i).url.path)
      <4>1. At(graph.source, TaskOf(i).url.path) \in FilePaths /\ graph.out \in FilePaths
        BY <2>1, AtIsPath, GraphFacts DEF RefsTyped
      <4> QED BY <3>1, <4>1, RelPathLeads
    <3> QED BY <1>4, <2>2, <2>3, <3>1, <3>2 DEF Present
  <2>4. CASE TaskOf(i).url.is # "relative"
    <3>1. urls[i] = TaskOf(i).url
      BY <1>4, <2>4 DEF UrlOK, AuthorUrlOK
    <3> QED BY <1>4, <2>1, <2>2, <2>4, <3>1 DEF Present
  <2> QED BY <2>3, <2>4
<1>5. CASE TaskOf(i).kind = "registered"
  <2> DEFINE config == ConfigOf(TaskOf(i))
  <2>1. /\ config.is # "lost" /\ urls[i].is = config.is
        /\ config.is = "relative" => urls[i].path = RelPath(config.path, graph.out)
    BY <1>5 DEF UrlOK, RegisteredUrlOK
  <2>2. /\ config.is \in {"remote", "absolute", "relative", "lost"}
        /\ config.is = "relative" => config.path \in graph.files
    BY <1>5, ConfigFacts DEF RefsTyped
  <2>3. ~AtFault(TaskOf(i))
    BY <1>5, <2>1 DEF AtFault
  <2> HIDE DEF config
  <2>4. config.is = "relative" => At(graph.out, urls[i].path) = config.path
    BY <2>1, <2>2, GraphFacts, RelPathLeads DEF RefsTyped
  <2> QED BY <1>5, <2>1, <2>2, <2>3, <2>4 DEF Present
<1> QED BY <1>1, <1>2, <1>3, <1>4, <1>5

(* The check of a reference keeps the invariant.                             *)
LEMMA CheckKeeps ==
  ASSUME RefsInv, at_ref = "check", graph' = graph,
         NEW i \in Left, \A j \in Left : i <= j, Left \subseteq Nat, CheckTask(i)
  PROVE  RefsInv'
<1>1. /\ RefsTyped /\ refused = 0 /\ \A j \in Tasks(graph) : UrlOK(j)
      /\ i \in Tasks(graph) /\ i \in Nat
  BY DEF RefsInv, RefusedOK, Left, About
<1>2. CASE urls[i].is = "pending" \/ ~(Present(urls[i]) \/ TaskOf(i).kind = "child")
  <2>1. Refuse(i)
    BY <1>2 DEF CheckTask, TaskOf
  <2>2. TaskOf(i).kind \in {"task", "registered", "author", "child"}
    BY <1>1, TaskFacts DEF TaskOf, RefsTyped
  <2>3. AtFault(TaskOf(i))
    BY <1>1, <1>2, <2>2, UrlFaults
  <2> QED BY <1>1, <2>1, <2>3, RefuseKeeps
<1>3. CASE ~(urls[i].is = "pending" \/ ~(Present(urls[i]) \/ TaskOf(i).kind = "child"))
  <2>1. ref' = i /\ UNCHANGED <<at_ref, variants, sidecar, urls, refused>>
    BY <1>3 DEF CheckTask, TaskOf
  <2>2. RefsTyped'
    BY <1>1, <2>1 DEF RefsTyped, Tasks
  <2>3. ASSUME NEW j \in Tasks(graph) PROVE UrlOK(j)'
    <3>1. TaskOf(j)' = TaskOf(j) /\ ConfigOf(TaskOf(j))' = ConfigOf(TaskOf(j)) /\ UrlOK(j) /\ Present(urls[j])' = Present(urls[j])
      BY <1>1, <2>1, GraphStays DEF Present
    <3>2. j <= i => j <= ref \/ j = i
      <4> SUFFICES ASSUME j <= i, ~(j <= ref), j # i PROVE FALSE
        OBVIOUS
      <4>1. j \in Nat /\ ref \in Nat
        BY <1>1, TaskFacts DEF RefsTyped
      <4>2. j \in Left
        BY <4>1 DEF Left, About
      <4> QED BY <1>1, <4>1, <4>2
    <3> QED BY <1>3, <2>1, <3>1, <3>2 DEF UrlOK, CallUrlOK, AuthorUrlOK, RegisteredUrlOK
  <2> QED BY <1>1, <2>1, <2>2, <2>3, LaterKeeps
<1> QED BY <1>2, <1>3

(* Going on to the next step keeps the invariant.                            *)
LEMMA PartKeeps ==
  ASSUME RefsInv, at_ref \in {"plan", "register", "check"}, Left = {}, graph' = graph, NextPart
  PROVE  RefsInv'
<1>1. RefsTyped /\ refused = 0 /\ VariantsOK /\ EntriesOK /\ \A j \in Tasks(graph) : UrlOK(j)
  BY DEF RefsInv, RefusedOK
<1>2. /\ ref' = 0 /\ UNCHANGED <<variants, sidecar, urls, refused>>
      /\ at_ref = "plan" => at_ref' = "entries"
      /\ at_ref = "register" => at_ref' = "check"
      /\ at_ref = "check" => at_ref' = "done"
  BY DEF NextPart
<1>3. RefsTyped' /\ RefusedOK'
  BY <1>1, <1>2 DEF RefsTyped, RefusedOK, Tasks
<1>4. \A j \in About : j <= ref
  <2>1. \A j \in About : j \in Nat
    BY <1>1, TaskFacts DEF About, OfKind, RefsTyped
  <2>2. ref \in Nat
    BY <1>1 DEF RefsTyped
  <2>3. \A j \in About : ~(j > ref)
    BY DEF Left
  <2> QED BY <2>1, <2>2, <2>3
<1>5. ASSUME NEW i \in Tasks(graph) PROVE UrlOK(i)'
  <2>1. TaskOf(i)' = TaskOf(i) /\ ConfigOf(TaskOf(i))' = ConfigOf(TaskOf(i)) /\ UrlOK(i) /\ Present(urls[i])' = Present(urls[i])
    BY <1>1, <1>2, GraphStays DEF Present
  <2>2. at_ref = "register" /\ TaskOf(i).kind = "registered" => i <= ref
    BY <1>4 DEF About, OfKind, TaskOf
  <2>3. at_ref = "check" => i <= ref
    BY <1>4 DEF About
  <2>4. i \in Nat /\ i # 0
    BY <1>1, TaskFacts DEF RefsTyped
  <2> QED BY <1>2, <2>1, <2>2, <2>3, <2>4 DEF UrlOK, CallUrlOK, AuthorUrlOK, RegisteredUrlOK
<1>6. CASE at_ref = "plan"
  <2>1. Planned' = Planned
    BY <1>2, <1>4, <1>6, GraphStays DEF Planned, About, AllCalls
  <2>2. VariantsOK'
    BY <1>1, <1>2, <2>1, VariantsStay
  <2> QED BY <1>2, <1>3, <1>5, <1>6, <2>2 DEF RefsInv, EntriesOK, Tasks
<1>7. CASE at_ref # "plan"
  <2>1. at_ref \notin {"plan", "entries"} /\ at_ref' \notin {"plan", "entries"}
    BY <1>2, <1>7
  <2> QED BY <1>1, <1>2, <1>3, <1>5, <2>1, LaterKeeps
<1> QED BY <1>6, <1>7

(* Standing still does.                                                      *)
LEMMA RefsStutter == RefsInv /\ UNCHANGED refVars => RefsInv'
<1> SUFFICES ASSUME RefsInv, UNCHANGED refVars PROVE RefsInv'
  OBVIOUS
<1>1. UNCHANGED <<graph, at_ref, ref, variants, sidecar, urls, refused>>
  BY DEF refVars
<1>2. RefsTyped' /\ RefusedOK'
  BY <1>1, GraphStays DEF RefsInv, RefsTyped, RefusedOK, Tasks
<1>3. CASE refused = 0
  <2>1. VariantsOK /\ EntriesOK /\ \A j \in Tasks(graph) : UrlOK(j)
    BY <1>3 DEF RefsInv
  <2>2. VariantsOK'
    BY <1>1, <2>1, VariantsStay, GraphStays DEF Planned
  <2>3. EntriesOK'
    BY <1>1, <2>1, EntriesStay DEF EntriesOK
  <2>4. ASSUME NEW i \in Tasks(graph) PROVE UrlOK(i)'
    <3>1. TaskOf(i)' = TaskOf(i) /\ ConfigOf(TaskOf(i))' = ConfigOf(TaskOf(i)) /\ UrlOK(i) /\ Present(urls[i])' = Present(urls[i])
      BY <1>1, <2>1, GraphStays DEF Present
    <3> QED BY <1>1, <3>1 DEF UrlOK, CallUrlOK, AuthorUrlOK, RegisteredUrlOK
  <2> QED BY <1>1, <1>2, <2>2, <2>3, <2>4 DEF RefsInv, Tasks
<1> QED BY <1>1, <1>2, <1>3 DEF RefsInv

(* Every step keeps the invariant.                                           *)
LEMMA RefsKeeps == RefsInv /\ [RefsStep]_refVars => RefsInv'
<1> SUFFICES ASSUME RefsInv, RefsStep PROVE RefsInv'
  BY RefsStutter
<1>1. graph' = graph /\ RefsTyped
  BY DEF RefsStep, RefsInv
<1>2. CASE at_ref = "entries" /\ WriteEntries
  BY <1>1, <1>2, EntriesKeep
<1>3. CASE at_ref = "relocate" /\ Relocate
  BY <1>1, <1>3, RelocateKeeps
<1>4. CASE at_ref \in {"plan", "register", "check"} /\ Left # {} /\ OneTask(Min(Left))
  <2> DEFINE i == Min(Left)
  <2>1. i \in Left /\ Left \subseteq Nat /\ \A j \in Left : i <= j
    BY <1>1, <1>4, NextLeft
  <2>2. CASE at_ref = "plan"
    <3>1. PlanTask(i)
      BY <1>4, <2>2 DEF OneTask
    <3> HIDE DEF i
    <3> QED BY <1>1, <2>1, <2>2, <3>1, PlanKeeps
  <2>3. CASE at_ref = "register"
    <3>1. RegisterTask(i)
      BY <1>4, <2>3 DEF OneTask
    <3> HIDE DEF i
    <3> QED BY <1>1, <2>1, <2>3, <3>1, RegisterKeeps
  <2>4. CASE at_ref = "check"
    <3>1. CheckTask(i)
      BY <1>4, <2>4 DEF OneTask
    <3> HIDE DEF i
    <3> QED BY <1>1, <2>1, <2>4, <3>1, CheckKeeps
  <2> QED BY <1>4, <2>2, <2>3, <2>4
<1>5. CASE at_ref \in {"plan", "register", "check"} /\ Left = {} /\ NextPart
  BY <1>1, <1>5, PartKeeps
<1> QED BY <1>2, <1>3, <1>4, <1>5 DEF RefsStep

(* A call that has been planned is not at fault.                             *)
LEMMA PlannedSound ==
  ASSUME RefsTyped, VariantsOK, at_ref # "plan", NEW i \in AllCalls
  PROVE  ~AtFault(TaskOf(i))
<1> DEFINE t == TaskOf(i)
<1>0. i \in Planned
  BY DEF Planned
<1>1. \A j \in Planned : Fits(EntryOf(TaskOf(j)), TaskOf(j))
  BY DEF VariantsOK
<1>2. graph.sidecar /\ ~PayloadFails(t) /\ t.kind = "task"
  BY <1>0 DEF VariantsOK, AllCalls, OfKind, TaskOf
<1>3. t.file # <<>>
  BY <1>2, TaskFacts DEF RefsTyped, Planned, AllCalls, OfKind, TaskOf
<1>4. ~(Image(t) = Absent /\ t.imageId # Absent)
  <2> HIDE DEF t
  <2> QED BY <1>2 DEF PayloadFails, Image
<1>5. {t.file, t.root, t.deps} \ {<<>>} \subseteq graph.files /\ t.keys # "clash"
  <2> HIDE DEF t
  <2> QED BY <1>2 DEF PayloadFails, Lost
<1>6. ASSUME NEW j \in AllCalls, Component(TaskOf(j)) = Component(t)
      PROVE  TaskOf(j).publish = t.publish
  <2>1. IsCall(t) /\ IsCall(TaskOf(j)) /\ j \in Planned
    BY <1>6, TaskFacts DEF RefsTyped, Planned, AllCalls, OfKind, IsCall, TaskOf
  <2>2. Identity(TaskOf(j)) = Identity(t)
    BY <1>6, <2>1, IdentityIsComponent DEF RefsTyped
  <2>3. EntryOf(TaskOf(j)) = EntryOf(t)
    <3>1. TaskOf(j).function = t.function
      BY <2>2 DEF Identity
    <3> QED BY <2>2, <3>1 DEF EntryOf
  <2> QED BY <1>0, <1>1, <2>1, <2>3 DEF Fits
<1>7. ~\E j \in OfKind(graph, "task") :
         Component(graph.tasks[j]) = Component(t) /\ graph.tasks[j].publish # t.publish
  BY <1>6 DEF AllCalls, TaskOf
<1> HIDE DEF t
<1>8. ~AtFault(t)
  BY <1>2, <1>4, <1>5, <1>7 DEF AtFault
<1> QED BY <1>8 DEF t

(* The invariant is why the references lead home.                            *)
LEMMA InvLeadsHome == RefsInv => RefsLeadHome
<1> SUFFICES ASSUME RefsInv, at_ref = "done" PROVE RefsLeadHome
  BY DEF RefsLeadHome, RefsOver
<1>1. CASE refused # 0
  BY <1>1 DEF RefsInv, RefusedOK, RefsLeadHome, TaskOf
<1>2. CASE refused = 0
  <2>1. RefsTyped /\ VariantsOK /\ EntriesDescribe /\ \A i \in Tasks(graph) : UrlOK(i)
    BY <1>2 DEF RefsInv, EntriesOK
  <2>2. ASSUME NEW i \in Tasks(graph) PROVE LeadsHome(i) /\ ~AtFault(graph.tasks[i])
    <3>1. TaskOf(i).kind \in {"task", "registered", "author", "child"}
      BY <2>1, TaskFacts DEF RefsTyped, TaskOf
    <3>2. UrlOK(i) /\ (Present(urls[i]) \/ TaskOf(i).kind = "child")
      BY <2>1 DEF UrlOK
    <3>3. CASE TaskOf(i).kind = "task"
      <4>1. ~AtFault(TaskOf(i))
        BY <2>1, <3>3, PlannedSound DEF AllCalls, OfKind, TaskOf
      <4> QED BY <3>3, <4>1 DEF LeadsHome, TaskOf
    <3>4. CASE TaskOf(i).kind = "child"
      <4>1. ~AtFault(TaskOf(i)) /\ urls[i] = TaskOf(i).url
        BY <2>1, <3>2, <3>4, UrlFaults DEF UrlOK
      <4> QED BY <3>4, <4>1 DEF LeadsHome, TaskOf
    <3>5. CASE TaskOf(i).kind = "author"
      <4>1. /\ ~AtFault(TaskOf(i))
            /\ urls[i].is = "relative" => At(graph.out, urls[i].path) = At(graph.source, TaskOf(i).url.path)
        BY <2>1, <3>2, <3>5, UrlFaults
      <4>2. IF TaskOf(i).url.is = "relative"
            THEN /\ At(graph.out, urls[i].path) = At(graph.source, TaskOf(i).url.path)
                 /\ At(graph.out, urls[i].path) \in graph.files
            ELSE urls[i] = TaskOf(i).url
        BY <3>2, <3>5, <4>1 DEF UrlOK, AuthorUrlOK, Present
      <4> QED BY <3>5, <4>1, <4>2 DEF LeadsHome, TaskOf
    <3>6. CASE TaskOf(i).kind = "registered"
      <4> DEFINE t == TaskOf(i)
                 config == ConfigOf(t)
                 there == At(graph.out, urls[i].path)
      <4>1. ~AtFault(t) /\ Present(urls[i])
        BY <2>1, <3>6, UrlFaults
      <4>2. /\ config.is # "lost" /\ urls[i].is = config.is
            /\ urls[i].path = IF config.is = "relative" THEN RelPath(config.path, graph.out)
                              ELSE [up |-> 0, down |-> config.path]
        BY <3>2, <3>6 DEF UrlOK, RegisteredUrlOK
      <4>3. /\ config.is \in {"remote", "absolute", "relative", "lost"}
            /\ config.is = "remote" <=> t.config.is = "remote"
            /\ config.is \in {"absolute", "relative"} => config.path \in graph.files
            /\ config.is = "relative" /\ t.config.is = "none" =>
                 \A d \in Ancestors(t.file) :
                   Append(d, "gen_config") \in graph.files => Len(d) < Len(config.path)
        BY <2>1, <3>6, ConfigFacts DEF RefsTyped
      <4> HIDE DEF config
      <4>4. config.is = "relative" => there = config.path
        BY <2>1, <4>2, <4>3, GraphFacts, RelPathLeads DEF RefsTyped
      <4>5. config.is = "absolute" => urls[i].path.down = config.path
        BY <4>2
      <4> HIDE DEF there
      <4>6. CASE config.is = "remote"
        <5>1. urls[i].is = "remote" /\ t.config.is = "remote"
          BY <4>2, <4>3, <4>6
        <5> QED BY <3>6, <4>1, <5>1 DEF LeadsHome, TaskOf
      <4>7. CASE config.is = "absolute"
        <5>1. urls[i].is = "absolute" /\ urls[i].path.down \in graph.files
          BY <4>2, <4>3, <4>5, <4>7
        <5> QED BY <3>6, <4>1, <5>1 DEF LeadsHome, TaskOf
      <4>8. CASE config.is = "relative"
        <5>1. /\ urls[i].is = "relative" /\ there \in graph.files
              /\ t.config.is = "none" => \A d \in Ancestors(t.file) :
                   Append(d, "gen_config") \in graph.files => Len(d) < Len(there)
          BY <4>2, <4>3, <4>4, <4>8
        <5> QED BY <3>6, <4>1, <5>1 DEF LeadsHome, TaskOf, there
      <4> QED BY <4>2, <4>3, <4>6, <4>7, <4>8
    <3> QED BY <3>1, <3>3, <3>4, <3>5, <3>6
  <2> QED BY <1>2, <2>1, <2>2 DEF RefsLeadHome
<1> QED BY <1>1, <1>2

(* A compilation whose references lead home, and that is refused only for a  *)
(* task at fault: for every graph, tree of files and order of the tasks.     *)
THEOREM ReferencesLeadHome == RefsSpec => []RefsLeadHome
<1>1. RefsInit => RefsInv
  BY RefsInitially
<1>2. RefsInv /\ [RefsStep]_refVars => RefsInv'
  BY RefsKeeps
<1>3. RefsInv => RefsLeadHome
  BY InvLeadsHome
<1> QED BY <1>1, <1>2, <1>3, PTL DEF RefsSpec

-----------------------------------------------------------------------------
(* Tracing: the builder that records. *)

Frames(B, E) == [body : B, pc : Nat, env : E, its : Nat, token : Nat]

(* Each trace underway has a builder of its own and goes back to that of the *)
(* trace around it; unless an exception is on its way, the innermost one     *)
(* records.                                                                  *)
NestOK ==
  /\ \E B, E : running \in Seq(Frames(B, E))
  /\ \E S : builders \in Seq(S)
  /\ raising \in BOOLEAN
  /\ \A k \in 1..Len(running) :
       /\ running[k].its \in 1..Len(builders)
       /\ running[k].token = IF k = 1 THEN 0 ELSE running[k - 1].its
       /\ \A j \in 1..(k - 1) : running[j].its # running[k].its
  /\ running = <<>> => current = 0 /\ ~raising
  /\ running # <<>> /\ ~raising => current = Inner.its

(* A step records in no builder but that of the innermost trace.             *)
OthersKeepTheirs ==
  \A b \in 1..Len(builders) :
    ~(running # <<>> /\ ~raising /\ b = Inner.its) => builders'[b] = builders[b]

(* The innermost trace.                                                      *)
LEMMA InnerIs ==
  ASSUME NestOK, running # <<>>
  PROVE  /\ Len(running) \in Nat /\ Len(running) > 0 /\ Inner = running[Len(running)]
         /\ DOMAIN running = 1..Len(running)
<1>1. PICK B, E : running \in Seq(Frames(B, E))
  BY DEF NestOK
<1> QED BY <1>1 DEF Inner, Last

LEMMA NestInitially == TraceInit => NestOK
<1> SUFFICES ASSUME TraceInit PROVE NestOK
  OBVIOUS
<1>1. running = <<>> /\ builders = <<>> /\ current = 0 /\ raising = FALSE
  BY DEF TraceInit
<1>2. <<>> \in Seq({}) /\ <<>> \in Seq(Frames({}, {}))
  OBVIOUS
<1>3. Len(running) = 0 /\ \A k \in 1..Len(running) : FALSE
  BY <1>1
<1>4. (\E B, E : running \in Seq(Frames(B, E))) /\ (\E S : builders \in Seq(S))
  BY <1>1, <1>2
<1>5. raising \in BOOLEAN
  BY <1>1
<1> QED BY <1>1, <1>3, <1>4, <1>5, Zenon DEF NestOK

(* Entering a body makes it a builder of its own.                            *)
LEMMA NestEnters ==
  ASSUME NestOK, ~raising, NEW entered, EnterBody(entered)
  PROVE  NestOK' /\ OthersKeepTheirs
<1> DEFINE odd == ParamsOf(entered.params, "odd") # {}
           env == [x \in {entered.params[i].name : i \in ParamsOf(entered.params, "in")} |-> Input(x)]
           b == [NoBuilder EXCEPT !.lhs = entered.lhs, !.inputs = Inputs(entered.params)]
           n == Len(builders)
           frame == [body |-> entered, pc |-> 1, env |-> env, its |-> n + 1, token |-> current]
<1>1. /\ builders' = Append(builders, b) /\ running' = Append(running, frame)
      /\ current' = (IF odd THEN current ELSE n + 1) /\ raising' = odd
  BY DEF EnterBody
<1> HIDE DEF odd, env, b
<1>2. PICK B, E : running \in Seq(Frames(B, E))
  BY DEF NestOK
<1>3. PICK S : builders \in Seq(S)
  BY DEF NestOK
<1>4. n \in Nat /\ Len(running) \in Nat /\ (running = <<>> <=> Len(running) = 0)
  BY <1>2, <1>3
<1>5. current \in 0..n /\ current = (IF Len(running) = 0 THEN 0 ELSE running[Len(running)].its)
  <2>1. CASE running = <<>>
    BY <1>4, <2>1 DEF NestOK
  <2>2. CASE running # <<>>
    BY <1>4, <2>2, InnerIs DEF NestOK
  <2> QED BY <2>1, <2>2
<1>6. frame \in Frames(B \cup {entered}, E \cup {env})
  BY <1>4, <1>5 DEF Frames
<1>7. running \in Seq(Frames(B \cup {entered}, E \cup {env}))
  <2>1. Frames(B, E) \subseteq Frames(B \cup {entered}, E \cup {env})
    BY DEF Frames
  <2> QED BY <1>2, <2>1, SeqMonotonic
<1>8. /\ running' \in Seq(Frames(B \cup {entered}, E \cup {env}))
      /\ Len(running') = Len(running) + 1 /\ running'[Len(running) + 1] = frame
      /\ \A k \in 1..Len(running) : running'[k] = running[k]
  BY <1>1, <1>6, <1>7, AppendProperties
<1>9. /\ builders' \in Seq(S \cup {b}) /\ Len(builders') = n + 1
      /\ \A k \in 1..n : builders'[k] = builders[k]
  <2>1. builders \in Seq(S \cup {b})
    BY <1>3, SeqMonotonic
  <2> QED BY <1>1, <2>1, AppendProperties
<1>10. ASSUME NEW k \in 1..Len(running')
       PROVE  /\ running'[k].its \in 1..Len(builders')
              /\ running'[k].token = IF k = 1 THEN 0 ELSE running'[k - 1].its
              /\ \A j \in 1..(k - 1) : running'[j].its # running'[k].its
  <2>1. CASE k \in 1..Len(running)
    <3>1. /\ running[k].its \in 1..n
          /\ running[k].token = IF k = 1 THEN 0 ELSE running[k - 1].its
          /\ \A j \in 1..(k - 1) : running[j].its # running[k].its
      BY <2>1 DEF NestOK
    <3>2. \A j \in 1..k : j \in 1..Len(running)
      BY <1>4, <2>1
    <3>3. (k # 1 => k - 1 \in 1..Len(running)) /\ \A j \in 1..(k - 1) : j \in 1..Len(running)
      BY <1>4, <2>1
    <3>4. running[k].its \in 1..Len(builders')
      BY <1>4, <1>9, <3>1
    <3>5. running'[k].its = running[k].its /\ running'[k].token = running[k].token
      BY <1>8, <2>1
    <3>6. k # 1 => running'[k - 1] = running[k - 1]
      BY <1>8, <3>3
    <3>7. \A j \in 1..(k - 1) : running'[j].its # running'[k].its
      BY <1>8, <3>1, <3>3, <3>5
    <3>8. running'[k].token = IF k = 1 THEN 0 ELSE running'[k - 1].its
      BY <3>1, <3>5, <3>6
    <3> QED BY <3>4, <3>5, <3>7, <3>8
  <2>2. CASE k = Len(running) + 1
    <3>1. \A j \in 1..Len(running) : running[j].its \in 1..n
      BY DEF NestOK
    <3>2. running'[k].its = n + 1 /\ running'[k].token = current
      BY <1>8, <2>2
    <3>3. \A j \in 1..(k - 1) : running'[j].its \in 1..n
      BY <1>4, <1>8, <2>2, <3>1
    <3>4. current = IF k = 1 THEN 0 ELSE running'[k - 1].its
      BY <1>4, <1>5, <1>8, <2>2
    <3> QED BY <1>4, <1>9, <3>2, <3>3, <3>4
  <2> QED BY <1>4, <1>8, <2>1, <2>2
<1>11. Inner' = frame /\ running' # <<>>
  BY <1>4, <1>8 DEF Inner, Last
<1>12. raising' \in BOOLEAN /\ (~raising' => current' = Inner'.its)
  BY <1>1, <1>11 DEF odd
<1>13. \E B1, E1 : running' \in Seq(Frames(B1, E1))
  BY <1>8
<1>14. \E S1 : builders' \in Seq(S1)
  BY <1>9
<1>15. NestOK'
  BY <1>10, <1>11, <1>12, <1>13, <1>14 DEF NestOK
<1> QED BY <1>9, <1>15 DEF OthersKeepTheirs

-----------------------------------------------------------------------------
(* A record of a sequence that changes leaves the rest.                      *)
LEMMA OneChanges ==
  ASSUME NEW S, NEW s \in Seq(S), NEW i \in 1..Len(s), NEW v
  PROVE  LET t == [s EXCEPT ![i] = v]
         IN /\ t \in Seq(S \cup {v}) /\ Len(t) = Len(s)
            /\ \A j \in 1..Len(s) : j # i => t[j] = s[j]
<1> DEFINE t == [s EXCEPT ![i] = v]
<1>1. s \in Seq(S \cup {v})
  BY SeqMonotonic
<1>2. t \in Seq(S \cup {v}) /\ Len(t) = Len(s)
  BY <1>1, ExceptSeq
<1> QED BY <1>2

(* Builders of which one at most has changed are builders.                   *)
Recorded(b) ==
  \/ builders' = builders
  \/ \E v : builders' = [builders EXCEPT ![b] = v]
LEMMA BuildersKept ==
  ASSUME NestOK, NEW b \in 1..Len(builders), Recorded(b)
  PROVE  /\ \E S : builders' \in Seq(S)
         /\ Len(builders') = Len(builders)
         /\ \A j \in 1..Len(builders) : j # b => builders'[j] = builders[j]
<1>1. PICK S : builders \in Seq(S)
  BY DEF NestOK
<1>2. CASE builders' = builders
  BY <1>1, <1>2
<1>3. ASSUME NEW v, builders' = [builders EXCEPT ![b] = v]
      PROVE  /\ builders' \in Seq(S \cup {v})
             /\ Len(builders') = Len(builders)
             /\ \A j \in 1..Len(builders) : j # b => builders'[j] = builders[j]
  BY <1>1, <1>3, OneChanges
<1> QED BY <1>2, <1>3 DEF Recorded

(* The traces underway keep what they record in and go back to.              *)
SameTraces(n) ==
  /\ \E B, E : running' \in Seq(Frames(B, E))
  /\ Len(running') = n
  /\ \A k \in 1..n : running'[k].its = running[k].its /\ running'[k].token = running[k].token

(* A trace that goes on, or fails.                                           *)
LEMMA NestGoesOn ==
  ASSUME NestOK, running # <<>>, SameTraces(Len(running)), Recorded(Inner.its),
         current' = current, raising' \in BOOLEAN, raising => raising'
  PROVE  NestOK'
<1> DEFINE n == Len(running)
<1>1. n \in Nat /\ n > 0 /\ Inner = running[n]
  BY InnerIs
<1>2. running[n].its \in 1..Len(builders)
  BY <1>1 DEF NestOK
<1>3. (\E S : builders' \in Seq(S)) /\ Len(builders') = Len(builders)
  BY <1>1, <1>2, BuildersKept
<1>4. PICK B, E : running' \in Seq(Frames(B, E))
  BY DEF SameTraces
<1>5. Len(running') = n /\ \A k \in 1..n : running'[k].its = running[k].its /\ running'[k].token = running[k].token
  BY DEF SameTraces
<1>6. Inner' = running'[n] /\ running' # <<>>
  BY <1>1, <1>4, <1>5 DEF Inner, Last
<1>7. ASSUME NEW k \in 1..Len(running')
      PROVE  /\ running'[k].its \in 1..Len(builders')
             /\ running'[k].token = IF k = 1 THEN 0 ELSE running'[k - 1].its
             /\ \A j \in 1..(k - 1) : running'[j].its # running'[k].its
  <2>1. /\ running[k].its \in 1..Len(builders)
        /\ running[k].token = IF k = 1 THEN 0 ELSE running[k - 1].its
        /\ \A j \in 1..(k - 1) : running[j].its # running[k].its
    BY <1>5, <1>7 DEF NestOK
  <2>2. k \in 1..n /\ (k # 1 => k - 1 \in 1..n) /\ \A j \in 1..(k - 1) : j \in 1..n
    BY <1>1, <1>5, <1>7
  <2> QED BY <1>3, <1>5, <2>1, <2>2
<1>8. ~raising' => current' = Inner'.its
  <2> SUFFICES ASSUME ~raising' PROVE current' = Inner'.its
    OBVIOUS
  <2>1. current = Inner.its
    BY DEF NestOK
  <2> QED BY <1>1, <1>5, <1>6, <2>1
<1>9. \E B1, E1 : running' \in Seq(Frames(B1, E1))
  BY <1>4
<1> QED BY <1>3, <1>6, <1>7, <1>8, <1>9 DEF NestOK

(* A trace that ends goes back to the one around it.                         *)
LEMMA NestLeaves ==
  ASSUME NestOK, running # <<>>, SameTraces(Len(running) - 1), Recorded(Inner.its),
         current' = Inner.token, raising' \in BOOLEAN, running' = <<>> => ~raising'
  PROVE  NestOK'
<1> DEFINE n == Len(running)
<1>1. n \in Nat /\ n > 0 /\ Inner = running[n]
  BY InnerIs
<1>2. /\ running[n].its \in 1..Len(builders)
      /\ running[n].token = IF n = 1 THEN 0 ELSE running[n - 1].its
  <2>1. n \in 1..n
    BY <1>1
  <2> QED BY <2>1 DEF NestOK
<1>3. (\E S : builders' \in Seq(S)) /\ Len(builders') = Len(builders)
  BY <1>1, <1>2, BuildersKept
<1>4. PICK B, E : running' \in Seq(Frames(B, E))
  BY DEF SameTraces
<1>5. Len(running') = n - 1
      /\ \A k \in 1..(n - 1) : running'[k].its = running[k].its /\ running'[k].token = running[k].token
  BY DEF SameTraces
<1>6. ASSUME NEW k \in 1..Len(running')
      PROVE  /\ running'[k].its \in 1..Len(builders')
             /\ running'[k].token = IF k = 1 THEN 0 ELSE running'[k - 1].its
             /\ \A j \in 1..(k - 1) : running'[j].its # running'[k].its
  <2>1. k \in 1..(n - 1) /\ k \in 1..n /\ (k # 1 => k - 1 \in 1..(n - 1)) /\ \A j \in 1..(k - 1) : j \in 1..(n - 1)
    BY <1>1, <1>5, <1>6
  <2>2. /\ running[k].its \in 1..Len(builders)
        /\ running[k].token = IF k = 1 THEN 0 ELSE running[k - 1].its
        /\ \A j \in 1..(k - 1) : running[j].its # running[k].its
    BY <2>1 DEF NestOK
  <2> QED BY <1>3, <1>5, <2>1, <2>2
<1>7. running' = <<>> => current' = 0 /\ ~raising'
  <2> SUFFICES ASSUME running' = <<>> PROVE current' = 0
    OBVIOUS
  <2>1. n = 1
    BY <1>1, <1>5
  <2> QED BY <1>1, <1>2, <2>1
<1>8. running' # <<>> /\ ~raising' => current' = Inner'.its
  <2> SUFFICES ASSUME running' # <<>> PROVE current' = Inner'.its
    OBVIOUS
  <2>1. n # 1 /\ n - 1 \in 1..(n - 1)
    BY <1>1, <1>4, <1>5
  <2>2. Inner' = running'[n - 1]
    BY <1>5 DEF Inner, Last
  <2> QED BY <1>1, <1>2, <1>5, <2>1, <2>2
<1>9. \E B1, E1 : running' \in Seq(Frames(B1, E1))
  BY <1>4
<1> QED BY <1>3, <1>6, <1>7, <1>8, <1>9 DEF NestOK

(* Only the innermost trace records.                                         *)
LEMMA OnlyTheInnermostRecords ==
  ASSUME NestOK, running # <<>>, ~raising, Recorded(Inner.its)
  PROVE  OthersKeepTheirs
<1>1. Inner.its \in 1..Len(builders)
  BY InnerIs DEF NestOK
<1> QED BY <1>1, BuildersKept DEF OthersKeepTheirs

(* The traces underway after a step that does not touch them.                *)
LEMMA SameWhenKept ==
  ASSUME NestOK, running' = running
  PROVE  SameTraces(Len(running))
BY DEF NestOK, SameTraces

(* The next step of the innermost trace.                                     *)
LEMMA SameWhenAdvanced ==
  ASSUME NestOK, running # <<>>, NEW env, Advance(env)
  PROVE  SameTraces(Len(running))
<1> DEFINE n == Len(running)
           f == [running[n] EXCEPT !.pc = @ + 1, !.env = env]
<1>1. PICK B, E : running \in Seq(Frames(B, E))
  BY DEF NestOK
<1>2. n \in Nat /\ n > 0
  BY InnerIs
<1>3. running[n] \in Frames(B, E)
  BY <1>1, <1>2
<1>4. /\ f \in Frames(B, E \cup {env}) /\ f.its = running[n].its /\ f.token = running[n].token
  <2>1. f = [body |-> running[n].body, pc |-> running[n].pc + 1, env |-> env,
             its |-> running[n].its, token |-> running[n].token]
    <3> DEFINE w == running[n]
    <3>1. w = [body |-> w.body, pc |-> w.pc, env |-> w.env, its |-> w.its, token |-> w.token]
      BY <1>3 DEF Frames
    <3>2. f = [w EXCEPT !.pc = @ + 1, !.env = env]
      OBVIOUS
    <3> HIDE DEF w, f
    <3> QED BY <3>1, <3>2 DEF w
  <2>2. running[n].body \in B /\ running[n].pc + 1 \in Nat /\ running[n].its \in Nat /\ running[n].token \in Nat
    BY <1>3 DEF Frames
  <2> HIDE DEF f
  <2> QED BY <2>1, <2>2 DEF Frames
<1>5. running' = [running EXCEPT ![n] = f]
  BY <1>1, <1>2 DEF Advance
<1>6. running \in Seq(Frames(B, E \cup {env}))
  <2>1. Frames(B, E) \subseteq Frames(B, E \cup {env})
    BY DEF Frames
  <2> QED BY <1>1, <2>1, SeqMonotonic
<1> HIDE DEF f
<1>7. running' \in Seq(Frames(B, E \cup {env})) /\ Len(running') = n
  BY <1>2, <1>4, <1>5, <1>6, ExceptSeq
<1>8. \A k \in 1..n : running'[k] = IF k = n THEN f ELSE running[k]
  BY <1>1, <1>5
<1> QED BY <1>4, <1>7, <1>8 DEF SameTraces

(* A step that fails.                                                        *)
LEMMA NestRaises ==
  ASSUME NestOK, running # <<>>, Raises
  PROVE  NestOK' /\ OthersKeepTheirs
<1>1. UNCHANGED <<builders, current, running>> /\ raising' = TRUE
  BY DEF Raises
<1>2. SameTraces(Len(running)) /\ Recorded(Inner.its)
  BY <1>1, SameWhenKept DEF Recorded
<1>3. NestOK'
  BY <1>1, <1>2, NestGoesOn
<1> QED BY <1>1, <1>3 DEF OthersKeepTheirs

(* A step that records.                                                      *)
LEMMA NestRecords ==
  ASSUME NestOK, running # <<>>, ~raising, NEW env, Advance(env),
         Recorded(current), UNCHANGED <<current, raising>>
  PROVE  NestOK' /\ OthersKeepTheirs
<1>1. current = Inner.its
  BY DEF NestOK
<1>2. SameTraces(Len(running)) /\ Recorded(Inner.its)
  BY <1>1, SameWhenAdvanced
<1>3. raising' \in BOOLEAN
  BY DEF NestOK
<1>4. NestOK'
  BY <1>2, <1>3, NestGoesOn
<1> QED BY <1>2, <1>4, OnlyTheInnermostRecords

(* A trace around another, after its inner one has ended.                    *)
LEMMA PopKeeps ==
  ASSUME NestOK, running # <<>>, running' \in {Front(running), Pop(Front(running))}
  PROVE  SameTraces(Len(running) - 1)
<1> DEFINE n == Len(running)
           r == Front(running)
           m == n - 1
<1>1. PICK B, E : running \in Seq(Frames(B, E))
  BY DEF NestOK
<1>2. n \in Nat /\ n > 0
  BY InnerIs
<1>3. /\ r \in Seq(Frames(B, E)) /\ Len(r) = m
      /\ \A k \in 1..m : r[k] = running[k]
  <2>1. r = SubSeq(running, 1, m)
    BY DEF Front
  <2>2. m \in Nat /\ \A k \in 1..m : k \in 1..n /\ 1 + k - 1 = k
    BY <1>2
  <2> HIDE DEF r, m
  <2>3. m - 1 + 1 = m /\ (1 <= m <=> m # 0)
    BY <2>2
  <2>4. /\ SubSeq(running, 1, m) \in Seq(Frames(B, E))
        /\ Len(SubSeq(running, 1, m)) = IF 1 <= m THEN m - 1 + 1 ELSE 0
        /\ \A k \in 1..(m - 1 + 1) : SubSeq(running, 1, m)[k] = running[1 + k - 1]
    BY <1>1, <2>2, SubSeqProperties
  <2> QED BY <2>1, <2>2, <2>3, <2>4
<1> HIDE DEF r
<1>4. CASE running' = r
  BY <1>3, <1>4 DEF SameTraces
<1>5. CASE running' = Pop(r) /\ r # <<>>
  <2> DEFINE f == [r[m] EXCEPT !.pc = @ + 1]
  <2>1. m \in Nat /\ m > 0 /\ m \in 1..m
    BY <1>2, <1>3, <1>5
  <2>2. r[m] \in Frames(B, E)
    BY <1>3, <2>1
  <2>3. f \in Frames(B, E) /\ f.its = r[m].its /\ f.token = r[m].token
    BY <2>2 DEF Frames
  <2>4. running' = [r EXCEPT ![m] = f]
    BY <1>3, <1>5 DEF Pop
  <2> HIDE DEF f
  <2>5. running' \in Seq(Frames(B, E)) /\ Len(running') = m
    BY <1>3, <2>1, <2>3, <2>4, ExceptSeq
  <2>6. \A k \in 1..m : running'[k] = IF k = m THEN f ELSE r[k]
    BY <1>3, <2>4
  <2> QED BY <1>3, <2>3, <2>5, <2>6 DEF SameTraces
<1>6. CASE running' = Pop(r) /\ r = <<>>
  BY <1>3, <1>4, <1>6 DEF Pop, SameTraces
<1> QED BY <1>4, <1>5, <1>6 DEF r

-----------------------------------------------------------------------------
(* Every step.                                                               *)
LEMMA NestStep ==
  ASSUME NestOK, TraceStep
  PROVE  NestOK' /\ OthersKeepTheirs
<1>1. CASE TraceBody
  <2>1. ~raising /\ EnterBody(Head(agenda))
    BY <1>1 DEF TraceBody, NestOK
  <2> QED BY <2>1, NestEnters
<1>2. CASE Nest
  <2>1. ~raising /\ EnterBody(Step.body)
    BY <1>2 DEF Nest, TraceAt
  <2> QED BY <2>1, NestEnters
<1>3. CASE CallHandle
  <2> DEFINE h == DerivedOf(Step, Inner.env)
             node == TaskNode(Step, h, Inner.env)
             env == (Step.into :> Proxy(node.id, h)) @@ Inner.env
             v == [builders[current] EXCEPT !.tasks = Append(@, node)]
  <2>1. running # <<>> /\ ~raising
    BY <1>3 DEF CallHandle, TraceAt
  <2>2. CASE Raises
    BY <2>1, <2>2, NestRaises
  <2>3. CASE /\ builders' = [builders EXCEPT ![current].tasks = Append(@, node)]
             /\ Advance(env) /\ UNCHANGED <<agenda, current, raising, traced>>
    <3> HIDE DEF env, node
    <3>1. builders' = [builders EXCEPT ![current] = v]
      BY <2>3
    <3>2. Recorded(current)
      BY <3>1 DEF Recorded
    <3> QED BY <2>1, <2>3, <3>2, NestRecords
  <2>4. Raises \/ /\ builders' = [builders EXCEPT ![current].tasks = Append(@, node)]
                  /\ Advance(env) /\ UNCHANGED <<agenda, current, raising, traced>>
    BY <1>3 DEF CallHandle
  <2> QED BY <2>2, <2>3, <2>4
<1>4. CASE GraphInput
  <2>1. running # <<>> /\ ~raising
    BY <1>4 DEF GraphInput, TraceAt
  <2>2. CASE Raises
    BY <2>1, <2>2, NestRaises
  <2> DEFINE env == (Step.into :> IF Step.given THEN Input(Step.name) ELSE [is |-> "other"]) @@ Inner.env
             v == [builders[current] EXCEPT !.inputs = Append(@, Step.name)]
  <2>3. CASE /\ builders' = IF Step.given
                            THEN [builders EXCEPT ![current].inputs = Append(@, Step.name)] ELSE builders
             /\ Advance(env) /\ UNCHANGED <<agenda, current, raising, traced>>
    <3> HIDE DEF env
    <3>1. builders' = builders \/ builders' = [builders EXCEPT ![current] = v]
      BY <2>3
    <3>2. Recorded(current)
      BY <3>1 DEF Recorded
    <3> QED BY <2>1, <2>3, <3>2, NestRecords
  <2>4. Raises \/ /\ builders' = IF Step.given
                            THEN [builders EXCEPT ![current].inputs = Append(@, Step.name)] ELSE builders
                  /\ Advance(env) /\ UNCHANGED <<agenda, current, raising, traced>>
    BY <1>4 DEF GraphInput
  <2> QED BY <2>2, <2>3, <2>4
<1>5. CASE GraphOutput
  <2>1. running # <<>> /\ ~raising
    BY <1>5 DEF GraphOutput, TraceAt
  <2>2. CASE Raises
    BY <2>1, <2>2, NestRaises
  <2> DEFINE edge == Edge(Evaluate(Step.value, Inner.env))
             v == [builders[current] EXCEPT !.outputs = Append(@, Step.name),
                                            !.values = (Step.name :> edge) @@ @]
             recorded == builders' =
                  IF ~Step.given THEN builders
                  ELSE [builders EXCEPT
                          ![current].outputs = Append(@, Step.name),
                          ![current].values = (Step.name :> edge) @@ @]
  <2>3. CASE /\ recorded
             /\ Advance(Inner.env) /\ UNCHANGED <<agenda, current, raising, traced>>
    <3>0. current \in DOMAIN builders
      <4>1. current = Inner.its /\ Inner.its \in 1..Len(builders)
        BY <2>1, InnerIs DEF NestOK
      <4> QED BY <4>1 DEF NestOK
    <3> HIDE DEF edge
    <3>1. builders' = builders \/ builders' = [builders EXCEPT ![current] = v]
      BY <2>3, <3>0
    <3> HIDE DEF v, recorded
    <3>2. Recorded(current)
      BY <3>1 DEF Recorded
    <3> QED BY <2>1, <2>3, <3>2, NestRecords
  <2>4. Raises \/ /\ recorded
                  /\ Advance(Inner.env) /\ UNCHANGED <<agenda, current, raising, traced>>
    BY <1>5 DEF GraphOutput
  <2> HIDE DEF recorded
  <2> QED BY <2>2, <2>3, <2>4
<1>6. CASE BodyFails
  <2>1. running # <<>> /\ Raises
    BY <1>6 DEF BodyFails, TraceAt
  <2> QED BY <2>1, NestRaises
<1>7. CASE EndTrace
  <2> DEFINE b == Returned(builders[Inner.its], Inner.body, Inner.env)
  <2>1. running # <<>> /\ ~raising
    BY <1>7 DEF EndTrace
  <2>2. CASE Raises
    BY <2>1, <2>2, NestRaises
  <2>3. CASE /\ builders' = [builders EXCEPT ![Inner.its] = b]
             /\ current' = Inner.token /\ running' = Pop(Front(running)) /\ UNCHANGED raising
    <3> HIDE DEF b
    <3>1. Recorded(Inner.its)
      BY <2>3 DEF Recorded
    <3>2. SameTraces(Len(running) - 1)
      BY <2>1, <2>3, PopKeeps
    <3>3. raising' \in BOOLEAN /\ ~raising'
      BY <2>1, <2>3 DEF NestOK
    <3>4. NestOK'
      BY <2>1, <2>3, <3>1, <3>2, <3>3, NestLeaves
    <3> QED BY <2>1, <3>1, <3>4, OnlyTheInnermostRecords
  <2>4. Raises \/ /\ builders' = [builders EXCEPT ![Inner.its] = b]
                  /\ current' = Inner.token /\ running' = Pop(Front(running)) /\ UNCHANGED raising
    BY <1>7 DEF EndTrace
  <2> HIDE DEF b
  <2> QED BY <2>2, <2>3, <2>4
<1>8. CASE Unwind
  <2> DEFINE outer == Front(running)
             caught == outer # <<>> /\ Last(outer).body.steps[Last(outer).pc].caught
  <2>1. running # <<>> /\ builders' = builders
    BY <1>8 DEF Unwind, NestOK
  <2>2. /\ current' = Inner.token /\ raising' = (outer # <<>> /\ ~caught)
        /\ running' = IF caught THEN Pop(outer) ELSE outer
    BY <1>8 DEF Unwind, Reset
  <2>3. running' \in {Front(running), Pop(Front(running))}
    BY <2>2
  <2>4. SameTraces(Len(running) - 1) /\ Recorded(Inner.its)
    BY <2>1, <2>3, PopKeeps DEF Recorded
  <2>5. raising' \in BOOLEAN /\ (raising' => outer # <<>> /\ running' = outer)
    BY <2>2
  <2>6. NestOK'
    <3> HIDE DEF outer
    <3> QED BY <2>1, <2>2, <2>4, <2>5, NestLeaves
  <2> QED BY <2>1, <2>6 DEF OthersKeepTheirs
<1>9. CASE Loose
  <2>1. running = <<>> /\ current = 0 /\ ~raising
    BY <1>9 DEF Loose, NestOK
  <2>2. CallFails(Head(agenda), DerivedOf(Head(agenda), <<>>), <<>>)
    BY <2>1 DEF CallFails
  <2>3. UNCHANGED <<builders, current, running, raising>>
    BY <1>9, <2>2 DEF Loose
  <2> QED BY <2>3 DEF NestOK, Inner, OthersKeepTheirs
<1> QED BY <1>1, <1>2, <1>3, <1>4, <1>5, <1>6, <1>7, <1>8, <1>9 DEF TraceStep

(* The invariant holds of every trace.                                       *)
THEOREM NestAlways == TraceSpec => []NestOK
<1>1. NestOK /\ [TraceStep]_traceVars => NestOK'
  <2>1. NestOK /\ UNCHANGED traceVars => NestOK'
    BY DEF NestOK, Inner, traceVars
  <2> QED BY <2>1, NestStep
<1> QED BY <1>1, NestInitially, PTL DEF TraceSpec

(* A task is recorded in the pipeline whose body calls it: while a body      *)
(* runs its own builder records, whatever was traced inside it and however   *)
(* that ended, and a step leaves the builders of all other pipelines alone   *)
(* (trace_pipeline, active_builder).                                         *)
THEOREM TracesStayApart == TraceSpec => []RecordsItsOwn /\ [][OthersKeepTheirs]_traceVars
<1>1. NestOK => RecordsItsOwn
  <2> SUFFICES ASSUME NestOK PROVE RecordsItsOwn
    OBVIOUS
  <2>1. CASE running = <<>>
    BY <2>1 DEF NestOK, RecordsItsOwn
  <2>2. CASE running # <<>>
    <3>1. Len(running) \in 1..Len(running) /\ Inner = running[Len(running)]
      BY <2>2, InnerIs
    <3>2. \A k \in 1..(Len(running) - 1) : running[k].its # Inner.its
      BY <3>1 DEF NestOK
    <3> QED BY <2>2, <3>2 DEF NestOK, RecordsItsOwn
  <2> QED BY <2>1, <2>2
<1>2. NestOK /\ [TraceStep]_traceVars => [OthersKeepTheirs]_traceVars
  BY NestStep
<1> QED BY <1>1, <1>2, NestAlways, PTL DEF TraceSpec
=============================================================================
