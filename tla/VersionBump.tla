----------------------------- MODULE VersionBump -----------------------------
(* Bumping the version of a component: its YAML file, or the metadata of the *)
(* Python source it was generated from and then the file, generated again    *)
(* (version_manager.py, component_generator.py, component_from_func.py).     *)
(* A version is the sequence of its parts, a time the number of the call     *)
(* that wrote it.  Importing the source and writing a file may fail.         *)
EXTENDS Integers, Sequences, FiniteSetsExt

CONSTANTS
  Workshops,   \* the files there may be: [yaml, places, pyfiles]
  Asks,        \* the calls: [set, reference, stamp]
  Word,        \* a part of a version that is no number
  MaxBumps,    \* how many calls are made
  MaxDecimal   \* bound: what a part of a version without quotes may be

Kinds == {"source", "dependencies", "root"}
Everywhere == {"absolute", "common", "beside", "sources", "basename"}
Versions == Seq(Nat \cup {Word})
Components ==
  [is : {"file", "cut", "gone"}, shape : {"mapping", "listed", "odd"}, version : Versions, bare : BOOLEAN,
   top : Versions, stamp : Nat, topStamp : Nat, supported : BOOLEAN, rooted : BOOLEAN,
   links : [Kinds -> {"none", "relative", "absolute"}], function : {""} \cup STRING]   \* "": none is recorded
Documents == [name : STRING, version : Versions, stamp : Nat, others : BOOLEAN, section : BOOLEAN]

ASSUME BumpConstantsOK ==
  /\ MaxDecimal \in 0..999
  /\ Asks \subseteq [set : Versions, reference : Versions, stamp : BOOLEAN]
  /\ \A w \in Workshops :
       /\ w.yaml \in Components /\ w.pyfiles \in Seq(Seq(Documents))
       /\ w.places \in [Kinds -> [Everywhere -> 0..Len(w.pyfiles)]]
       /\ w.yaml.bare => \A v \in {w.yaml.version, w.yaml.top} :
            \A i \in DOMAIN v : v[i] \in 0..MaxDecimal \cup {Word}

VARIABLES
  yaml,        \* the component file
  places,      \* what a file of each kind is found at: [kind -> [place -> file, or 0]]
  pyfiles,     \* the Python files: their public functions, each with its metadata
  ask,         \* the call under way
  bumping,     \* what it does next: "look", "yaml", "source" or "generate"; "over"
  bumps,       \* the calls begun
  outcome,     \* what the last call gave: [status, old, new]
  earlier      \* the files when it began

bumpVars == <<yaml, places, pyfiles, ask, bumping, bumps, outcome, earlier>>

NoVersion == <<>>
NoStamp == 0
Missing1 == [status |-> "failed", old |-> NoVersion, new |-> NoVersion]
Raised == [Missing1 EXCEPT !.status = "raised"]

\* An empty file, which reads as an empty mapping; one cut short; none.
Blank == [is |-> "file", shape |-> "mapping", version |-> NoVersion, bare |-> FALSE, top |-> NoVersion,
          stamp |-> NoStamp, topStamp |-> NoStamp, supported |-> TRUE, rooted |-> FALSE,
          links |-> [k \in Kinds |-> "none"], function |-> ""]
Cut == [Blank EXCEPT !.is = "cut"]
Gone == [Blank EXCEPT !.is = "gone"]

-----------------------------------------------------------------------------
(* Versions *)

ThreeParts(v) == SubSeq(v, 1, IF Len(v) < 3 THEN Len(v) ELSE 3)
Legible(v) == \A i \in 1..Len(ThreeParts(v)) : ThreeParts(v)[i] # Word
parse_version(v) == IF Len(v) = 1 THEN <<v[1], 0>> ELSE ThreeParts(v)
increment_version(v) == LET parts == parse_version(v) IN [parts EXCEPT ![Len(parts)] = @ + 1]

\* Two parts without quotes are a decimal number to YAML: the zeros it ends in are lost.
Decimal(v) ==
  IF Len(v) = 2 /\ v[2] # Word
  THEN <<v[1], IF v[2] = 0 THEN 0
               ELSE CHOOSE d \in 1..v[2] : d % 10 # 0 /\ \E zeros \in {1, 10, 100} : d * zeros = v[2]>>
  ELSE v
VersionText(data) == IF data.version # NoVersion THEN data.version ELSE data.top
get_version_from_data(data) == IF data.bare THEN Decimal(VersionText(data)) ELSE VersionText(data)

\* The version before the one to write; the one to write when none is set.
Basis(current) == IF ask.reference # NoVersion THEN ask.reference ELSE current
Bumped(current) == IF Basis(current) = NoVersion THEN <<0, 1>> ELSE increment_version(Basis(current))

-----------------------------------------------------------------------------
(* Where the annotated files are *)

Candidates(kind) ==
  IF yaml.links[kind] = "absolute" THEN <<"absolute">>
  ELSE (IF yaml.rooted THEN <<"common">> ELSE <<>>) \o <<"beside">>
       \o (IF kind = "source" THEN <<"sources", "basename">> ELSE <<>>)
FileOf(kind) ==
  LET found == {i \in DOMAIN Candidates(kind) : places[kind][Candidates(kind)[i]] # 0}
  IN IF found = {} THEN 0 ELSE places[kind][Candidates(kind)[Min(found)]]
Unusable == ~yaml.supported \/ \E k \in Kinds : yaml.links[k] # "none" /\ FileOf(k) = 0

\* The mistake of taking the first function whichever is recorded.
FirstFunction(file) == IF file = <<>> THEN 0 ELSE 1

\* The function the metadata is read from: the one recorded, or the first (the one
\* of the file's name comes first); 0 if there is none.
FunctionOf(file) ==
  LET named == {i \in 1..Len(file) : file[i].name = yaml.function}
  IN IF yaml.function # "" THEN (IF named = {} THEN 0 ELSE CHOOSE i \in named : TRUE)
     ELSE IF file = <<>> THEN 0 ELSE 1

\* The Metadata section is written anew, with these two and nothing else.
Rewritten(doc, version) ==
  IF ~doc.section THEN doc
  ELSE [doc EXCEPT !.version = version, !.stamp = IF ask.stamp THEN bumps ELSE NoStamp, !.others = FALSE]

Generated(doc) ==
  [yaml EXCEPT !.version = doc.version, !.bare = FALSE, !.top = NoVersion, !.stamp = doc.stamp,
               !.topStamp = NoStamp, !.rooted = TRUE, !.function = doc.name,
               !.links = [k \in Kinds |-> IF @[k] = "none" THEN "none" ELSE "relative"]]

-----------------------------------------------------------------------------
(* The steps of a call *)

BumpInit ==
  /\ \E w \in Workshops : yaml = w.yaml /\ places = w.places /\ pyfiles = w.pyfiles
  /\ bumping = "over" /\ bumps = 0 /\ outcome = Missing1
  /\ ask = [set |-> NoVersion, reference |-> NoVersion, stamp |-> FALSE]
  /\ earlier = [yaml |-> yaml, pyfiles |-> pyfiles]

BumpCall ==
  /\ bumping = "over" /\ bumps < MaxBumps
  /\ ask' \in Asks
  /\ bumping' = "look" /\ bumps' = bumps + 1
  /\ earlier' = [yaml |-> yaml, pyfiles |-> pyfiles]
  /\ UNCHANGED <<yaml, places, pyfiles, outcome>>

Reports(result) == bumping' = "over" /\ outcome' = result
Then(next) == bumping' = next /\ UNCHANGED outcome

Look ==
  /\ bumping = "look"
  /\ \/ yaml.is = "gone" /\ Reports(Missing1)
     \/ (yaml.is = "cut" \/ yaml.shape = "odd") /\ Reports(Raised)
     \/ /\ yaml.is = "file" /\ yaml.shape # "odd"
        /\ \/ Unusable /\ Reports(Missing1)
           \/ ~Unusable /\ Then(IF yaml.links["source"] = "none" THEN "yaml" ELSE "source")
  /\ UNCHANGED <<yaml, places, pyfiles, ask, bumps, earlier>>

Success(data) == [status |-> "success", old |-> get_version_from_data(earlier.yaml), new |-> get_version_from_data(data)]

update_yaml_file ==
  /\ bumping = "yaml"
  /\ LET current == get_version_from_data(yaml)
         unread == IF ask.set # NoVersion THEN ask.set ELSE Basis(current)
         version == IF ask.set # NoVersion THEN parse_version(ask.set) ELSE Bumped(current)
         kept == IF yaml.topStamp # NoStamp THEN yaml.topStamp ELSE yaml.stamp
         written == [yaml EXCEPT !.version = version, !.bare = FALSE, !.top = NoVersion, !.topStamp = NoStamp,
                                 !.stamp = IF ask.stamp THEN bumps ELSE kept]
     IN \/ ~Legible(unread) /\ Reports(Raised) /\ UNCHANGED yaml
        \/ /\ Legible(unread)
           /\ \/ yaml.shape # "mapping" /\ Reports(Missing1) /\ UNCHANGED yaml
              \/ yaml.shape = "mapping" /\ yaml' = written /\ Reports(Success(written))
              \/ yaml.shape = "mapping" /\ yaml' \in {Blank, Cut} /\ Reports(Raised)   \* the disk is full
  /\ UNCHANGED <<places, pyfiles, ask, bumps, earlier>>

\* What a failed write leaves of a source: the functions before the place where it was
\* cut (none, if what is left does not parse); the one of the file's name, which comes
\* first here wherever it stands, may be behind that place.
Remains(file) == {SubSeq(file, first, last) : first \in {1, 2}, last \in 0..Len(file)}

update_python_file ==
  /\ bumping = "source"
  /\ LET file == pyfiles[FileOf("source")]
         at_function == FunctionOf(file)
         version == IF ask.set # NoVersion THEN ask.set ELSE Bumped(file[at_function].version)
         doc == Rewritten(file[at_function], version)
         Legibly == ask.set # NoVersion \/ Legible(Basis(file[at_function].version))
     IN \/ at_function = 0 /\ Reports(Missing1) /\ UNCHANGED pyfiles
        \/ at_function # 0 /\ ~Legibly /\ Reports(Raised) /\ UNCHANGED pyfiles
        \/ /\ at_function # 0 /\ Legibly
           /\ \/ doc = file[at_function] /\ Reports(Missing1) /\ UNCHANGED pyfiles
              \/ /\ doc # file[at_function]
                 /\ \/ pyfiles' = [pyfiles EXCEPT ![FileOf("source")][at_function] = doc] /\ Then("generate")
                    \/ /\ \E left \in Remains([file EXCEPT ![at_function] = doc]) :   \* the disk is full
                            pyfiles' = [pyfiles EXCEPT ![FileOf("source")] = left]
                       /\ Reports(Raised)
  /\ UNCHANGED <<yaml, places, ask, bumps, earlier>>

\* Records where the files it used are, so that they are found there.
run_generation ==
  /\ bumping = "generate"
  /\ LET file == pyfiles[FileOf("source")]
         component == Generated(file[FunctionOf(file)])
     IN \/ /\ yaml' = component /\ Reports(Success(component))
           /\ places' = [k \in Kinds |-> IF yaml.links[k] = "none" THEN places[k]
                                         ELSE [places[k] EXCEPT !["common"] = FileOf(k)]]
        \/ Reports(Missing1) /\ UNCHANGED <<yaml, places>>                          \* the source cannot be imported
        \/ yaml' = Gone /\ Reports(Raised) /\ UNCHANGED places                      \* its authoring cannot be stripped
        \/ yaml' \in {Blank, Cut} /\ Reports(Missing1) /\ UNCHANGED places          \* the disk is full
  /\ UNCHANGED <<pyfiles, ask, bumps, earlier>>

BumpStep == BumpCall \/ Look \/ update_yaml_file \/ update_python_file \/ run_generation
BumpSpec == BumpInit /\ [][BumpStep]_bumpVars
BumpOver == bumping = "over" /\ bumps = MaxBumps

-----------------------------------------------------------------------------
(* What a call promises, judged against the files it began with *)

CONSTANT Numbers   \* the numbers a part may be
ASSUME NumbersOK == Numbers \subseteq Nat

\* Part by part, a missing part being zero.
Part(v, i) == IF i <= Len(v) THEN v[i] ELSE 0
Earlier(v, w) == \E i \in 1..3 : Part(v, i) < Part(w, i) /\ \A j \in 1..(i - 1) : Part(v, j) = Part(w, j)

\* The first version after v, both made of numbers, that has as many parts: two, or three.
IsNext(v, w) ==
  LET depth == IF Len(v) < 3 THEN 2 ELSE 3
  IN /\ Legible(v) /\ w \in [1..depth -> Nat] /\ Earlier(v, w)
     /\ \A x \in [1..depth -> Numbers] : Earlier(v, x) => x = w \/ Earlier(w, x)

\* w is the version to write over v when none is set.
IsDue(v, w) == IF Basis(v) = NoVersion THEN w = <<0, 1>> ELSE IsNext(Basis(v), w)

\* The component's version: one that is set is cut to three parts, or filled to two.
ComponentMoved ==
  /\ IF ask.set = NoVersion THEN IsDue(outcome.old, outcome.new)
     ELSE ~Earlier(outcome.new, ThreeParts(ask.set)) /\ ~Earlier(ThreeParts(ask.set), outcome.new)
  /\ yaml.stamp = IF ask.stamp THEN bumps
                  ELSE IF earlier.yaml.topStamp # NoStamp THEN earlier.yaml.topStamp ELSE earlier.yaml.stamp

\* A function has the version to write; one that is set as it is.
DocMoved(before, doc) ==
  IF ask.set = NoVersion THEN IsDue(before.version, doc.version) ELSE doc.version = ask.set

\* That of file f at position i has, and the others are as they were.
SourceMoved(f, i) ==
  /\ \A j \in 1..Len(pyfiles[f]) : j # i => pyfiles[f][j] = earlier.pyfiles[f][j]
  /\ DocMoved(earlier.pyfiles[f][i], pyfiles[f][i])

\* The same of the functions that are left of f, with or without the first one.
PartMoved(f, i, skipped) ==
  LET left == pyfiles[f]
      before == earlier.pyfiles[f]
  IN /\ Len(left) + skipped <= Len(before)
     /\ \A j \in 1..Len(left) :
          IF j + skipped = i THEN DocMoved(before[i], left[j]) ELSE left[j] = before[j + skipped]

Touched == {f \in DOMAIN pyfiles : pyfiles[f] # earlier.pyfiles[f]}

\* YAML takes the version for a number that is written with fewer zeros.
LosesZeros(c) ==
  LET text == VersionText(c)
  IN c.bare /\ Len(text) = 2 /\ text[2] \notin {0, Word} /\ text[2] % 10 = 0

(* A bump that succeeds leaves the component and its source, the one file    *)
(* besides it that it changed, at one version, the next after the reference  *)
(* or else after the one there was, and says so.  The one there was is what  *)
(* is written there, unless it was written as a number that ends in zeros,   *)
(* and what the bump writes is read as it is.  A bump that fails has touched *)
(* the component only by failing to write it or to strip its source, and     *)
(* then the source, one version ahead, is the only other file it touched; if *)
(* it could not write that one, what is left of it is part of what it wrote. *)
BumpIsExact ==
  (bumping = "over" /\ bumps > 0) =>
    IF outcome.status = "success"
    THEN /\ outcome.old = IF LosesZeros(earlier.yaml) THEN Decimal(VersionText(earlier.yaml))
                          ELSE VersionText(earlier.yaml)
         /\ outcome.new = VersionText(yaml) /\ ~LosesZeros(yaml) /\ yaml.top = NoVersion
         /\ \/ yaml.links["source"] = "none" /\ Touched = {} /\ ComponentMoved
            \/ \E f \in Touched : Touched = {f} /\ FileOf("source") = f /\ \E i \in 1..Len(pyfiles[f]) :
                 /\ SourceMoved(f, i)
                 /\ pyfiles[f][i].version = outcome.new /\ pyfiles[f][i].stamp = yaml.stamp
                 /\ pyfiles[f][i].name = yaml.function /\ earlier.yaml.function \in {"", yaml.function}
    ELSE /\ yaml \in {earlier.yaml, Blank, Cut, Gone}
         /\ \A f \in Touched : /\ Touched = {f}
                              /\ \/ \E i \in 1..Len(pyfiles[f]) : SourceMoved(f, i)
                                 \/ /\ yaml = earlier.yaml
                                    /\ \E i \in 1..Len(earlier.pyfiles[f]), skipped \in {0, 1} : PartMoved(f, i, skipped)
         /\ (yaml = Gone /\ earlier.yaml # Gone) => Touched # {}
=============================================================================
