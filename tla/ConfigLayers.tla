----------------------------- MODULE ConfigLayers -----------------------------
(***************************************************************************)
(* load_config and ArgsContainer.load (args_container.py): the values of a  *)
(* command are read from its entry of the TANGLE_ROOT_CONFIG file, from the *)
(* --config file laid over it, from variables and from the command line.    *)
(* A document may choose one of several branches by a variable (_select),   *)
(* and a value may be a variable's (_env).  A YAML alias is a node that is  *)
(* reached twice, and may be reached from itself: a document is a graph.    *)
(***************************************************************************)
EXTENDS Integers, Sequences, SequencesExt, FiniteSetsExt

CONSTANTS
  None,      \* a value, a default or a file that is not given
  Missing,   \* a file that is named but not there
  Aliases,   \* COMMAND_ALIASES: command prefixes (token sequences) and what they stand for
  Numerals,  \* the texts that spell a number
  MaxSelect, \* _MAX_SELECT_DEPTH
  LoadCalls      \* [command, env, root, config, fields]: the calls to consider

ASSUME LayersConstantsOK ==
  /\ MaxSelect \in Nat \ {0}
  /\ \A l \in LoadCalls : l.command = None \/ l.command # <<>>

VARIABLES
  load,      \* the call, fixed from the start
  at,        \* the document being read: "root" file, "entry" of it, "config" file
  step,      \* "begin", "check", "select", "lookup", "fields", "done"
  node,      \* its root, then the branch selected so far
  hops,      \* how many selectors were followed in it
  looked,    \* the variables read so far
  sound,     \* the documents whose structure was found to be right, and those not
  base,      \* the LoadedConfig of the root entry, or None
  entries,   \* the entries loaded, in order
  results,   \* the fields resolved, per entry
  error      \* "none" or the kind of error

layersVars == <<load, at, step, node, hops, looked, sound, base, entries, results, error>>

(* A node is a "text" or "number" [v], a "null", a "map" [of], a "list" [of],*)
(* a directive "env" [name, default, ok], a "select" [var, cases, default,   *)
(* helpers, ok], a "configs" [defaults, list] or, as a root document, a      *)
(* "commands" [table, ok]; ok is FALSE when its own keys or names are wrong. *)
Doc == IF at = "config" THEN load.config ELSE load.root
Node(n) == Doc.node[n]
Kind(n) == Node(n).is
Mapping(n) == Kind(n) \notin {"text", "number", "null", "list"}
MappingOnly == at # "config"
IsSelect(n) == Kind(n) = "select"

Default(x) == IF x = None THEN {} ELSE {x}
Branches(n) == Range(Node(n).cases) \cup Default(Node(n).default)

Children(n) ==
  CASE Kind(n) \in {"map", "list"} -> Range(Node(n).of)
    [] Kind(n) = "select"   -> Branches(n) \cup Node(n).helpers
    [] Kind(n) = "configs"  -> Default(Node(n).defaults) \cup {Node(n).list}
    [] Kind(n) = "commands" -> {Node(n).table[i].entry : i \in DOMAIN Node(n).table}
    [] OTHER -> {}

RECURSIVE Below(_)
Below(S) == LET more == S \cup UNION {Children(n) : n \in S}
            IN IF more = S THEN S ELSE Below(more)

-----------------------------------------------------------------------------
(* The structure of a document, checked before any variable is read.         *)

AllMappings(n) == Kind(n) = "list" /\ \A x \in Range(Node(n).of) : Mapping(x)

(* The shape of a branch, or of a whole document, that is no selector.       *)
ShapeOK(n) ==
  \/ MappingOnly /\ Mapping(n)
  \/ ~MappingOnly /\ \/ AllMappings(n)
                     \/ Mapping(n) /\ Kind(n) # "configs"
                     \/ /\ Kind(n) = "configs"
                        /\ \A d \in Default(Node(n).defaults) : Mapping(d)
                        /\ AllMappings(Node(n).list)

(* memo[n]: the greatest depth at which the selector n was found right.  It  *)
(* fits at every smaller one.                                                *)
Fails(st) == [st EXCEPT !.ok = FALSE]
SeenAtAll(st, n, depth) == n \in DOMAIN st.memo  \* mutant: at whatever depth
SeenDeepEnough(st, n, depth) == n \in DOMAIN st.memo /\ depth <= st.memo[n]
Noted(st, n, depth) ==
  [st EXCEPT !.memo = [x \in DOMAIN st.memo \cup {n} |->
     IF x # n THEN st.memo[x]
     ELSE IF n \in DOMAIN st.memo THEN Max({st.memo[n], depth}) ELSE depth]]

RECURSIVE CheckSelector(_, _, _)
CheckBranch(st, n, depth) ==
  IF ~st.ok THEN st
  ELSE IF IsSelect(n)
    THEN IF depth + 1 >= MaxSelect THEN Fails(st) ELSE CheckSelector(st, n, depth + 1)
  ELSE IF ShapeOK(n) THEN st ELSE Fails(st)

CheckSelector(st, n, depth) ==
  IF SeenDeepEnough(st, n, depth) THEN st
  ELSE IF ~Node(n).ok \/ DOMAIN Node(n).cases = {} THEN Fails(st)
  ELSE LET after == FoldSet(LAMBDA b, s : CheckBranch(s, b, depth), st, Branches(n))
       IN IF after.ok THEN Noted(after, n, depth) ELSE after

NothingSeen == [ok |-> TRUE, memo |-> [n \in {} |-> 0]]
SelectorsOK == IsSelect(node) => CheckSelector(NothingSeen, node, 0).ok

(* Where the walk over all directives goes from a node in a role.            *)
NextRoles(rn) ==
  LET role == rn[1]
      n == rn[2]
      as(r, S) == {<<r, x>> : x \in S}
  IN CASE Kind(n) = "list" -> IF role = "entry" THEN {}
                              ELSE as(IF role = "value" THEN "value" ELSE "entry", Children(n))
       [] role = "document" /\ Kind(n) = "select" ->
            as("document", Branches(n)) \cup as("value", Node(n).helpers)
       [] role = "document" /\ Kind(n) = "configs" /\ ~MappingOnly ->
            as("entry", Default(Node(n).defaults))
            \cup as(IF Kind(Node(n).list) = "list" THEN "document" ELSE "value",
                    {Node(n).list})
       [] OTHER -> as("value", Children(n))

RECURSIVE Walked(_)
Walked(S) == LET more == S \cup UNION {NextRoles(rn) : rn \in S}
             IN IF more = S THEN S ELSE Walked(more)

Directives == {rn[2] : rn \in {x \in Walked({<<"document", node>>}) :
                                 x[1] = "value" /\ Kind(x[2]) = "env"}}

NoNulls == \A n \in Below({node}) : Kind(n) # "null"
Sound == /\ at = "root" => NoNulls
         /\ SelectorsOK
         /\ \A n \in Directives : Node(n).ok

-----------------------------------------------------------------------------
(* The values of one entry, its directives replaced.  Nodes are resolved     *)
(* once; a container without directives stays the node it is.                *)

Set(var) == load.env[var] # None
Text(v) == [is |-> "text", v |-> v]
RawNode(n) == [is |-> "node", node |-> n]

(* st: memo of what is resolved, the nodes being resolved, those of them     *)
(* that were met again, the variables read, and the first error.             *)
Fresh == [memo |-> [n \in {} |-> None], open |-> {}, back |-> {}, read |-> {},
          error |-> "none"]
Memo(st, n, value) ==
  [st EXCEPT !.memo = [x \in DOMAIN st.memo \cup {n} |-> IF x = n THEN value ELSE st.memo[x]]]

LookUpVariable(st, n) ==
  LET d == Node(n) IN
  IF Set(d.name) THEN Memo([st EXCEPT !.read = @ \cup {d.name}], n, Text(load.env[d.name]))
  ELSE IF d.default # None THEN Memo([st EXCEPT !.read = @ \cup {d.name}], n, Text(d.default))
  ELSE [st EXCEPT !.error = "unset"]

ValueOf(st, n) == IF n \in DOMAIN st.memo THEN st.memo[n] ELSE RawNode(n)
Changed(st, n) == \E x \in Children(n) : ValueOf(st, x) # RawNode(x)
Rebuilt(st, n) ==
  [is |-> Kind(n), of |-> [k \in DOMAIN Node(n).of |-> ValueOf(st, Node(n).of[k])]]

MetAgain(st, n) == n \in st.back

RECURSIVE ResolveValue(_, _)
ResolveValue(n, st) ==
  IF st.error # "none" \/ Kind(n) \notin {"map", "list", "env"} \/ n \in DOMAIN st.memo THEN st
  ELSE IF n \in st.open THEN [st EXCEPT !.back = @ \cup {n}]
  ELSE IF Kind(n) = "env" THEN LookUpVariable(st, n)
  ELSE LET inside == FoldSet(ResolveValue, [st EXCEPT !.open = @ \cup {n}], Children(n))
           after == [inside EXCEPT !.open = @ \ {n}]
       IN IF after.error # "none" THEN after
          ELSE IF ~Changed(after, n) THEN Memo(after, n, RawNode(n))
          ELSE IF MetAgain(after, n) THEN [after EXCEPT !.error = "recursive"]
          ELSE Memo(after, n, Rebuilt(after, n))

ResolveEntries(ns) ==
  FoldLeft(LAMBDA st, n : FoldSet(ResolveValue, st, Children(n)), Fresh, ns)

(* What a command sees of it: a tree, "cycle" where a node contains itself.  *)
RECURSIVE Tree(_, _)
Tree(value, above) ==
  IF value.is \in {"map", "list"}
    THEN [value EXCEPT !.of = [k \in DOMAIN value.of |-> Tree(value.of[k], above)]]
  ELSE IF value.is # "node" THEN value
  ELSE IF value.node \in above THEN [is |-> "cycle"]
  ELSE LET raw == Node(value.node) IN
       IF raw.is \in {"map", "list"}
         THEN [is |-> raw.is, of |-> [k \in DOMAIN raw.of |->
                 Tree(RawNode(raw.of[k]), above \cup {value.node})]]
         ELSE raw

\* The keys of a mapping: "configs" and "_defaults" are keys like others in an entry of the root file.
Pairing(n) ==
  IF Kind(n) # "configs" THEN Node(n).of
  ELSE [k \in {"configs"} \cup {d \in {"_defaults"} : Node(n).defaults # None} |->
          IF k = "configs" THEN Node(n).list ELSE Node(n).defaults]

EntryValues(st, n) == [k \in DOMAIN Pairing(n) |-> Tree(ValueOf(st, Pairing(n)[k]), {})]
EnvSources(n) == {k \in DOMAIN Pairing(n) : Kind(Pairing(n)[k]) = "env"}
Loaded(values, source, envs) ==
  [values |-> values, sources |-> [k \in DOMAIN values |-> source], envs |-> envs]
Nothing == [k \in {} |-> None]

-----------------------------------------------------------------------------
(* Laying an entry over the root entry: mappings merge, null takes away.     *)

RECURSIVE DeepMerge(_, _)
MergeValue(below, value) ==
  IF value.is # "map" THEN value
  ELSE [is |-> "map", of |-> DeepMerge(IF below # None /\ below.is = "map" THEN below.of
                                       ELSE Nothing, value.of)]
DeepMerge(under, over) ==
  LET kept == {k \in DOMAIN over : over[k].is # "null"}
  IN [k \in (DOMAIN under \ DOMAIN over) \cup kept |->
        IF k \notin kept THEN under[k]
        ELSE MergeValue(IF k \in DOMAIN under THEN under[k] ELSE None, over[k])]

RECURSIVE NestsForever(_)
NestsForever(v) == v.is = "cycle" \/ (v.is = "map" /\ \E k \in DOMAIN v.of : NestsForever(v.of[k]))

Layered(entry) ==
  LET merged == DeepMerge(base.values, entry.values)
  IN [values |-> merged,
      sources |-> [k \in DOMAIN merged |-> IF k \in DOMAIN entry.values THEN "config" ELSE "root"],
      envs |-> (base.envs \ DOMAIN entry.values) \cup (entry.envs \cap DOMAIN merged)]

-----------------------------------------------------------------------------
(* The fields of a command: CLI, then config, then variable, then default.   *)

Null == [is |-> "null"]
ToNumber(v) == [is |-> "number", v |-> v.v]
Rejected == [is |-> "rejected"]

(* kind "int" is inferred from a typed default and parses config and         *)
(* environment values only.                                                  *)
Convert(kind, v, given) ==
  CASE v.is = "null" \/ kind = "plain" -> v
    [] kind = "int" /\ given -> v
    [] kind = "int" /\ ~given /\ v.is = "number" -> v
    [] kind \in {"int", "json"} /\ v.is = "text" /\ v.v \in Numerals -> ToNumber(v)
    [] kind = "json" /\ v.is \in {"map", "list"} -> v
    [] kind = "json" /\ v = Text("{}") -> Null
    [] OTHER -> Rejected

Field(spec, values) ==
  LET pick == IF spec.cli.is # "null" /\ spec.cli # spec.default
                THEN [from |-> "cli", v |-> spec.cli]
              ELSE IF spec.key \in DOMAIN values
                THEN [from |-> "config", v |-> values[spec.key]]
              ELSE IF spec.env # None /\ Set(spec.env)
                THEN [from |-> "env", v |-> Text(load.env[spec.env])]
              ELSE [from |-> "default", v |-> spec.cli]
  IN [from |-> pick.from,
      v |-> Convert(spec.kind, pick.v, pick.from \in {"cli", "default"})]

FieldsOf(entry) == [i \in DOMAIN load.fields |-> Field(load.fields[i], entry.values)]
FieldsRejected(fs) == \E i \in DOMAIN fs : fs[i].v = Rejected
FieldsMissing(fs) == \E i \in DOMAIN fs : load.fields[i].required /\ fs[i].v.is = "null"
EnvRead(fs) == {load.fields[i].env : i \in {j \in DOMAIN fs : fs[j].from = "env"}}

(* ArgsContainer.config_source: the file a field's value was written in.     *)
ConfigSource(entry, i, fs) ==
  IF fs[i].from = "config" THEN entry.sources[load.fields[i].key] ELSE None

-----------------------------------------------------------------------------
(* normalize_command: the longest prefix that has an alias is replaced, to a *)
(* fixed point, at most once more than there are aliases.                    *)

RenamedLengths(parts) ==
  {n \in 1..Len(parts) : LET p == SubSeq(parts, 1, n)
                         IN p \in DOMAIN Aliases /\ Aliases[p] # p}
Rename(parts) ==
  IF RenamedLengths(parts) = {} THEN parts
  ELSE LET n == Max(RenamedLengths(parts))
       IN Aliases[SubSeq(parts, 1, n)] \o SubSeq(parts, n + 1, Len(parts))

RECURSIVE Renamed(_, _)
Renamed(parts, times) == IF times = 0 THEN parts ELSE Renamed(Rename(parts), times - 1)
NormalizeCommand(parts) == Renamed(parts, Cardinality(DOMAIN Aliases) + 1)

-----------------------------------------------------------------------------
(* The steps of a load. *)

LoadInit ==
  /\ load \in LoadCalls
  /\ at = "root" /\ step = "begin" /\ node = None /\ hops = 0
  /\ looked = {} /\ sound = [d \in {} |-> TRUE]
  /\ base = None /\ entries = <<>> /\ results = <<>> /\ error = "none"

Fail(kind) == /\ step' = "done" /\ error' = kind
              /\ UNCHANGED <<load, at, node, hops, sound, base, entries, results>>

Enter(where, n) == at' = where /\ step' = "check" /\ node' = n /\ hops' = 0

(* No --config file, or an empty one, is one empty entry over the root entry.*)
NoLayer == IF load.config = None THEN TRUE ELSE load.config.root = None
ToConfig(root) ==
  LET own == IF root = None THEN Loaded(Nothing, "config", {}) ELSE root IN
  \/ /\ load.config = Missing
     /\ step' = "done" /\ error' = "file"
     /\ UNCHANGED <<at, node, hops, entries>>
  \/ /\ load.config # Missing
     /\ NoLayer
     /\ at' = "config" /\ step' = "fields" /\ node' = None
     /\ entries' = <<own>>
     /\ UNCHANGED <<hops, error>>
  \/ /\ load.config # Missing
     /\ ~NoLayer
     /\ Enter("config", load.config.root)
     /\ UNCHANGED <<entries, error>>

(* Without a command the root file is not looked at; one that is missing or  *)
(* empty is an error.                                                        *)
Begin ==
  /\ step = "begin"
  /\ \/ (load.command = None \/ load.root = None) /\ ToConfig(None)
     \/ /\ load.command # None /\ load.root # None
        /\ IF load.root = Missing
             THEN step' = "done" /\ error' = "file" /\ UNCHANGED <<at, node, hops>>
           ELSE IF load.root.root = None
             THEN step' = "done" /\ error' = "malformed" /\ UNCHANGED <<at, node, hops>>
             ELSE Enter("root", load.root.root) /\ UNCHANGED error
        /\ UNCHANGED entries
  /\ UNCHANGED <<load, looked, sound, base, results>>

CheckDocument ==
  /\ step = "check"
  /\ sound' = [d \in DOMAIN sound \cup {at} |-> IF d = at THEN Sound ELSE sound[d]]
  /\ IF Sound THEN step' = "select" /\ UNCHANGED error
              ELSE step' = "done" /\ error' = "malformed"
  /\ UNCHANGED <<load, at, node, hops, looked, base, entries, results>>

(* One selector of the chain the environment selects.                        *)
Follow ==
  /\ step = "select" /\ IsSelect(node)
  /\ LET s == Node(node)
         exact == Set(s.var) /\ load.env[s.var] \in DOMAIN s.cases
     IN /\ looked' = looked \cup {s.var}
        /\ IF hops < MaxSelect /\ (exact \/ s.default # None)
             THEN /\ node' = IF exact THEN s.cases[load.env[s.var]] ELSE s.default
                  /\ hops' = hops + 1
                  /\ UNCHANGED <<load, at, step, sound, base, entries, results, error>>
             ELSE Fail(IF Set(s.var) THEN "unmatched" ELSE "unset")

(* The command's entry among those of the root file.                         *)
NamesOf(table) == [i \in DOMAIN table |-> NormalizeCommand(table[i].name)]
FindCommand ==
  /\ step = "select" /\ ~IsSelect(node) /\ at = "root"
  /\ UNCHANGED looked
  /\ LET table == Node(node).table
         mine == {i \in DOMAIN table : NamesOf(table)[i] = NormalizeCommand(load.command)}
     IN IF \/ Kind(node) # "commands" \/ ~Node(node).ok
           \/ \E i \in DOMAIN table : ~Mapping(table[i].entry) \/ Kind(table[i].entry) = "env"
           \/ ~IsInjective(NamesOf(table))
          THEN Fail("malformed")
          ELSE /\ \/ mine = {} /\ ToConfig(None)
                  \/ \E i \in mine : /\ Enter("entry", table[i].entry)
                                     /\ UNCHANGED <<entries, error>>
               /\ UNCHANGED <<load, sound, base, results>>

LookUpRoot ==
  /\ step = "select" /\ ~IsSelect(node) /\ at = "entry"
  /\ LET st == ResolveEntries(<<node>>)
         root == Loaded(EntryValues(st, node), "root", EnvSources(node))
     IN /\ looked' = looked \cup st.read
        /\ IF st.error # "none" THEN Fail(st.error)
           ELSE /\ base' = root
                /\ ToConfig(root)
                /\ UNCHANGED <<load, sound, results>>

(* The entries of the --config document: _defaults lie under each, shallow.  *)
Several == Kind(node) = "configs" /\ ~MappingOnly
EntryNodes ==
  CASE Kind(node) = "list" -> Node(node).of
    [] Several -> Node(Node(node).list).of
    [] OTHER -> <<node>>
DefaultsNode == IF Several THEN Node(node).defaults ELSE None

OneEntry(st, n) ==
  LET own == Loaded(EntryValues(st, n), "config", EnvSources(n)) IN
  IF DefaultsNode = None THEN own
  ELSE LET under == EntryValues(st, DefaultsNode)
       IN Loaded([k \in DOMAIN own.values \cup DOMAIN under |->
                    IF k \in DOMAIN own.values THEN own.values[k] ELSE under[k]],
                 "config", own.envs \cup (EnvSources(DefaultsNode) \ DOMAIN own.values))

LookUpConfig ==
  /\ step = "select" /\ ~IsSelect(node) /\ at = "config"
  /\ IF ~ShapeOK(node) THEN Fail("malformed") /\ UNCHANGED looked
     ELSE LET st == ResolveEntries((IF DefaultsNode = None THEN <<>> ELSE <<DefaultsNode>>)
                                   \o EntryNodes)
              own == [i \in DOMAIN EntryNodes |-> OneEntry(st, EntryNodes[i])]
          IN /\ looked' = looked \cup st.read
             /\ IF st.error # "none" THEN Fail(st.error)
                ELSE IF base # None /\ \E i \in DOMAIN own : \E k \in DOMAIN own[i].values :
                                          NestsForever(own[i].values[k])
                  THEN Fail("depth")
                ELSE /\ entries' = IF base = None THEN own
                                   ELSE [i \in DOMAIN own |-> Layered(own[i])]
                     /\ step' = "fields"
                     /\ UNCHANGED <<load, at, node, hops, sound, base, results, error>>

ResolveFields ==
  /\ step = "fields"
  /\ IF Len(results) = Len(entries)
       THEN /\ step' = "done"
            /\ UNCHANGED <<load, at, node, hops, looked, sound, base, entries, results, error>>
       ELSE LET fs == FieldsOf(entries[Len(results) + 1])
            IN /\ looked' = looked \cup EnvRead(fs)
               /\ IF FieldsRejected(fs) \/ FieldsMissing(fs) THEN Fail("field")
                  ELSE /\ results' = Append(results, fs)
                       /\ UNCHANGED <<load, at, step, node, hops, sound, base, entries, error>>

LoadStep == \/ Begin \/ CheckDocument \/ Follow \/ FindCommand \/ LookUpRoot
            \/ LookUpConfig \/ ResolveFields
LoadOver == step = "done"
LoadNext == LoadStep \/ (LoadOver /\ UNCHANGED layersVars)
LoadSpec == LoadInit /\ [][LoadNext]_layersVars /\ WF_layersVars(LoadStep)

-----------------------------------------------------------------------------
(* Properties. *)

(* A document is accepted or refused for its structure alone, dormant        *)
(* branches included, whatever the environment is, and before any variable   *)
(* is read.  Reference: the selectors level by level.                        *)
RECURSIVE Level(_, _)
Level(n, i) == IF i = 0 THEN {x \in {n} : IsSelect(x)}
               ELSE {x \in UNION {Branches(y) : y \in Level(n, i - 1)} : IsSelect(x)}
Selectors(n) == UNION {Level(n, i) : i \in 0..MaxSelect}

WellFormed(n) ==
  /\ Level(n, MaxSelect) = {}
  /\ \A s \in Selectors(n) :
       /\ Node(s).ok /\ DOMAIN Node(s).cases # {}
       /\ \A b \in Branches(s) : IsSelect(b) \/ ShapeOK(b)
  /\ \A rn \in Walked({<<"document", n>>}) :
       rn[1] = "value" /\ Kind(rn[2]) = "env" => Node(rn[2]).ok
  /\ at = "root" => \A m \in Below({n}) : Kind(m) # "null"

CheckedBeforeRead ==
  at \in DOMAIN sound /\ hops = 0 /\ node # None => (sound[at] <=> WellFormed(node))

(* Directives are replaced exactly: none is left in what a command sees, the *)
(* nodes that are shared all show the same value, and a directive inside a   *)
(* node that contains itself is refused.                                     *)
Cyclic(n) == n \in Below(Children(n))
InCycle(n) == \E c \in Below({n}) : Cyclic(c) /\ \E d \in Below({c}) : Kind(d) = "env"

RECURSIVE Read(_)
Read(n) ==
  CASE Kind(n) = "env" -> Text(IF Set(Node(n).name) THEN load.env[Node(n).name]
                               ELSE Node(n).default)
    [] Kind(n) \in {"map", "list"} /\ ~(\E c \in Below({n}) : Cyclic(c)) ->
         [is |-> Kind(n), of |-> [k \in DOMAIN Node(n).of |-> Read(Node(n).of[k])]]
    [] Kind(n) \in {"map", "list"} -> [is |-> "cycle"]
    [] OTHER -> Node(n)

UsedNodes == (IF DefaultsNode = None THEN {} ELSE {DefaultsNode}) \cup Range(EntryNodes)
UsedValues == UNION {Children(n) : n \in UsedNodes}

DirectivesResolved ==
  /\ error = "recursive" => \E v \in UsedValues : InCycle(v)
  /\ error = "unset" /\ ~IsSelect(node) =>
       \E d \in Below(UsedValues) :
         Kind(d) = "env" /\ ~Set(Node(d).name) /\ Node(d).default = None
  /\ at = "config" /\ entries # <<>> /\ base = None /\ node # None =>
       /\ \A v \in UsedValues : ~InCycle(v)
       /\ \A i \in DOMAIN EntryNodes : \A k \in DOMAIN Node(EntryNodes[i]).of :
            LET want == Read(Node(EntryNodes[i]).of[k])
            IN want.is # "cycle" => entries[i].values[k] = want

(* Every leaf of what a command sees is that of the nearest layer: its own   *)
(* --config entry, else the root entry where the --config says nothing, not  *)
(* even null, at, above or below that place; and a key that is attributed to *)
(* the root file has nothing of the --config file in it.                     *)
RECURSIVE Leaves(_, _)
Leaves(path, v) ==
  IF v.is = "map" THEN UNION {Leaves(Append(path, k), v.of[k]) : k \in DOMAIN v.of}
  ELSE {<<path, v>>}
RECURSIVE Maps(_, _)
Maps(path, v) ==
  IF v.is = "map" THEN {path} \cup UNION {Maps(Append(path, k), v.of[k]) : k \in DOMAIN v.of}
  ELSE {}

AsMap(values) == [is |-> "map", of |-> values]
Nearest(root, own) ==
  LET said == Leaves(<<>>, AsMap(own))
  IN {l \in said : l[2].is # "null"} \cup
     {l \in Leaves(<<>>, AsMap(root)) :
        /\ l[1] \notin Maps(<<>>, AsMap(own))
        /\ \A s \in said : ~IsPrefix(s[1], l[1]) /\ ~IsPrefix(l[1], s[1])}

OwnEntries ==
  LET st == ResolveEntries((IF DefaultsNode = None THEN <<>> ELSE <<DefaultsNode>>) \o EntryNodes)
  IN [i \in DOMAIN EntryNodes |-> OneEntry(st, EntryNodes[i]).values]

LayersOutrank ==
  /\ at = "config" /\ entries # <<>> /\ base # None /\ node # None =>
       \A i \in DOMAIN entries :
         /\ Leaves(<<>>, AsMap(entries[i].values)) = Nearest(base.values, OwnEntries[i])
  /\ \A i \in DOMAIN results : \A f \in DOMAIN results[i] :
       ConfigSource(entries[i], f, results[i]) = "root" =>
         /\ load.root # None
         /\ node # None => load.fields[f].key \notin DOMAIN OwnEntries[i]

(* A load that succeeds shows what the files say, and only a file that says   *)
(* something wrong is refused: whatever the shape of the documents.           *)
LoadIsExact == CheckedBeforeRead /\ DirectivesResolved /\ LayersOutrank
=============================================================================
