------------------------------ MODULE Compiler ------------------------------
(***************************************************************************)
(* compile_pipeline (pipeline_compiler.py): the recursive compilation of a  *)
(* @pipeline function and the subpipelines it calls into a bundle of YAML   *)
(* files.  Config values flow down two ways: a flagged pipeline             *)
(* (propagate_config) broadcasts its own config, and an override on a call  *)
(* goes to the child, and past it when the caller is flagged.  A child that *)
(* is reached again with the same key shares the file compiled for it.      *)
(***************************************************************************)
EXTENDS Integers, Sequences

CONSTANTS
  Fns,       \* pipeline functions; a function stands for its source and config path
  Keys,      \* config keys
  Values,    \* their values
  Unset,     \* a key that is not there
  NoFile,    \* a config file that does not exist
  NoLayout,  \* a pipeline without @Layout()
  Layouts,   \* the layouts of @Layout(): [recursive : BOOLEAN, ...]
  RootName,  \* the --output path
  MaxDepth,  \* ctx.max_depth
  Programs   \* the compilations to consider

Configs == [Keys -> Values \cup {Unset}]
Empty == [k \in Keys |-> Unset]

(* def: what a function declares.  calls: its subpipeline(child) calls, with *)
(* .override_config, the arguments passed and the outputs used.  breaks:     *)
(* what is wrong with it.                                                    *)
Breaks == {"nothing", "trace", "layout", "schema"}

ASSUME ConstantsOK ==
  /\ MaxDepth \in Nat \ {0}
  /\ Unset \notin Values
  /\ NoFile \notin Configs
  /\ NoLayout \notin Layouts
  /\ \A l \in Layouts : l.recursive \in BOOLEAN
  /\ \A p \in Programs :
       /\ p.root \in Fns
       /\ p.overrides \in Configs
       /\ p.transform \in BOOLEAN
       /\ \A f \in Fns :
            /\ p.def[f].file \in Configs \cup {NoFile}
            /\ p.def[f].accepts \in BOOLEAN
            /\ p.def[f].flagged \in BOOLEAN
            /\ p.def[f].named \in BOOLEAN
            /\ p.def[f].layout \in Layouts \cup {NoLayout}
            /\ p.def[f].breaks \in Breaks
            /\ \A i \in DOMAIN p.def[f].calls :
                 /\ p.def[f].calls[i].child \in Fns
                 /\ p.def[f].calls[i].over \in Configs

VARIABLES
  program,   \* the compilation, fixed from the start
  pc,        \* "load", "calls", "validate", "write", "done"
  frames,    \* the pipelines being compiled, root first (ctx.active_stack)
  layers,    \* ctx.broadcast_stack
  registry,  \* the children compiled so far, in order (ctx.registry)
  bundle,    \* root and children, once all are compiled
  checked,   \* how many of the bundle are validated
  written,   \* how many of them are on disk
  verdict    \* "none", "compiled", or the kind of error

vars == <<program, pc, frames, layers, registry, bundle, checked, written, verdict>>

Def(f) == program.def[f]

-----------------------------------------------------------------------------
(* Config resolution. *)

Overlay(over, base) == [k \in Keys |-> IF over[k] # Unset THEN over[k] ELSE base[k]]
OnlyKeys(c, D) == [k \in Keys |-> IF k \in D THEN c[k] ELSE Unset]
KeysOf(c) == {k \in Keys : c[k] # Unset}

RawConfig(f) == IF Def(f).file = NoFile THEN Empty ELSE Def(f).file
Declared(f) == KeysOf(RawConfig(f))
Loads(f) == Def(f).accepts \/ Def(f).flagged

(* The innermost layer of one tier that has the key. *)
NearestIn(tier, ls, k) ==
  LET having == {i \in DOMAIN ls : ls[i].explicit = tier /\ ls[i].config[k] # Unset}
  IN IF having = {} THEN Unset
     ELSE ls[CHOOSE i \in having : \A j \in having : j <= i].config[k]

Tier(tier, ls) == [k \in Keys |-> NearestIn(tier, ls, k)]

(* Explicit overrides that flow deep outrank every broadcast. *)
Resolved(ls) == Overlay(Tier(TRUE, ls), Tier(FALSE, ls))

(* A child sees what it declares; the call's own override wins. *)
Effective(f, over, ls) == Overlay(over, OnlyKeys(Resolved(ls), Declared(f)))

(* What flows past a child to its descendants. *)
NoAmbient(f, ls) == Empty  \* mutant: the key leaves out what flows past
Ambient(f, ls) == OnlyKeys(Resolved(ls), Keys \ Declared(f))

CompileKey(f, effective, ambient) ==
  [fn |-> f, effective |-> effective, ambient |-> ambient]

(* _LayoutPolicy: the layout applied here, and the one handed down. *)
LayoutPolicy(f, carry) ==
  LET own == Def(f).layout IN
  IF ~program.transform THEN [apply |-> NoLayout, carry |-> NoLayout]
  ELSE IF own # NoLayout
    THEN [apply |-> own, carry |-> IF own.recursive THEN own ELSE NoLayout]
    ELSE [apply |-> carry, carry |-> carry]

(* The root may run on its overrides alone when it names no config file.     *)
ConfigMissing(f, over, isRoot) ==
  /\ Loads(f) /\ Def(f).file = NoFile
  /\ ~(isRoot /\ ~Def(f).named /\ over # Empty)

OwnConfig(f, over) == IF Def(f).accepts THEN Overlay(over, RawConfig(f)) ELSE Empty

-----------------------------------------------------------------------------
(* One pipeline: the frame of _compile_pipeline_fn. *)

Top == frames[Len(frames)]
IsRoot == Len(frames) = 1
Call == Def(Top.fn).calls[Top.next]
HasCall == pc = "calls" /\ Top.next <= Len(Def(Top.fn).calls)

(* Its config layer lies on the stack while its calls are compiled; a child  *)
(* broadcasts its own file only, the root its overrides too.                 *)
BroadcastLayers(f, rebroadcast) ==
  IF Def(f).flagged
    THEN <<[config |-> Overlay(rebroadcast, RawConfig(f)), explicit |-> FALSE]>>
    ELSE <<>>

Frame(f, key, over, policy, below) ==
  [fn |-> f, key |-> key, cfg |-> OwnConfig(f, over),
   apply |-> policy.apply, carry |-> policy.carry,
   below |-> below,  \* height of the stack of layers to return to
   next |-> 1, calls |-> <<>>]

Init == /\ program \in Programs
        /\ pc = "load"
        /\ frames = <<>>
        /\ layers = <<>>
        /\ registry = <<>>
        /\ bundle = <<>>
        /\ checked = 0
        /\ written = 0
        /\ verdict = "none"

Raise(error) == /\ pc' = "done"
                /\ verdict' = error
                /\ UNCHANGED <<program, frames, layers, registry, bundle, checked, written>>

(* An --override that the root neither reads nor broadcasts is an error.     *)
RootFails ==
  /\ pc = "load"
  /\ LET f == program.root IN
     \/ ConfigMissing(f, program.overrides, TRUE) /\ Raise("config")
     \/ ~Loads(f) /\ program.overrides # Empty /\ Raise("config")
     \/ /\ ~ConfigMissing(f, program.overrides, TRUE)
        /\ Loads(f) \/ program.overrides = Empty
        /\ Def(f).breaks = "trace" /\ Raise("trace")

OpenRoot ==
  /\ pc = "load"
  /\ LET f == program.root
         key == CompileKey(f, program.overrides, Empty)
     IN /\ ~ConfigMissing(f, program.overrides, TRUE)
        /\ Loads(f) \/ program.overrides = Empty
        /\ Def(f).breaks # "trace"
        /\ frames' = <<Frame(f, key, program.overrides, LayoutPolicy(f, NoLayout), 0)>>
        /\ layers' = BroadcastLayers(f, program.overrides)
  /\ pc' = "calls"
  /\ UNCHANGED <<program, registry, bundle, checked, written, verdict>>

-----------------------------------------------------------------------------
(* One call: the loop of _process_subpipeline_children. *)

CallKey == CompileKey(Call.child, Effective(Call.child, Call.over, layers),
                      Ambient(Call.child, layers))
CallPolicy == LayoutPolicy(Call.child, Top.carry)

(* A child laid out under two policies is two files. *)
CallName == [key |-> CallKey, variant |-> CallPolicy]

(* A key in .override_config that the child's file does not have.            *)
CallMisspelt == ~(KeysOf(Call.over) \subseteq Declared(Call.child))

OnActiveStackBare(key) ==  \* mutant: the active keys lack what flows past
  \E i \in DOMAIN frames : [frames[i].key EXCEPT !.ambient = Empty] = key
OnActiveStack(key) == \E i \in DOMAIN frames : frames[i].key = key
ClosesCycle == OnActiveStack(CallKey)

Compiled(name) == {i \in DOMAIN registry : registry[i].name = name}

CallMisspeltFails == HasCall /\ CallMisspelt /\ Raise("override")

CallCycleFails == HasCall /\ ~CallMisspelt /\ ClosesCycle /\ Raise("cycle")

CallTooDeepFails ==
  /\ HasCall /\ ~CallMisspelt /\ ~ClosesCycle
  /\ Compiled(CallName) = {}
  /\ Len(frames) + 1 > MaxDepth
  /\ Raise("depth")

MayOpen == /\ HasCall /\ ~CallMisspelt /\ ~ClosesCycle
           /\ Compiled(CallName) = {}
           /\ Len(frames) + 1 <= MaxDepth

OpenFails ==
  /\ MayOpen
  /\ \/ ConfigMissing(Call.child, Empty, FALSE) /\ Raise("config")
     \/ /\ ~ConfigMissing(Call.child, Empty, FALSE)
        /\ Def(Call.child).breaks = "trace" /\ Raise("trace")

(* The override on the call is a layer for the child's descendants when the  *)
(* caller is flagged.                                                        *)
EdgeLayers == IF Def(Top.fn).flagged /\ Call.over # Empty
                THEN <<[config |-> Call.over, explicit |-> TRUE]>>
                ELSE <<>>

OpenChild ==
  /\ MayOpen
  /\ ~ConfigMissing(Call.child, Empty, FALSE)
  /\ Def(Call.child).breaks # "trace"
  /\ frames' = Append(frames,
       Frame(Call.child, CallKey, CallKey.effective, CallPolicy, Len(layers)))
  /\ layers' = layers \o EdgeLayers \o BroadcastLayers(Call.child, Empty)
  /\ UNCHANGED <<program, pc, registry, bundle, checked, written, verdict>>

(* The child's interface, as its compiled body declares it.                  *)
Required(f) == {i \in DOMAIN Def(f).inputs : Def(f).inputs[i] = "required"}
Defaulted(f) == {i \in DOMAIN Def(f).inputs : Def(f).inputs[i] = "default"}

CallFits(call) == /\ call.args \subseteq DOMAIN Def(call.child).inputs
                  /\ Required(call.child) \subseteq call.args
OutputsExist(call) == call.uses \subseteq Def(call.child).outputs

(* The call as it is written: a reference to the child's file, and the       *)
(* child's defaults for what the caller left out.                            *)
Written(call, name) == [ref |-> name, args |-> call.args \cup Defaulted(call.child)]

AttachAgain(frame, call, name) ==  \* mutant: the loop goes back to the first call
  [frame EXCEPT !.next = IF @ = 1 THEN 2 ELSE 1]
Attach(frame, call, name) ==
  [frame EXCEPT !.next = @ + 1, !.calls = Append(@, Written(call, name))]

ReuseChild ==
  /\ HasCall /\ ~CallMisspelt /\ ~ClosesCycle
  /\ Compiled(CallName) # {}
  /\ IF CallFits(Call)
       THEN /\ frames' = [frames EXCEPT ![Len(frames)] = Attach(@, Call, CallName)]
            /\ UNCHANGED <<program, pc, layers, registry, bundle, checked, written, verdict>>
       ELSE Raise("interface")

-----------------------------------------------------------------------------
(* A pipeline whose calls are all compiled. *)

Closing == pc = "calls" /\ Top.next > Len(Def(Top.fn).calls)

(* Only now are the outputs used looked up in what the children declare.     *)
OutputsMissing == \E i \in DOMAIN Def(Top.fn).calls : ~OutputsExist(Def(Top.fn).calls[i])
OutputsFail == Closing /\ OutputsMissing /\ Raise("interface")

LayoutBreaks == Top.apply # NoLayout /\ Def(Top.fn).breaks = "layout"

(* The layout transform raises, or changes more than positions.              *)
LayoutFails == Closing /\ ~OutputsMissing /\ LayoutBreaks /\ Raise("layout")

Artifact(frame, name) == [name |-> name, fn |-> frame.fn, cfg |-> frame.cfg,
                          apply |-> frame.apply, calls |-> frame.calls]

Caller == frames[Len(frames) - 1]
CallersCall == Def(Caller.fn).calls[Caller.next]
NameOf(frame) == [key |-> frame.key,
                  variant |-> [apply |-> frame.apply, carry |-> frame.carry]]

CloseChild ==
  /\ Closing /\ ~OutputsMissing /\ ~LayoutBreaks /\ ~IsRoot
  /\ IF CallFits(CallersCall)
       THEN /\ registry' = Append(registry, Artifact(Top, NameOf(Top)))
            /\ layers' = SubSeq(layers, 1, Top.below)
            /\ frames' = [i \in 1..(Len(frames) - 1) |->
                            IF i = Len(frames) - 1
                              THEN Attach(Caller, CallersCall, NameOf(Top))
                              ELSE frames[i]]
            /\ UNCHANGED <<program, pc, bundle, checked, written, verdict>>
       ELSE Raise("interface")

CloseRoot ==
  /\ Closing /\ ~OutputsMissing /\ ~LayoutBreaks /\ IsRoot
  /\ bundle' = <<Artifact(Top, RootName)>> \o registry
  /\ frames' = <<>>
  /\ layers' = <<>>
  /\ pc' = "validate"
  /\ UNCHANGED <<program, registry, checked, written, verdict>>

-----------------------------------------------------------------------------
(* The bundle: everything is validated before anything is written. *)

Valid(a) == Def(a.fn).breaks # "schema"

CheckFails == /\ pc = "validate" /\ checked < Len(bundle)
              /\ ~Valid(bundle[checked + 1])
              /\ Raise("schema")

AllChecked == checked = Len(bundle)

Check == /\ pc = "validate" /\ checked < Len(bundle)
         /\ Valid(bundle[checked + 1])
         /\ checked' = checked + 1
         /\ UNCHANGED <<program, pc, frames, layers, registry, bundle, written, verdict>>

BeginWrite == /\ pc = "validate" /\ AllChecked
              /\ pc' = "write"
              /\ UNCHANGED <<program, frames, layers, registry, bundle, checked, written, verdict>>

Write == /\ pc = "write" /\ written < Len(bundle)
         /\ written' = written + 1
         /\ UNCHANGED <<program, pc, frames, layers, registry, bundle, checked, verdict>>

(* The disk is full, or the directory cannot be written.                     *)
WriteFails == pc = "write" /\ written < Len(bundle) /\ Raise("io")

Finish == /\ pc = "write" /\ written = Len(bundle)
          /\ pc' = "done"
          /\ verdict' = "compiled"
          /\ UNCHANGED <<program, frames, layers, registry, bundle, checked, written>>

Done == pc = "done" /\ UNCHANGED vars

Compile == \/ RootFails \/ OpenRoot
           \/ CallMisspeltFails \/ CallCycleFails \/ CallTooDeepFails
           \/ OpenFails \/ OpenChild \/ ReuseChild
           \/ OutputsFail \/ LayoutFails \/ CloseChild \/ CloseRoot
           \/ CheckFails \/ Check \/ BeginWrite \/ Write \/ WriteFails \/ Finish

Next == Compile \/ Done

(* One synchronous call.                                                     *)
Spec == Init /\ [][Next]_vars /\ WF_vars(Compile)

-----------------------------------------------------------------------------
(* Properties. *)

(* Type invariant: the control state and the shape of the stacks.            *)
TypeOK ==
  /\ pc \in {"load", "calls", "validate", "write", "done"}
  /\ \A i \in DOMAIN layers : /\ layers[i].config \in Configs
                              /\ layers[i].explicit \in BOOLEAN
  /\ \A i \in DOMAIN frames : frames[i].fn \in Fns /\ frames[i].below \in Nat
  /\ pc = "calls" => frames # <<>>
  /\ checked \in 0..Len(bundle) /\ written \in 0..Len(bundle)

(* No file is written before all of them are valid; until writing begins an  *)
(* error leaves nothing; and a bundle that is complete refers to its own     *)
(* files only, and holds none that nothing refers to.                        *)
Names == {bundle[i].name : i \in DOMAIN bundle}
RefersTo(i) == {bundle[i].calls[c].ref : c \in DOMAIN bundle[i].calls}

AllOrNothing ==
  /\ written > 0 => checked = Len(bundle) /\ \A i \in DOMAIN bundle : Valid(bundle[i])
  /\ verdict \notin {"none", "io", "compiled"} => written = 0
  /\ verdict = "compiled" => written = Len(bundle) /\ bundle # <<>>
  /\ bundle # <<>> =>
       UNION {RefersTo(i) : i \in DOMAIN bundle} = Names \ {RootName}

(* Every compilation ends, recursive programs included.                      *)
Ends == <>(pc = "done")
=============================================================================
