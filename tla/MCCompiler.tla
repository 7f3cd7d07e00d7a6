----------------------------- MODULE MCCompiler -----------------------------
(* The programs of the model-checking runs of Compiler, and the meaning of a *)
(* program: the tree of pipelines it compiles to when nothing is shared.     *)
EXTENDS Compiler, FiniteSets, TLC

-----------------------------------------------------------------------------
(* The reference: every call compiled by itself, in its own context.         *)

Around(f, over, ls) ==
  ls \o (IF Def(f).flagged /\ over # Empty
           THEN <<[config |-> over, explicit |-> TRUE]>> ELSE <<>>)

RECURSIVE Standalone(_, _, _, _)
Standalone(f, over, ls, policy) ==
  [fn |-> f, cfg |-> OwnConfig(f, over), apply |-> policy.apply,
   calls |-> [i \in DOMAIN Def(f).calls |->
     LET call == Def(f).calls[i]
         child == call.child
     IN Standalone(child, Effective(child, call.over, ls),
                   Around(f, call.over, ls) \o BroadcastLayers(child, Empty),
                   LayoutPolicy(child, policy.carry))]]

Meaning == Standalone(program.root, program.overrides,
                      BroadcastLayers(program.root, program.overrides),
                      LayoutPolicy(program.root, NoLayout))

RECURSIVE Unfold(_)
Unfold(name) ==
  LET a == bundle[CHOOSE i \in DOMAIN bundle : bundle[i].name = name]
  IN [fn |-> a.fn, cfg |-> a.cfg, apply |-> a.apply,
      calls |-> [i \in DOMAIN a.calls |-> Unfold(a.calls[i].ref)]]

(* The contexts in which the key of a child tells all its descendants see: a *)
(* key set on the call of an unflagged pipeline is neither broadcast nor set *)
(* on the call of a flagged one, and a key set on the call of a flagged      *)
(* pipeline is not in the file of a flagged one.                             *)
SetOnCallsOf(flag) ==
  UNION {UNION {KeysOf(Def(f).calls[i].over) : i \in DOMAIN Def(f).calls} :
           f \in {g \in Fns : Def(g).flagged = flag}}

BroadcastKeys == UNION {Declared(f) : f \in {g \in Fns : Def(g).flagged}}

KeysApart ==
  /\ SetOnCallsOf(FALSE) \cap (BroadcastKeys \cup KeysOf(program.overrides)
                                \cup SetOnCallsOf(TRUE)) = {}
  /\ SetOnCallsOf(TRUE) \cap BroadcastKeys = {}

(* Sharing a file never changes what is compiled: read with its references   *)
(* followed, the bundle is the tree of every call compiled by itself.        *)
SharedMeansEqual == bundle # <<>> => Unfold(RootName) = Meaning
SharedMeansEqualApart == KeysApart => SharedMeansEqual

(* A call chain that comes back to a pipeline in the context it was in is    *)
(* reported as the cycle it is, and not by the depth limit.                  *)
Callees(S) == UNION {{Def(f).calls[i].child : i \in DOMAIN Def(f).calls} : f \in S}

RECURSIVE Reached(_)
Reached(S) == IF Callees(S) \subseteq S THEN S ELSE Reached(S \cup Callees(S))
Recursive == \E f \in Reached({program.root}) : f \in Reached(Callees({f}))

CyclesNamed ==
  /\ verdict = "cycle" => Recursive
  /\ verdict = "depth" => ~Recursive
  /\ bundle # <<>> => ~Recursive

(* A compilation that succeeds leaves a whole bundle, and one that is refused *)
(* leaves nothing and names the reason. A write that fails may leave a part.  *)
BundleOrReason == AllOrNothing /\ CyclesNamed

-----------------------------------------------------------------------------
(* Programs. *)

CONSTANTS fr, fa, fp, fc, fd, fe
SixFns == {fr, fa, fp, fc, fd, fe}

NoInputs == [i \in {} |-> "required"]
Plain == [file |-> NoFile, accepts |-> FALSE, flagged |-> FALSE, named |-> FALSE,
          layout |-> NoLayout, breaks |-> "nothing", calls |-> <<>>,
          inputs |-> NoInputs, outputs |-> {}]

Cfg(kv, jv) == [x \in Keys |-> IF x = "k" THEN kv ELSE jv]
Has(file) == [Plain EXCEPT !.file = file, !.accepts = TRUE]
Flagged(def) == [def EXCEPT !.flagged = TRUE]

Passing(child, over, args, uses) ==
  [child |-> child, over |-> over, args |-> args, uses |-> uses]
To(child, over) == Passing(child, over, {}, {})
Calls(def, calls) == [def EXCEPT !.calls = calls]

Program(defs, over, transform) ==
  [root |-> fr, overrides |-> over, transform |-> transform,
   def |-> [f \in SixFns |-> IF f \in DOMAIN defs THEN defs[f] ELSE Plain]]

Overs == {Empty, Cfg(1, Unset), Cfg(Unset, 1)}

(* fr calls fa and fp, fa calls fp, fp calls fc, fc calls fd: fp, fc and fd  *)
(* are reached twice, past flagged or unflagged pipelines and overrides.     *)
Sharing ==
  {Program((fr :> Calls(rDef, <<To(fa, Empty), To(fp, Empty)>>)) @@
           (fa :> Calls(aDef, <<To(fp, o1)>>)) @@
           (fp :> Calls(pDef, <<To(fc, o2)>>)) @@
           (fc :> Calls(cDef, <<To(fd, Empty)>>)) @@
           (fd :> Has(Cfg(2, 2))),
           over, FALSE) :
     rDef \in {Plain, Flagged(Has(Cfg(1, Unset)))},
     aDef \in {Plain, Flagged(Has(Cfg(2, Unset))), Flagged(Has(Cfg(Unset, 1)))},
     pDef \in {Plain, Has(Cfg(1, 1))},
     cDef \in {Has(Cfg(1, 1)), Flagged(Has(Cfg(1, 1)))},
     o1 \in Overs, o2 \in Overs, over \in {Empty, Cfg(2, Unset)}}

(* The same calls under layouts that are inherited or not.                   *)
Once == [recursive |-> FALSE]
Deep == [recursive |-> TRUE]
TwoLayouts == {Once, Deep}

Laid ==
  {Program((fr :> [Calls(Plain, <<To(fa, Empty), To(fp, Empty)>>) EXCEPT !.layout = rl]) @@
           (fa :> [Calls(Plain, <<To(fp, Empty)>>) EXCEPT !.layout = al]) @@
           (fp :> [Calls(Plain, <<To(fc, Empty)>>) EXCEPT !.breaks = broken]) @@
           (fc :> [Plain EXCEPT !.layout = cl]),
           Empty, transform) :
     rl \in {NoLayout, Once, Deep}, al \in {NoLayout, Once, Deep},
     cl \in {NoLayout, Once}, broken \in {"nothing", "layout"}, transform \in BOOLEAN}

(* Pipelines that call themselves or each other, and a chain of six.         *)
Looping ==
  {Program((fr :> Calls(Flagged(Has(Cfg(1, 1))), <<To(fa, Empty)>>)) @@
           (fa :> Calls(aDef, <<To(fp, o1)>>)) @@
           (fp :> Calls(pDef, <<To(back, o2)>>)),
           Empty, FALSE) :
     aDef \in {Plain, Has(Cfg(2, 2)), Flagged(Has(Cfg(1, 2)))},
     pDef \in {Plain, Flagged(Has(Cfg(2, 1)))},
     back \in {fa, fp, fr}, o1 \in Overs, o2 \in Overs}
  \cup
  {Program((fr :> Calls(Plain, <<To(fa, Empty)>>)) @@ (fa :> Calls(Plain, <<To(fp, Empty)>>)) @@
           (fp :> Calls(Plain, <<To(fc, Empty)>>)) @@ (fc :> Calls(Plain, <<To(fd, Empty)>>)) @@
           (fd :> Calls(Plain, last)), Empty, FALSE) : last \in {<<>>, <<To(fe, Empty)>>}}

(* One pipeline of three is broken, its file is missing, or a call does not  *)
(* fit it.                                                                   *)
Wanting == [Plain EXCEPT !.inputs = ("x" :> "required") @@ ("y" :> "default"),
                         !.outputs = {"o"}]
Breaking ==
  {Program((fr :> Calls(rDef, <<Passing(fa, Empty, args, uses), Passing(fa, Empty, {"x"}, {})>>)) @@
           (fa :> Calls([Wanting EXCEPT !.breaks = broken], <<To(fp, Empty)>>)) @@
           (fp :> pDef), over, FALSE) :
     rDef \in {Plain, Has(NoFile), [Has(NoFile) EXCEPT !.named = TRUE],
               [Plain EXCEPT !.breaks = "trace"]},
     pDef \in {Plain, Has(NoFile), [Plain EXCEPT !.breaks = "schema"]},
     broken \in {"nothing", "trace", "schema"},
     args \in {{"x"}, {"y"}, {"x", "z"}}, uses \in {{}, {"o"}, {"q"}},
     over \in {Empty, Cfg(1, Unset)}}
  \cup
  {Program((fr :> Calls(Plain, <<To(fp, Empty), To(fa, Empty)>>)) @@
           (fp :> Calls(Plain, <<Passing(fa, Empty, {"x"}, {})>>)) @@
           (fa :> Wanting), Empty, FALSE)}

AllPrograms == Sharing \cup (Laid \cup (Looping \cup Breaking))
=============================================================================
