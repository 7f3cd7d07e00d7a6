----------------------------- MODULE MCModules ------------------------------
(* The compilations of the model-checking run, one after another in every    *)
(* order: two scripts with siblings of the same names, the second with a     *)
(* child in another directory, a script whose import fails and one that      *)
(* raises, over a process that has imported a helper of its own before.      *)
EXTENDS ModuleLoad, TLC

North == <<"north">>
South == <<"south">>
Nested == <<"south", "deep">>
Site == <<"site">>
File(name, dir) == [name |-> name, on |-> dir, in |-> dir]

Files == {File("child", North), File("helper", North), File("child", South),
          File("helper", South), File("child", Nested), File("helper", Site),
          [name |-> "json", on |-> Site, in |-> Append(Site, "json")]}
SitePath == <<Site>>
Before == ("helper" :> Site) @@ ("json" :> Append(Site, "json"))

Pipe(id, function, display, source) ==
  [id |-> id, function |-> function, display |-> display, source |-> source]
Mine == Pipe(1, "train", "Train", "here")
Twin == Pipe(2, "retrain", "Train", "here")
Namesake == Pipe(3, "Train", "Other", "here")
Theirs == Pipe(4, "train", "Child", "elsewhere")
Exec == Pipe(5, "train", "Built", "unknown")

Script(dir, imports, raises, pipelines, wanted, traces) ==
  [dir |-> dir, imports |-> imports, raises |-> raises, pipelines |-> pipelines,
   wanted |-> wanted, traces |-> traces]
Body(dir, imports) == [dir |-> dir, imports |-> imports]

ThreeCompiles == {1, 2, 3}
OfNorth == {Script(North, <<"child", "helper">>, FALSE, <<Theirs, Mine>>, wanted, <<Body(North, <<"json">>)>>) :
              wanted \in {"", "train", "Child"}}
           \cup {Script(North, <<"child", "lost">>, FALSE, <<Mine>>, "", <<Body(North, <<>>)>>),
                 Script(North, <<"helper">>, TRUE, <<Mine>>, "", <<Body(North, <<>>)>>)}
OfSouth == {Script(South, <<"child">>, FALSE, <<Theirs, Mine, Twin>>, "train",
                   <<Body(South, <<"helper">>), Body(Nested, last), Body(South, <<"child">>)>>) :
              last \in {<<"child", "helper">>, <<"lost">>, <<"child", "json">>}}
           \cup {Script(Site, <<"helper">>, FALSE, <<Mine>>, "", <<Body(Site, <<"json">>), Body(North, <<"child", "helper">>)>>)}
Choosing ==
  {Script(South, <<>>, FALSE, p, wanted, <<Body(South, <<"helper", "json">>)>>) :
     p \in {<<Mine, Twin>>, <<Mine, Mine>>, <<Mine, Twin, Namesake>>, <<Exec>>,
            <<Exec, Theirs>>, <<Exec, Mine>>, <<Theirs>>, <<>>},
     wanted \in {"", "train", "Train", "retrain", "Built"}}

\* A process that compiles for the north, for the south, and selects.
Processes == {<<n, s, t>> : n \in OfNorth, s \in OfSouth, t \in Choosing}

\* Beside these scripts there are modules, and no packages.
ASSUME FilesArePlain == PlainModules
=============================================================================
