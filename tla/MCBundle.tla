------------------------------- MODULE MCBundle -------------------------------
(* The programs of the model-checking run: three modules side by side, in     *)
(* every mixture of imports; a package within a package; and files that are  *)
(* installed, or belong to another project.                                  *)
EXTENDS ModuleBundle, TLC

ImportOf(of, uses) == [from |-> FALSE, level |-> 0, of |-> of, name |-> Value, lazy |-> FALSE, uses |-> uses]
From(level, of, name, uses) == [from |-> TRUE, level |-> level, of |-> of, name |-> name, lazy |-> FALSE, uses |-> uses]
Get(level, of) == From(level, of, Value, FALSE)
Later(s) == [s EXCEPT !.lazy = TRUE]
Module1(body) == [package |-> FALSE, place |-> "project", body |-> body]
Package1(body) == [Module1(body) EXCEPT !.package = TRUE]
Uses(statements) == {<<>>} \cup {<<s>> : s \in statements}

Beside(others) == Uses(UNION {{ImportOf(o, FALSE), ImportOf(o, TRUE), Get(0, o), Later(Get(0, o))} : o \in others})
Flat ==
  {[files |-> <<1>> :> Module1(one) @@ <<2>> :> Module1(two) @@ <<3>> :> Module1(three), main |-> main, deps |-> {}] :
     one \in Beside({<<2>>, <<3>>}), two \in Beside({<<1>>, <<3>>}), three \in Beside({<<1>>, <<2>>}),
     main \in {<<Get(0, <<1>>)>>, <<ImportOf(<<3>>, TRUE), Later(Get(0, <<2>>))>>}}

InPackages ==
  {[files |-> <<2>> :> Package1(init) @@ <<2, 1>> :> Module1(one) @@ <<2, 2>> :> Package1(inner)
              @@ <<2, 2, 1>> :> Module1(deep) @@ <<2, 3>> :> Module1(three),
    main |-> main, deps |-> {}] :
     init \in Uses({From(1, <<>>, 1, FALSE), Get(1, <<1>>), Get(0, <<2, 2>>)}),
     one \in Uses({From(1, <<>>, 3, TRUE), Get(1, <<3>>), Get(1, <<>>), From(1, <<2>>, 1, FALSE), Later(Get(1, <<>>))}),
     three \in Uses({Get(1, <<1>>), Get(0, <<2, 2, 1>>)}),
     inner \in Uses({Get(1, <<1>>), Get(0, <<2, 2, 1>>), From(2, <<>>, 3, TRUE)}),
     deep \in Uses({Get(2, <<>>), Get(2, <<1>>), Get(1, <<>>)}),
     main \in {<<Get(0, <<2>>)>>, <<ImportOf(<<2, 1>>, TRUE)>>, <<Get(0, <<2, 2, 1>>)>>, <<From(0, <<2, 2>>, 1, TRUE)>>}}

InOtherPlaces ==
  {[files |-> <<1>> :> [Module1(<<Get(0, <<3>>)>>) EXCEPT !.place = place] @@ <<2>> :> Module1(<<Get(0, <<4>>)>>)
              @@ <<3>> :> [Module1(<<>>) EXCEPT !.place = other],
    main |-> main, deps |-> deps] :
     place \in {"project", "apart"}, other \in {"project", "apart"}, deps \in {{}, {4}, {1, 4}},
     main \in {<<Get(0, <<1>>)>>, <<Get(0, <<2>>)>>, <<Later(Get(0, <<1>>)), Get(0, <<2>>)>>}}

Bundles == InPackages \cup (Flat \cup InOtherPlaces)
=============================================================================
