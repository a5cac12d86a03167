----------------------------- MODULE MCBuildQueue -----------------------------
(***************************************************************************)
(* Small instances of BuildQueue for TLC.                                  *)
(***************************************************************************)
EXTENDS BuildQueue, TLC
CONSTANTS p1, p2

MCJobLists == {<<p1, p1>>, <<p1, p2>>}
MCCompileLists == {<<>>, <<"compile", "compile", "link">>}
MCSteps == (p1 :> <<>>) @@ (p2 :> <<"step">>)
MCMaxDepth == <<1, 1>>
===============================================================================
