-------------------------- MODULE MCPackageRelease --------------------------
(* Model-checking instance of PackageRelease: an application that depends on *)
(* a library; the library may graduate, the application may not.             *)
EXTENDS PackageRelease

CONSTANTS lib, app

TwoEdges == {<<app, lib>>}
CaretOnLib == [e \in Edges |-> [op |-> "^", parts |-> <<0, 1, 0>>]]
StartAt01 == [p \in Packages |-> <<0, 1, 0>>]
ProductAt01 == <<0, 1, 0>>

\* The compatible change, the breaking one of a 0.x version and the one of a version
\* from 1.0.0 on; the user names no target.
Patch == [level |-> 1, breaking |-> FALSE, target |-> NoVersion]
CompatibleOrBreaking ==
  {Patch, [Patch EXCEPT !.level = 2, !.breaking = TRUE],
   [Patch EXCEPT !.level = 3, !.breaking = TRUE]}
=============================================================================
