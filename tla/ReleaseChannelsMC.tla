-------------------------- MODULE ReleaseChannelsMC -------------------------
(* Small instances of ReleaseChannels: a library in two versions and a       *)
(* package that requires the newer one; one package in three versions.       *)
EXTENDS ReleaseChannels, TLC

CONSTANTS lib1, lib2, lib3, app1, h1, h2

Versions == (lib1 :> 1) @@ (lib2 :> 2) @@ (lib3 :> 3) @@ (app1 :> 4)
AtOf == [r \in Releases |-> Versions[r]]
Name == [r \in Releases |-> IF r = app1 THEN "app" ELSE "lib"]
OneArch == [r \in Releases |-> "x86_64"]
NeedsLib == [r \in Releases |->
               IF r = app1 THEN {[name |-> "lib", by |-> {lib2}]} ELSE {}]
NeedsNone == [r \in Releases |-> {}]
HandlerSymmetry == Permutations(Handlers)
=============================================================================
