------------------------------- MODULE CohortMC -------------------------------
(* A library and an application that links to it.  The parent serves the      *)
(* first recipes; the second recipe of the library drops a symbol that the    *)
(* first recipe of the application imports and the second does not.           *)
EXTENDS Cohort, TLC

CONSTANTS c1, c2, u1, u2, lib, app, h1, h2

MCPlace == (lib :> 2) @@ (app :> 1)
MCRecipes == (lib :> 2) @@ (app :> 2)
Plain == [provides |-> {}, depends |-> {}, sonames |-> {}, needed |-> {}, exports |-> {},
          imports |-> {}, archives |-> {}, rebuildOn |-> {}]
Library(exports) == [Plain EXCEPT !.sonames = {"libx.so"}, !.exports = exports]
Application(imports) ==
  [Plain EXCEPT !.depends = {lib}, !.needed = {"libx.so"}, !.imports = imports]
MCMeta ==
  (lib :> << Library({"f", "g"}), Library({"f"}) >>)
    @@ (app :> << Application({"g"}), Application({"f"}) >>)
MCParent ==
  {MCMeta[p][1] @@ [name |-> p, bytes |-> <<p, 1, 0>>, origin |-> "owned", abi |-> TRUE,
                    lock |-> {}] : p \in {lib, app}}
(* A parent the repository built itself: the application from the library.    *)
MCOwnedParent ==
  {IF b.name = app THEN [b EXCEPT !.lock = {<<lib, 1, 0>>}] ELSE b : b \in MCParent}

(* Model-checking start: cohort c1 has the library's second recipe built and *)
(* qualified; the application's second recipe is in its scope, not built, or  *)
(* is not.                                                                    *)
(* A chunked scope came from a sealed upload; beside another, an upload of a  *)
(* next scope of one member may have begun.                                   *)
MCInit ==
  \E S \in {{lib}, {lib, app}}, chunked \in BOOLEAN, begun \in SUBSET (Uploads \ {u2}) :
    /\ S = {lib} => chunked /\ begun = {}
    /\ chunked => begun = {}
    /\ catalog = [p \in Packages |-> [revision |-> 1, admitted |-> TRUE]]
    /\ recipe = [p \in Packages |-> IF p \in S THEN 2 ELSE 1] /\ approved = Packages
    /\ cohorts = [c \in Cohorts |->
         IF c = c1 THEN [revision |-> 1, phase |-> "build", condition |-> "ready",
                         chunked |-> chunked,
                         members |-> {[pkg |-> p, policy |-> 1, recipe |-> 2] : p \in S}]
         ELSE Null]
    /\ owner = [k \in {<<p, r>> : p \in Packages, r \in 1..2} |->
         IF k[1] \in S /\ k[2] = 2 THEN c1 ELSE Null]
    /\ uploads = [u \in Uploads |->
         IF u \in begun THEN [cohort |-> c1, expected |-> Revision(c1), count |-> 1, members |-> {}, sealed |-> 0]
         ELSE IF chunked /\ u = u2
         THEN [cohort |-> c1, expected |-> 0, count |-> Cardinality(S), members |-> Members(c1), sealed |-> 1]
         ELSE Null]
    /\ selection = [p \in Packages |-> [revision |-> IF p = lib THEN 1 ELSE 0, lock |-> {}]]
    /\ builds = [p \in Packages |->
         IF p = lib THEN [recipe |-> 2, revision |-> 1, number |-> 1, status |-> "succeeded",
                          lock |-> {}]
         ELSE [recipe |-> recipe[p], revision |-> 0, number |-> 0, status |-> "queued",
               lock |-> {}]]
    /\ native = [p \in Packages |->
         IF p = lib THEN [revision |-> 1, passed |-> TRUE,
                          reports |-> {[revision |-> 1, bytes |-> <<lib, 2, 1>>]}]
         ELSE [revision |-> 0, passed |-> FALSE, reports |-> {}]]
    /\ pages = [c \in Cohorts |-> [p \in Packages |-> Null]]
    /\ calls = [h \in Handlers |-> Idle] /\ changes = 0
MCSpec == MCInit /\ [][Next]_vars
=============================================================================
